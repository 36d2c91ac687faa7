----------------------------- MODULE AgentTaskProofs -----------------------------
(***************************************************************************)
(* What holds of the restarts and of the restores of the Agent, and of the *)
(* start of the container it runs in, whatever fails and however often it  *)
(* dies.                                                                   *)
(*                                                                         *)
(* Restarts, for any number of them and of starts of nginx: the verdicts   *)
(* speak of a command that was sent and of a master that was seen when the *)
(* Agent no longer knows of either, so the invariant says what the journal *)
(* still tells of them, and who answers for the marker.                    *)
(*                                                                         *)
(* Restores (R), for any set of paths and of trees: a call knows its log,  *)
(* but the journal can be one stage ahead of it; a recovery starts from    *)
(* the journal alone.  The names of the restore are those of RestoreAgent  *)
(* and RestoreAgentInvariant.                                              *)
(*                                                                         *)
(* The start (C), for any files and any clock: an attempt to fill the root *)
(* takes back what it created, by name, while others may put files there;  *)
(* what it created stays apart from theirs.                                *)
(***************************************************************************)
EXTENDS RestartAgent, TLAPS

CONSTANTS Paths, Trees, Source, Targets, Managed, Valid, MaxEvents

VARIABLES
  r_target, r_files, r_running, r_replaced, r_hup, r_master, r_dir, r_journal, r_events, r_torn,
  r_safety, r_pc, r_stages, r_left, r_reload, r_durable, r_reply

R == INSTANCE RestoreAgentInvariant WITH
  target <- r_target, files <- r_files, running <- r_running, replaced <- r_replaced, hup <- r_hup,
  master <- r_master, dir <- r_dir, journal <- r_journal, events <- r_events, torn <- r_torn,
  safety <- r_safety, pc <- r_pc, stages <- r_stages, left <- r_left, reload <- r_reload,
  durable <- r_durable, reply <- r_reply

CONSTANTS DefaultFiles, OtherFiles, Window, MaxExits, MaxTime, MaxDeaths

VARIABLES
  c_root, c_foreign, c_created, c_init, c_deaths, c_startFrom, c_now, c_valid, c_nginx, c_record

C == INSTANCE ContainerStartup WITH
  MaxEvents <- MaxExits, root <- c_root, foreign <- c_foreign, created <- c_created, init <- c_init,
  deaths <- c_deaths, startFrom <- c_startFrom, now <- c_now, valid <- c_valid, nginx <- c_nginx,
  record <- c_record

USE BoundAssumption DEF BoundAssumption

\* The control points before the marker of the restart in hand is created.
BeforeMark == {"start", "validate", "sample", "sampling", "sampled", "mark"}

\* Those before the command is sent, or when it certainly was not.
BeforeRequest == BeforeMark \cup {"request", "fail"}

\* Those at which a marker belongs to the restart in hand.
OwnsMarker == {"request", "requested", "confirming", "confirm", "unmark", "attention"}

\* A call that runs has not answered, and the journal is at the stage it began last.
CallInv ==
  /\ pc \notin {"idle", "down"} => reply = NoReply
  /\ pc = "sampling" => journal.stage = "runtime_sampling"
  /\ pc \in {"mark", "request"} => journal.stage = "restart_requested"

\* The command is sent once, not before its turn,
SentOnce ==
  /\ requests \in {0, 1}
  /\ pc \in BeforeRequest => requests = 0

\* and was announced in the journal before; nothing calls it off.
SentIsLogged ==
  requests = 1 =>
    /\ journal.stage \in {"restart_requested", "runtime_confirming", "succeeded", "needs_attention"}
    /\ reply.state # "failed"

\* The running master is the last that was started, and a confirmed restart has one that was
\* started after the recorded one.
MasterInv ==
  /\ master \in {0, starts}
  /\ pc \in {"unmark", "succeed"} \/ journal.stage = "succeeded" => journal.before < starts

\* A marker that no interrupted restart has left is the marker of the restart in hand, or of the one
\* before, which ended in doubt.
MarkerHasOwner ==
  marker /\ ~loose =>
    pc \in OwnsMarker \/ (pc \in {"idle", "down"} /\ reply.state = "needs_attention")

\* Each restart creates one marker at most, and an exit of nginx takes it away.
MarkerCount == hidden + (IF marker THEN 1 ELSE 0) + (IF pc \in BeforeMark THEN 1 ELSE 0) <= number

IInv ==
  /\ TypeOK /\ CallInv /\ SentOnce /\ SentIsLogged /\ MasterInv
  /\ MarkerHasOwner /\ MarkerHasCause /\ MarkerCount

JournalRecord == [stage : StageNames \cup {"none"}, before : 0..starts]
Answers == [state : {"none", "running"} \cup TerminalStages, code : {"none", "marker", "other"}]

\* The type of what a logging step changes.
LogTypeOK ==
  /\ journal \in JournalRecord /\ torn \in BOOLEAN
  /\ events \in Seq(StageNames) /\ stages \in Seq(StageNames)

-------------------------------------------------------------------------------
(* Stages. *)

\* The stages of restartStageOrder by their names.
LEMMA StageNamesAre ==
  StageNames = {"production_validating", "runtime_sampling", "restart_requested",
                "runtime_confirming", "succeeded", "failed", "needs_attention"}
<1>1. DOMAIN Stages = {1, 2, 3, 4, 5, 6, 7}
  BY DEF Stages
<1> QED
  BY <1>1 DEF StageNames, Stages

\* A stage at which the command may have been sent is not before restart_requested in
\* restartStageOrder.
LEMMA OrderFacts ==
  /\ StageOrder("production_validating") = 1 /\ StageOrder("runtime_sampling") = 2
  /\ StageOrder("restart_requested") = 3 /\ StageOrder("runtime_confirming") = 4
  /\ StageOrder("succeeded") = 5 /\ StageOrder("needs_attention") = 7
<1>1. DOMAIN Stages = {1, 2, 3, 4, 5, 6, 7}
  BY DEF Stages
<1>2. /\ Stages[1] = "production_validating" /\ Stages[2] = "runtime_sampling"
      /\ Stages[3] = "restart_requested" /\ Stages[4] = "runtime_confirming"
      /\ Stages[5] = "succeeded" /\ Stages[6] = "failed" /\ Stages[7] = "needs_attention"
  BY DEF Stages
<1>3. StageOrder("restart_requested") = 3
  <2>1. \A i \in DOMAIN Stages : Stages[i] = "restart_requested" <=> i = 3
    BY <1>1, <1>2
  <2> QED
    BY <1>1, <2>1 DEF StageOrder
<1>4. StageOrder("runtime_confirming") = 4
  <2>1. \A i \in DOMAIN Stages : Stages[i] = "runtime_confirming" <=> i = 4
    BY <1>1, <1>2
  <2> QED
    BY <1>1, <2>1 DEF StageOrder
<1>5. StageOrder("succeeded") = 5
  <2>1. \A i \in DOMAIN Stages : Stages[i] = "succeeded" <=> i = 5
    BY <1>1, <1>2
  <2> QED
    BY <1>1, <2>1 DEF StageOrder
<1>6. StageOrder("needs_attention") = 7
  <2>1. \A i \in DOMAIN Stages : Stages[i] = "needs_attention" <=> i = 7
    BY <1>1, <1>2
  <2> QED
    BY <1>1, <2>1 DEF StageOrder
<1>7. StageOrder("production_validating") = 1
  <2>1. \A i \in DOMAIN Stages : Stages[i] = "production_validating" <=> i = 1
    BY <1>1, <1>2
  <2> QED
    BY <1>1, <2>1 DEF StageOrder
<1>8. StageOrder("runtime_sampling") = 2
  <2>1. \A i \in DOMAIN Stages : Stages[i] = "runtime_sampling" <=> i = 2
    BY <1>1, <1>2
  <2> QED
    BY <1>1, <2>1 DEF StageOrder
<1> QED
  BY <1>3, <1>4, <1>5, <1>6, <1>7, <1>8

\* appendStage, with or without an error, writes the stage it was given or leaves the journal.
LEMMA Logged ==
  ASSUME LogTypeOK, NEW stage \in StageNames, TryLog(stage), UNCHANGED starts
  PROVE  /\ LogTypeOK'
         /\ journal'.before = journal.before
         /\ journal'.stage = stage \/ journal'.stage = journal.stage
         /\ Log(stage) => journal'.stage = stage
<1>1. LogTypeOK /\ Log(stage) =>
        /\ LogTypeOK'
        /\ journal'.before = journal.before /\ journal'.stage = stage
  BY DEF LogTypeOK, Log, JournalRecord
<1>2. CASE LogError(stage)
  <2>1. journal' = journal \/ journal' = [journal EXCEPT !.stage = stage]
    BY <1>2 DEF LogError
  <2>2. journal' \in JournalRecord' /\ journal'.before = journal.before
        /\ (journal'.stage = stage \/ journal'.stage = journal.stage)
    BY <2>1 DEF LogTypeOK, JournalRecord
  <2>3. torn' \in BOOLEAN
    BY <1>2, Zenon DEF LogTypeOK, LogError
  <2>4. stages' = stages /\ (events' = events \/ events' = Append(events, stage))
    BY <1>2 DEF LogError
  <2>5. events' \in Seq(StageNames)
    BY <2>4 DEF LogTypeOK
  <2> QED
    BY <2>2, <2>3, <2>4, <2>5, <1>1 DEF LogTypeOK
<1> QED
  BY <1>1, <1>2 DEF TryLog

-------------------------------------------------------------------------------
(* The parts of the type invariant. *)

RuntimeTypeOK ==
  /\ starts \in 1..MaxStarts /\ master \in 0..starts
  /\ term \in BOOLEAN /\ changed \in BOOLEAN /\ hidden \in Nat
TaskTypeOK ==
  /\ requests \in Nat /\ number \in 0..MaxRestarts /\ loose \in BOOLEAN /\ marker \in BOOLEAN
CallTypeOK == pc \in ControlPoints /\ reply \in Answers

\* The type invariant is the conjunction of its parts.
LEMMA TypeParts ==
  /\ TypeOK <=> RuntimeTypeOK /\ TaskTypeOK /\ LogTypeOK /\ CallTypeOK
  /\ TypeOK' <=> RuntimeTypeOK' /\ TaskTypeOK' /\ LogTypeOK' /\ CallTypeOK'
BY DEF TypeOK, RuntimeTypeOK, TaskTypeOK, LogTypeOK, CallTypeOK, JournalRecord, Answers

-------------------------------------------------------------------------------
(* Each action keeps the invariant. *)

\* A stage that only logs.
LEMMA StageLogged ==
  ASSUME IInv, NEW point, NEW stage \in StageNames, NEW next, LogStage(point, stage, next)
  PROVE  /\ pc = point /\ LogTypeOK' /\ journal'.before = journal.before
         /\ UNCHANGED <<runtimeVars, marker, taskVars>>
         /\ \/ pc' = next /\ reply' = reply /\ journal'.stage = stage
            \/ /\ pc' = "idle" /\ reply' = [state |-> "running", code |-> "none"]
               /\ journal'.stage = stage \/ journal'.stage = journal.stage
<1>1. LogTypeOK /\ TryLog(stage) /\ UNCHANGED starts
  BY TypeParts DEF IInv, LogStage, TryLog, runtimeVars
<1>2. /\ LogTypeOK' /\ journal'.before = journal.before
      /\ journal'.stage = stage \/ journal'.stage = journal.stage
      /\ Log(stage) => journal'.stage = stage
  BY <1>1, Logged
<1> QED
  BY <1>2 DEF LogStage, Goto, Return

\* A log may be empty.
LEMMA NoStages == <<>> \in Seq(StageNames)
  OBVIOUS

\* A marker that stays after its removal is known to be loose (removeExpectedRestartMarker).
LEMMA MarkerRemoved ==
  ASSUME marker \in BOOLEAN, loose \in BOOLEAN, RemoveMarker
  PROVE  /\ marker' \in BOOLEAN /\ (marker' => marker)
         /\ loose' \in BOOLEAN /\ (loose => loose') /\ (marker' => loose')
<1>1. CASE marker' = FALSE /\ UNCHANGED loose
  BY <1>1
<1>2. CASE marker /\ UNCHANGED marker /\ loose' = TRUE
  BY <1>2
<1> QED
  BY <1>1, <1>2 DEF RemoveMarker

\* Up to the request, where a step only logs.
LEMMA EarlyStageKeeps ==
  ASSUME IInv, Start \/ Validate \/ BeginSampling \/ BeginRequest PROVE IInv'
<1>1. /\ pc \in {"start", "validate", "sample", "sampled"}
      /\ LogTypeOK' /\ journal'.before = journal.before
      /\ UNCHANGED <<runtimeVars, marker, taskVars>>
      /\ \/ pc' = "validate" /\ reply' = reply /\ journal'.stage = "production_validating"
         \/ pc' = "sample" /\ reply' = reply /\ journal'.stage = "production_validating"
         \/ pc' = "sampling" /\ reply' = reply /\ journal'.stage = "runtime_sampling"
         \/ pc' = "mark" /\ reply' = reply /\ journal'.stage = "restart_requested"
         \/ /\ pc' = "idle"
            /\ \/ reply' = [state |-> "running", code |-> "none"]
               \/ reply' = [state |-> "failed", code |-> "other"]
            /\ journal'.stage \in {journal.stage, "production_validating", "runtime_sampling",
                                   "restart_requested", "failed"}
  <2>1. CASE Start
    <3>1. LogStage("start", "production_validating", "validate")
      BY <2>1 DEF Start
    <3> QED
      BY <3>1, StageLogged, StageNamesAre
  <2>2. CASE BeginSampling
    <3>1. LogStage("sample", "runtime_sampling", "sampling")
      BY <2>2 DEF BeginSampling
    <3> QED
      BY <3>1, StageLogged, StageNamesAre
  <2>3. CASE BeginRequest
    <3>1. LogStage("sampled", "restart_requested", "mark")
      BY <2>3 DEF BeginRequest
    <3> QED
      BY <3>1, StageLogged, StageNamesAre
  <2>4. CASE Validate
    <3>1. LogTypeOK /\ UNCHANGED starts
      BY <2>4, TypeParts DEF IInv, Validate, runtimeVars
    <3>2. ASSUME NEW stage \in {"production_validating", "failed"}, TryLog(stage)
          PROVE  /\ LogTypeOK' /\ journal'.before = journal.before
                 /\ journal'.stage = stage \/ journal'.stage = journal.stage
                 /\ Log(stage) => journal'.stage = stage
      BY <3>1, <3>2, Logged, StageNamesAre
    <3> QED
      BY <2>4, <3>2 DEF Validate, TryLog, Fail, Goto, Return
  <2> QED
    BY <2>1, <2>2, <2>3, <2>4
<1>2. RuntimeTypeOK' /\ TaskTypeOK'
  BY <1>1, TypeParts DEF IInv, RuntimeTypeOK, TaskTypeOK, runtimeVars, taskVars, logVars
<1>3. CallTypeOK'
  BY <1>1, TypeParts DEF IInv, CallTypeOK, ControlPoints, Answers, TerminalStages, NoReply
<1>4. CallInv' /\ MasterInv'
  BY <1>1 DEF IInv, CallInv, MasterInv, NoReply, runtimeVars, taskVars, logVars
<1>5. SentOnce' /\ SentIsLogged'
  BY <1>1 DEF IInv, SentOnce, SentIsLogged, BeforeRequest, BeforeMark, runtimeVars, taskVars, logVars
<1>6. MarkerHasOwner' /\ MarkerHasCause'
  BY <1>1 DEF IInv, MarkerHasOwner, MarkerHasCause, OwnsMarker, runtimeVars, taskVars, logVars
<1>7. MarkerCount'
  BY <1>1, TypeParts DEF IInv, MarkerCount, BeforeMark, RuntimeTypeOK, TaskTypeOK, runtimeVars, taskVars, logVars
<1> QED
  BY <1>1, <1>2, <1>3, <1>4, <1>5, <1>6, <1>7, TypeParts DEF IInv

\* The sample of the master (runtime_sampling).
LEMMA SampleKeeps ==
  ASSUME IInv, Sample PROVE IInv'
<1>1. /\ pc = "sampling" /\ LogTypeOK'
      /\ UNCHANGED <<runtimeVars, marker, taskVars>>
      /\ journal'.stage \in {"runtime_sampling", "failed"}
      /\ \/ pc' = "sampled" /\ reply' = reply
         \/ /\ pc' = "idle"
            /\ \/ reply' = [state |-> "running", code |-> "none"]
               \/ reply' = [state |-> "failed", code |-> "other"]
  <2>1. LogTypeOK /\ RuntimeTypeOK /\ UNCHANGED starts /\ journal.stage = "runtime_sampling"
    BY TypeParts DEF IInv, Sample, CallInv, runtimeVars
  <2>2. CASE Fail("other")
    BY <2>1, <2>2, Logged, StageNamesAre DEF Sample, Fail, Return
  <2>3. CASE /\ journal' = [stage |-> "runtime_sampling", before |-> master]
             /\ events' = Append(events, "runtime_sampling")
             /\ stages' = Append(stages, "runtime_sampling")
             /\ torn' = (torn \/ events # stages) /\ Goto("sampled")
    BY <2>1, <2>3, StageNamesAre DEF Sample, Goto, LogTypeOK, RuntimeTypeOK, JournalRecord
  <2>4. CASE /\ journal' \in {journal, [journal EXCEPT !.before = master]}
             /\ torn' \in {torn, TRUE} /\ UNCHANGED <<events, stages>> /\ Return("running", "none")
    <3>1. journal' \in JournalRecord' /\ journal'.stage = "runtime_sampling"
      BY <2>1, <2>4 DEF LogTypeOK, RuntimeTypeOK, JournalRecord
    <3>2. torn' \in BOOLEAN
      BY <2>1, <2>4, Zenon DEF LogTypeOK
    <3> QED
      BY <2>1, <2>4, <3>1, <3>2 DEF Sample, Return, LogTypeOK
  <2> QED
    BY <2>2, <2>3, <2>4 DEF Sample
<1>2. RuntimeTypeOK' /\ TaskTypeOK'
  BY <1>1, TypeParts DEF IInv, RuntimeTypeOK, TaskTypeOK, runtimeVars, taskVars, logVars
<1>3. CallTypeOK'
  BY <1>1, TypeParts DEF IInv, CallTypeOK, ControlPoints, Answers, TerminalStages, NoReply
<1>4. CallInv' /\ MasterInv'
  BY <1>1 DEF IInv, CallInv, MasterInv, NoReply, runtimeVars, taskVars, logVars
<1>5. SentOnce' /\ SentIsLogged'
  BY <1>1 DEF IInv, SentOnce, SentIsLogged, BeforeRequest, BeforeMark, runtimeVars, taskVars, logVars
<1>6. MarkerHasOwner' /\ MarkerHasCause'
  BY <1>1 DEF IInv, MarkerHasOwner, MarkerHasCause, OwnsMarker, runtimeVars, taskVars, logVars
<1>7. MarkerCount'
  BY <1>1, TypeParts DEF IInv, MarkerCount, BeforeMark, RuntimeTypeOK, TaskTypeOK, runtimeVars, taskVars, logVars
<1> QED
  BY <1>1, <1>2, <1>3, <1>4, <1>5, <1>6, <1>7, TypeParts DEF IInv

\* The marker is created, refused or left (createExpectedRestartMarker).
LEMMA MarkKeeps ==
  ASSUME IInv, Mark PROVE IInv'
<1>1. /\ pc = "mark" /\ LogTypeOK' /\ journal'.before = journal.before
      /\ UNCHANGED <<runtimeVars, requests, number>>
      /\ \/ /\ ~marker /\ marker' = TRUE /\ loose' = loose
            /\ pc' = "request" /\ reply' = reply /\ journal'.stage = journal.stage
         \/ /\ pc' = "idle" /\ journal'.stage \in {journal.stage, "failed"}
            /\ \/ /\ marker /\ marker' = marker /\ loose' = loose
                  /\ reply' = [state |-> "failed", code |-> "marker"]
               \/ /\ ~marker /\ marker' \in BOOLEAN /\ loose' \in BOOLEAN
                  /\ (marker' => loose') /\ (loose => loose')
                  /\ reply' = [state |-> "failed", code |-> "other"]
  <2>1. LogTypeOK /\ UNCHANGED starts
    BY TypeParts DEF IInv, Mark, runtimeVars
  <2>2. CASE ~marker /\ marker' = TRUE /\ Goto("request") /\ UNCHANGED <<logVars, loose>>
    BY <2>1, <2>2 DEF Mark, Goto, logVars, LogTypeOK, JournalRecord
  <2>3. ASSUME NEW code, Fail(code)
        PROVE  /\ LogTypeOK' /\ journal'.before = journal.before /\ pc' = "idle"
               /\ journal'.stage \in {journal.stage, "failed"}
               /\ reply' = [state |-> "failed", code |-> code]
    BY <2>1, <2>3, Logged, StageNamesAre DEF Fail, Return
  <2>4. CASE marker /\ Fail("marker") /\ UNCHANGED <<marker, loose>>
    <3>1. Fail("marker")
      BY <2>4
    <3> QED
      BY <2>3, <2>4, <3>1 DEF Mark
  <2>5. CASE ~marker /\ marker' \in BOOLEAN /\ loose' = (loose \/ marker') /\ Fail("other")
    <3>1. Fail("other")
      BY <2>5
    <3>2. loose' \in BOOLEAN /\ (marker' => loose') /\ (loose => loose')
      BY <2>5, TypeParts, Zenon DEF IInv, TaskTypeOK
    <3> QED
      BY <2>3, <2>5, <3>1, <3>2 DEF Mark
  <2> QED
    BY <2>2, <2>4, <2>5 DEF Mark
<1>2. RuntimeTypeOK' /\ TaskTypeOK'
  BY <1>1, TypeParts DEF IInv, RuntimeTypeOK, TaskTypeOK, runtimeVars, taskVars, logVars
<1>3. CallTypeOK'
  BY <1>1, TypeParts DEF IInv, CallTypeOK, ControlPoints, Answers, TerminalStages, NoReply
<1>4. CallInv' /\ MasterInv'
  BY <1>1 DEF IInv, CallInv, MasterInv, NoReply, runtimeVars, taskVars, logVars
<1>5. SentOnce' /\ SentIsLogged'
  BY <1>1 DEF IInv, SentOnce, SentIsLogged, BeforeRequest, BeforeMark, runtimeVars, taskVars, logVars
<1>6. MarkerHasOwner' /\ MarkerHasCause'
  BY <1>1 DEF IInv, MarkerHasOwner, MarkerHasCause, OwnsMarker, runtimeVars, taskVars, logVars
<1>7. MarkerCount'
  BY <1>1, TypeParts DEF IInv, MarkerCount, BeforeMark, RuntimeTypeOK, TaskTypeOK, runtimeVars, taskVars, logVars
<1> QED
  BY <1>1, <1>2, <1>3, <1>4, <1>5, <1>6, <1>7, TypeParts DEF IInv

\* The command (s6-svc).
LEMMA RequestKeeps ==
  ASSUME IInv, Request PROVE IInv'
<1>1. /\ pc = "request" /\ LogTypeOK' /\ journal' = journal /\ reply' = reply
      /\ UNCHANGED <<master, starts, changed, hidden, number>>
      /\ term' \in BOOLEAN /\ requests' \in {0, 1} /\ loose' \in BOOLEAN /\ (loose => loose')
      /\ requests' \in Nat /\ marker' \in BOOLEAN /\ (marker' => marker)
      /\ journal.stage = "restart_requested" /\ reply.state = "none"
      /\ \/ pc' = "requested"
         \/ pc' = "fail" /\ requests' = 0 /\ (marker' => loose')
         \/ pc' = "attention"
  <2>1. /\ LogTypeOK /\ requests = 0 /\ term \in BOOLEAN /\ loose \in BOOLEAN /\ marker \in BOOLEAN
        /\ journal.stage = "restart_requested" /\ reply.state = "none"
    BY TypeParts DEF IInv, Request, SentOnce, BeforeRequest, BeforeMark, RuntimeTypeOK, TaskTypeOK,
                     CallInv, NoReply
  <2>2. /\ pc = "request" /\ reply' = reply
        /\ UNCHANGED <<master, starts, changed, hidden, number>> /\ UNCHANGED logVars
    BY DEF Request, Goto, NeedsAttention
  <2>3. term' \in BOOLEAN
    BY <2>1 DEF Request
  <2>4. RemoveMarker => /\ marker' \in BOOLEAN /\ (marker' => marker)
                        /\ loose' \in BOOLEAN /\ (loose => loose') /\ (marker' => loose')
    BY <2>1, MarkerRemoved
  <2> QED
    BY <2>1, <2>2, <2>3, <2>4 DEF Request, Goto, NeedsAttention, logVars, LogTypeOK, JournalRecord
<1>2. RuntimeTypeOK' /\ TaskTypeOK'
  BY <1>1, TypeParts DEF IInv, RuntimeTypeOK, TaskTypeOK, runtimeVars, taskVars, logVars
<1>3. CallTypeOK'
  BY <1>1, TypeParts DEF IInv, CallTypeOK, ControlPoints, Answers, TerminalStages, NoReply
<1>4. CallInv' /\ MasterInv'
  BY <1>1 DEF IInv, CallInv, MasterInv, NoReply, runtimeVars, taskVars, logVars
<1>5. SentOnce' /\ SentIsLogged'
  BY <1>1 DEF IInv, SentOnce, SentIsLogged, BeforeRequest, BeforeMark, runtimeVars, taskVars, logVars
<1>6. MarkerHasOwner' /\ MarkerHasCause'
  BY <1>1 DEF IInv, MarkerHasOwner, MarkerHasCause, OwnsMarker, runtimeVars, taskVars, logVars
<1>7. MarkerCount'
  BY <1>1, TypeParts DEF IInv, MarkerCount, BeforeMark, RuntimeTypeOK, TaskTypeOK, runtimeVars, taskVars, logVars
<1> QED
  BY <1>1, <1>2, <1>3, <1>4, <1>5, <1>6, <1>7, TypeParts DEF IInv

\* The steps after the request that only log, and those of RecoverRestart.
LEMMA LateStageKeeps ==
  ASSUME IInv, LogRequest \/ BeginConfirming \/ Succeed \/ FailRequest \/ Attend PROVE IInv'
<1>1. /\ LogTypeOK' /\ journal'.before = journal.before
      /\ UNCHANGED <<runtimeVars, marker, taskVars>>
      /\ \/ /\ pc = "requested" /\ reply' = reply
            /\ \/ pc' = "confirming" \/ pc' = "attention"
            /\ journal'.stage \in {journal.stage, "restart_requested"}
         \/ /\ pc = "confirming" /\ reply' = reply
            /\ \/ pc' = "confirm" \/ pc' = "attention"
            /\ journal'.stage \in {journal.stage, "runtime_confirming"}
         \/ /\ pc = "succeed" /\ journal'.stage \in {journal.stage, "succeeded"}
            /\ \/ pc' = "idle" /\ reply' = [state |-> "succeeded", code |-> "none"]
               \/ pc' = "attention" /\ reply' = reply
         \/ /\ pc = "fail" /\ journal'.stage \in {journal.stage, "failed"}
            /\ pc' = "idle" /\ reply' = [state |-> "failed", code |-> "other"]
         \/ /\ pc = "attention" /\ journal'.stage \in {journal.stage, "needs_attention"}
            /\ pc' = "idle" /\ reply' = [state |-> "needs_attention", code |-> "other"]
  <2>1. LogTypeOK /\ UNCHANGED starts
    BY TypeParts DEF IInv, LogRequest, BeginConfirming, LogAfterRequest, Succeed, FailRequest, Attend,
                     runtimeVars
  <2>2. ASSUME NEW stage \in StageNames, TryLog(stage)
        PROVE  /\ LogTypeOK' /\ journal'.before = journal.before
               /\ journal'.stage = stage \/ journal'.stage = journal.stage
    BY <2>1, <2>2, Logged
  <2>3. CASE LogRequest
    <3>1. TryLog("restart_requested")
      BY <2>3 DEF LogRequest, LogAfterRequest, TryLog
    <3> QED
      BY <2>2, <2>3, <3>1, StageNamesAre DEF LogRequest, LogAfterRequest, Goto, NeedsAttention
  <2>4. CASE BeginConfirming
    <3>1. TryLog("runtime_confirming")
      BY <2>4 DEF BeginConfirming, LogAfterRequest, TryLog
    <3> QED
      BY <2>2, <2>4, <3>1, StageNamesAre DEF BeginConfirming, LogAfterRequest, Goto, NeedsAttention
  <2>5. CASE Succeed
    <3>1. TryLog("succeeded")
      BY <2>5 DEF Succeed, TryLog
    <3> QED
      BY <2>2, <2>5, <3>1, StageNamesAre DEF Succeed, Goto, Return, NeedsAttention
  <2>6. CASE FailRequest
    <3>1. TryLog("failed")
      BY <2>6 DEF FailRequest, Fail
    <3> QED
      BY <2>2, <2>6, <3>1, StageNamesAre DEF FailRequest, Fail, Return
  <2>7. CASE Attend
    <3>1. TryLog("needs_attention")
      BY <2>7 DEF Attend
    <3> QED
      BY <2>2, <2>7, <3>1, StageNamesAre DEF Attend, Return
  <2> QED
    BY <2>3, <2>4, <2>5, <2>6, <2>7
<1>2. RuntimeTypeOK' /\ TaskTypeOK'
  BY <1>1, TypeParts DEF IInv, RuntimeTypeOK, TaskTypeOK, runtimeVars, taskVars, logVars
<1>3. CallTypeOK'
  BY <1>1, TypeParts DEF IInv, CallTypeOK, ControlPoints, Answers, TerminalStages, NoReply
<1>4. CallInv' /\ MasterInv'
  BY <1>1 DEF IInv, CallInv, MasterInv, NoReply, runtimeVars, taskVars, logVars
<1>5. SentOnce' /\ SentIsLogged'
  BY <1>1 DEF IInv, SentOnce, SentIsLogged, BeforeRequest, BeforeMark, runtimeVars, taskVars, logVars
<1>6. MarkerHasOwner' /\ MarkerHasCause'
  BY <1>1 DEF IInv, MarkerHasOwner, MarkerHasCause, OwnsMarker, runtimeVars, taskVars, logVars
<1>7. MarkerCount'
  BY <1>1, TypeParts DEF IInv, MarkerCount, BeforeMark, RuntimeTypeOK, TaskTypeOK, runtimeVars, taskVars, logVars
<1> QED
  BY <1>1, <1>2, <1>3, <1>4, <1>5, <1>6, <1>7, TypeParts DEF IInv

\* The confirmation and the removal of the marker (confirmRestartRuntime).
LEMMA ConfirmKeeps ==
  ASSUME IInv, Confirm \/ Unmark PROVE IInv'
<1>1. /\ pc \in {"confirm", "unmark"} /\ LogTypeOK' /\ journal' = journal /\ reply' = reply
      /\ UNCHANGED <<runtimeVars, requests, number>>
      /\ marker' \in BOOLEAN /\ (marker' => marker) /\ loose' \in BOOLEAN /\ (loose => loose')
      /\ \/ pc = "confirm" /\ pc' = "unmark" /\ journal.before < starts
         \/ pc = "unmark" /\ pc' = "succeed" /\ ~marker'
         \/ pc' = "attention"
  <2>1. /\ LogTypeOK /\ loose \in BOOLEAN /\ marker \in BOOLEAN
    BY TypeParts DEF IInv, TaskTypeOK
  <2>2. UNCHANGED <<runtimeVars, requests, number>> /\ UNCHANGED logVars /\ reply' = reply
    BY DEF Confirm, Unmark, Goto, NeedsAttention
  <2>3. LogTypeOK' /\ journal' = journal
    BY <2>1, <2>2 DEF logVars, LogTypeOK, runtimeVars, JournalRecord
  <2>4. RemoveMarker => /\ marker' \in BOOLEAN /\ (marker' => marker)
                        /\ loose' \in BOOLEAN /\ (loose => loose')
    BY <2>1, MarkerRemoved
  <2>5. Confirmed => journal.before < starts
    BY <2>1, TypeParts DEF IInv, Confirmed, MasterInv, RuntimeTypeOK, LogTypeOK, JournalRecord
  <2>6. CASE Confirm
    BY <2>1, <2>2, <2>3, <2>4, <2>5, <2>6 DEF Confirm, Goto, NeedsAttention
  <2>7. CASE Unmark
    BY <2>1, <2>2, <2>3, <2>4, <2>7 DEF Unmark, Goto, NeedsAttention
  <2> QED
    BY <2>6, <2>7
<1>2. RuntimeTypeOK' /\ TaskTypeOK'
  BY <1>1, TypeParts DEF IInv, RuntimeTypeOK, TaskTypeOK, runtimeVars, taskVars, logVars
<1>3. CallTypeOK'
  BY <1>1, TypeParts DEF IInv, CallTypeOK, ControlPoints, Answers, TerminalStages, NoReply
<1>4. CallInv' /\ MasterInv'
  BY <1>1 DEF IInv, CallInv, MasterInv, NoReply, runtimeVars, taskVars, logVars
<1>5. SentOnce' /\ SentIsLogged'
  BY <1>1 DEF IInv, SentOnce, SentIsLogged, BeforeRequest, BeforeMark, runtimeVars, taskVars, logVars
<1>6. MarkerHasOwner' /\ MarkerHasCause'
  BY <1>1 DEF IInv, MarkerHasOwner, MarkerHasCause, OwnsMarker, runtimeVars, taskVars, logVars
<1>7. MarkerCount'
  BY <1>1, TypeParts DEF IInv, MarkerCount, BeforeMark, RuntimeTypeOK, TaskTypeOK, runtimeVars, taskVars, logVars
<1> QED
  BY <1>1, <1>2, <1>3, <1>4, <1>5, <1>6, <1>7, TypeParts DEF IInv

\* A restart is asked for, or its recovery.
LEMMA AskKeeps ==
  ASSUME IInv, Execute \/ Recover PROVE IInv'
<1>1. /\ pc = "idle" /\ LogTypeOK' /\ reply' = [state |-> "none", code |-> "none"]
      /\ UNCHANGED <<runtimeVars, marker>> /\ loose' \in BOOLEAN /\ (loose => loose')
      /\ \/ /\ pc' = "start" /\ number' = number + 1 /\ number' \in 0 .. MaxRestarts /\ requests' = 0
            /\ journal' = [stage |-> "none", before |-> 0] /\ (marker => loose')
         \/ /\ pc' = "read" /\ UNCHANGED <<number, requests, loose, journal>> /\ (marker => loose)
  <2>1. LogTypeOK /\ loose \in BOOLEAN /\ number \in 0 .. MaxRestarts /\ starts \in Nat
    BY TypeParts DEF IInv, TaskTypeOK, RuntimeTypeOK
  <2>2. pc = "idle" /\ (marker /\ ~loose => reply.state = "needs_attention")
    BY DEF IInv, MarkerHasOwner, OwnsMarker, Execute, Recover
  <2>3. CASE Execute
    <3>1. loose' \in BOOLEAN /\ (loose => loose') /\ (marker => loose')
      BY <2>1, <2>2, <2>3, Zenon DEF Execute
    <3>2. LogTypeOK'
      <4>1. 0 \in 0 .. starts' /\ journal' = [stage |-> "none", before |-> 0]
        BY <2>1, <2>3 DEF Execute, runtimeVars
      <4>2. journal' \in JournalRecord'
        BY <4>1 DEF JournalRecord
      <4> QED
        BY <2>3, <4>2, NoStages DEF Execute, LogTypeOK
    <3>3. number + 1 \in 0 .. MaxRestarts
      BY <2>1, <2>3 DEF Execute
    <3> QED
      BY <2>2, <2>3, <3>1, <3>2, <3>3 DEF Execute, NoReply
  <2>4. CASE Recover
    <3>1. LogTypeOK'
      BY <2>1, <2>4 DEF Recover, LogTypeOK, JournalRecord, runtimeVars
    <3>2. marker => loose
      BY <2>2, <2>4 DEF Recover, TerminalStages
    <3> QED
      BY <2>1, <2>2, <2>4, <3>1, <3>2 DEF Recover, NoReply, taskVars
  <2> QED
    BY <2>3, <2>4
<1>2. RuntimeTypeOK' /\ TaskTypeOK'
  BY <1>1, TypeParts DEF IInv, RuntimeTypeOK, TaskTypeOK, runtimeVars, taskVars, logVars
<1>3. CallTypeOK'
  BY <1>1, TypeParts DEF IInv, CallTypeOK, ControlPoints, Answers, TerminalStages, NoReply
<1>4. CallInv' /\ MasterInv'
  BY <1>1 DEF IInv, CallInv, MasterInv, NoReply, runtimeVars, taskVars, logVars
<1>5. SentOnce' /\ SentIsLogged'
  BY <1>1 DEF IInv, SentOnce, SentIsLogged, BeforeRequest, BeforeMark, runtimeVars, taskVars, logVars
<1>6. MarkerHasOwner' /\ MarkerHasCause'
  BY <1>1 DEF IInv, MarkerHasOwner, MarkerHasCause, OwnsMarker, runtimeVars, taskVars, logVars
<1>7. MarkerCount'
  BY <1>1, TypeParts DEF IInv, MarkerCount, BeforeMark, RuntimeTypeOK, TaskTypeOK, runtimeVars, taskVars, logVars
<1> QED
  BY <1>1, <1>2, <1>3, <1>4, <1>5, <1>6, <1>7, TypeParts DEF IInv

\* The evidence is read, and a restart without a verdict gets one (RecoverRestart).
LEMMA RecoverKeeps ==
  ASSUME IInv, ReadEvidence \/ Resume PROVE IInv'
<1>1. /\ pc \in {"read", "recover"} /\ LogTypeOK' /\ journal'.before = journal.before
      /\ UNCHANGED <<runtimeVars, marker, taskVars>>
      /\ \/ /\ pc' = "idle" /\ journal'.stage = journal.stage
            /\ \/ reply' = [state |-> "needs_attention", code |-> "other"]
               \/ /\ journal.stage \in TerminalStages
                  /\ reply' = [state |-> journal.stage, code |-> "other"]
         \/ pc' = "recover" /\ reply' = reply /\ journal'.stage = journal.stage
         \/ pc' = "attention" /\ reply' = reply /\ journal'.stage = journal.stage
         \/ /\ pc' = "idle" /\ requests = 0
            /\ journal'.stage \in {journal.stage, "failed"}
            /\ \/ reply' = [state |-> "failed", code |-> "other"]
               \/ reply' = [state |-> "needs_attention", code |-> "other"]
         \/ /\ pc' = "idle" /\ journal.before < starts
            /\ journal'.stage \in {journal.stage, "succeeded"}
            /\ \/ reply' = [state |-> "succeeded", code |-> "none"]
               \/ reply' = [state |-> "needs_attention", code |-> "other"]
  <2>1. LogTypeOK /\ UNCHANGED <<runtimeVars, marker, taskVars>> /\ UNCHANGED starts
    BY TypeParts DEF IInv, ReadEvidence, Resume, runtimeVars
  <2>2. CASE ReadEvidence
    <3>1. stages' \in Seq(StageNames) /\ UNCHANGED <<journal, events, torn>>
      BY <2>1, <2>2 DEF ReadEvidence, LogTypeOK
    <3>2. LogTypeOK'
      BY <2>1, <3>1 DEF LogTypeOK, JournalRecord
    <3> QED
      BY <2>1, <2>2, <3>1, <3>2 DEF ReadEvidence, Goto, Return
  <2>3. CASE Resume
    <3>1. ASSUME NEW stage \in StageNames, TryLog(stage)
          PROVE  /\ LogTypeOK' /\ journal'.before = journal.before
                 /\ journal'.stage = stage \/ journal'.stage = journal.stage
      BY <2>1, <3>1, Logged
    <3>2. CASE StageOrder(journal.stage) < StageOrder("restart_requested")
      <4>1. requests = 0
        BY <3>2, OrderFacts DEF IInv, SentOnce, SentIsLogged
      <4>2. TryLog("failed")
        BY <2>3, <3>2 DEF Resume, TryLog
      <4>3. \/ Return("failed", "other") \/ Return("needs_attention", "other")
        BY <2>3, <3>2 DEF Resume
      <4> QED
        BY <2>1, <2>3, <3>1, <4>1, <4>2, <4>3, StageNamesAre DEF Resume, Return
    <3>3. CASE Confirmed /\ TryLog("succeeded")
               /\ (Return("succeeded", "none") \/ Return("needs_attention", "other"))
      <4>1. journal.before < starts
        BY <2>1, <3>3, TypeParts DEF IInv, Confirmed, MasterInv, RuntimeTypeOK, LogTypeOK, JournalRecord
      <4>2. TryLog("succeeded")
        BY <3>3
      <4> QED
        BY <2>1, <2>3, <3>1, <3>3, <4>1, <4>2, StageNamesAre DEF Resume, Return
    <3>4. CASE NeedsAttention /\ UNCHANGED logVars
      BY <2>1, <2>3, <3>4 DEF Resume, NeedsAttention, Goto, logVars, LogTypeOK, JournalRecord
    <3> QED
      BY <2>3, <3>2, <3>3, <3>4 DEF Resume, TryLog
  <2> QED
    BY <2>2, <2>3
<1>2. RuntimeTypeOK' /\ TaskTypeOK'
  BY <1>1, TypeParts DEF IInv, RuntimeTypeOK, TaskTypeOK, runtimeVars, taskVars, logVars
<1>3. CallTypeOK'
  BY <1>1, TypeParts DEF IInv, CallTypeOK, ControlPoints, Answers, TerminalStages, NoReply
<1>4. CallInv' /\ MasterInv'
  BY <1>1 DEF IInv, CallInv, MasterInv, NoReply, runtimeVars, taskVars, logVars
<1>5. SentOnce' /\ SentIsLogged'
  BY <1>1 DEF IInv, SentOnce, SentIsLogged, BeforeRequest, BeforeMark, runtimeVars, taskVars, logVars
<1>6. MarkerHasOwner' /\ MarkerHasCause'
  BY <1>1 DEF IInv, MarkerHasOwner, MarkerHasCause, OwnsMarker, runtimeVars, taskVars, logVars
<1>7. MarkerCount'
  BY <1>1, TypeParts DEF IInv, MarkerCount, BeforeMark, RuntimeTypeOK, TaskTypeOK, runtimeVars, taskVars, logVars
<1> QED
  BY <1>1, <1>2, <1>3, <1>4, <1>5, <1>6, <1>7, TypeParts DEF IInv

\* The Agent dies and starts again.
LEMMA AgentKeeps ==
  ASSUME IInv, Crash \/ AgentStart PROVE IInv'
<1>1. /\ LogTypeOK' /\ journal' = journal /\ UNCHANGED <<runtimeVars, marker, requests, number>>
      /\ loose' \in BOOLEAN /\ (loose => loose')
      /\ \/ pc' = "down" /\ pc = "idle" /\ reply' = reply
         \/ /\ pc' = "down" /\ pc # "idle" /\ loose' = TRUE
            /\ reply' = [state |-> "none", code |-> "none"]
         \/ pc' = "idle" /\ pc = "down" /\ reply' = reply
  <2>1. LogTypeOK /\ loose \in BOOLEAN
    BY TypeParts DEF IInv, TaskTypeOK
  <2>2. CASE Crash
    <3>1. LogTypeOK'
      BY <2>1, <2>2 DEF Crash, LogTypeOK, JournalRecord, runtimeVars
    <3>2. loose' \in BOOLEAN /\ (loose => loose') /\ (pc # "idle" => loose' = TRUE)
      BY <2>1, <2>2, Zenon DEF Crash
    <3> QED
      BY <2>2, <3>1, <3>2 DEF Crash, NoReply
  <2>3. CASE AgentStart
    BY <2>1, <2>3 DEF AgentStart, Goto, LogTypeOK, JournalRecord, runtimeVars, taskVars, logVars
  <2> QED
    BY <2>2, <2>3
<1>2. RuntimeTypeOK' /\ TaskTypeOK'
  BY <1>1, TypeParts DEF IInv, RuntimeTypeOK, TaskTypeOK, runtimeVars, taskVars, logVars
<1>3. CallTypeOK'
  BY <1>1, TypeParts DEF IInv, CallTypeOK, ControlPoints, Answers, TerminalStages, NoReply
<1>4. CallInv' /\ MasterInv'
  BY <1>1 DEF IInv, CallInv, MasterInv, NoReply, runtimeVars, taskVars, logVars
<1>5. SentOnce' /\ SentIsLogged'
  BY <1>1 DEF IInv, SentOnce, SentIsLogged, BeforeRequest, BeforeMark, runtimeVars, taskVars, logVars
<1>6. MarkerHasOwner' /\ MarkerHasCause'
  BY <1>1 DEF IInv, MarkerHasOwner, MarkerHasCause, OwnsMarker, runtimeVars, taskVars, logVars
<1>7. MarkerCount'
  BY <1>1, TypeParts DEF IInv, MarkerCount, BeforeMark, RuntimeTypeOK, TaskTypeOK, runtimeVars, taskVars, logVars
<1> QED
  BY <1>1, <1>2, <1>3, <1>4, <1>5, <1>6, <1>7, TypeParts DEF IInv

\* What nginx and others do by themselves.
LEMMA EnvironmentKeeps ==
  ASSUME IInv, NginxExit \/ NginxStart \/ Edit PROVE IInv'
<1>1. /\ LogTypeOK' /\ journal' = journal /\ UNCHANGED <<requests, number, loose, pc, reply>>
      /\ RuntimeTypeOK' /\ starts \in Nat /\ journal.before \in Nat
      /\ \/ /\ master' = 0 /\ starts' = starts /\ marker' = FALSE
            /\ \/ hidden' = hidden
               \/ marker /\ hidden' = hidden + 1
         \/ /\ master' = starts' /\ starts' = starts + 1 /\ starts' \in 1 .. MaxStarts
            /\ marker' = marker /\ hidden' = hidden
         \/ master' = master /\ starts' = starts /\ marker' = marker /\ hidden' = hidden
  <2>1. /\ LogTypeOK /\ RuntimeTypeOK /\ starts \in Nat /\ starts \in 1 .. MaxStarts
        /\ journal.before \in Nat
    BY TypeParts DEF IInv, RuntimeTypeOK, LogTypeOK, JournalRecord
  <2>2. CASE NginxExit
    <3>1. hidden' = hidden \/ (marker /\ hidden' = hidden + 1)
      BY <2>2 DEF NginxExit
    <3>2. RuntimeTypeOK'
      <4>1. hidden' \in Nat /\ 0 \in 0 .. starts
        BY <2>1, <3>1 DEF RuntimeTypeOK
      <4> QED
        BY <2>1, <2>2, <4>1 DEF NginxExit, RuntimeTypeOK
    <3>3. LogTypeOK'
      BY <2>1, <2>2 DEF NginxExit, LogTypeOK, JournalRecord, logVars
    <3> QED
      BY <2>1, <2>2, <3>1, <3>2, <3>3 DEF NginxExit, taskVars, logVars
  <2>3. CASE NginxStart
    <3>1. starts' = starts + 1 /\ master' = starts + 1 /\ starts' \in 1 .. MaxStarts
      BY <2>1, <2>3 DEF NginxStart
    <3>2. journal' = journal /\ journal \in JournalRecord'
      BY <2>1, <2>3, <3>1 DEF NginxStart, LogTypeOK, JournalRecord, logVars
    <3> QED
      BY <2>1, <2>3, <3>1, <3>2 DEF NginxStart, LogTypeOK, RuntimeTypeOK, taskVars, logVars
  <2>4. CASE Edit
    BY <2>1, <2>4 DEF Edit, LogTypeOK, JournalRecord, RuntimeTypeOK, taskVars, logVars
  <2> QED
    BY <2>2, <2>3, <2>4
<1>2. RuntimeTypeOK' /\ TaskTypeOK'
  BY <1>1, TypeParts DEF IInv, RuntimeTypeOK, TaskTypeOK, runtimeVars, taskVars, logVars
<1>3. CallTypeOK'
  BY <1>1, TypeParts DEF IInv, CallTypeOK, ControlPoints, Answers, TerminalStages, NoReply
<1>4. CallInv' /\ MasterInv'
  BY <1>1 DEF IInv, CallInv, MasterInv, NoReply, runtimeVars, taskVars, logVars
<1>5. SentOnce' /\ SentIsLogged'
  BY <1>1 DEF IInv, SentOnce, SentIsLogged, BeforeRequest, BeforeMark, runtimeVars, taskVars, logVars
<1>6. MarkerHasOwner' /\ MarkerHasCause'
  BY <1>1 DEF IInv, MarkerHasOwner, MarkerHasCause, OwnsMarker, runtimeVars, taskVars, logVars
<1>7. MarkerCount'
  BY <1>1, TypeParts DEF IInv, MarkerCount, BeforeMark, RuntimeTypeOK, TaskTypeOK, runtimeVars, taskVars, logVars
<1> QED
  BY <1>1, <1>2, <1>3, <1>4, <1>5, <1>6, <1>7, TypeParts DEF IInv

-------------------------------------------------------------------------------
(* The log is one that the UI reckons with.  Whether a stage may follow is *)
(* decided by what the call knows of the log, so the invariant says which  *)
(* stage that is at each control point.                                    *)

\* The last stage the call knows of.
LastOf(log) == IF log = <<>> THEN "none" ELSE log[Len(log)]
Memory == LastOf(stages)

MemoryInv ==
  /\ pc = "start" => Memory = "none"
  /\ pc \in {"validate", "sample"} => Memory = "production_validating"
  /\ pc \in {"sampling", "sampled"} => Memory = "runtime_sampling"
  /\ pc \in {"mark", "request", "requested", "confirming", "fail"} => Memory = "restart_requested"
  /\ pc \in {"confirm", "unmark", "succeed"} => Memory = "runtime_confirming"
  /\ pc = "attention" => Memory \in {"restart_requested", "runtime_confirming"}
  /\ pc = "recover" => Memory = journal.stage /\ Memory \in StageNames \ TerminalStages

KnownInv == MemoryInv /\ LogIsKnown

\* The stages that may follow in the log.
MayFollow(last, stage) == Succeeds("restart", Coarse(last), Coarse(stage))

\* A log in which each stage may follow the one before.
Follows(log) == \A i \in 1..Len(log) : MayFollow(IF i = 1 THEN "none" ELSE log[i - 1], log[i])

\* Which stages these are.
LEMMA Followers ==
  /\ MayFollow("none", "production_validating")
  /\ \A last \in {"production_validating", "runtime_sampling"} :
       /\ MayFollow(last, "production_validating") /\ MayFollow(last, "runtime_sampling")
       /\ MayFollow(last, "restart_requested") /\ MayFollow(last, "failed")
  /\ \A last \in {"restart_requested", "runtime_confirming"} :
       /\ MayFollow(last, "restart_requested") /\ MayFollow(last, "runtime_confirming")
       /\ MayFollow(last, "succeeded") /\ MayFollow(last, "failed") /\ MayFollow(last, "needs_attention")
<1>1. /\ Coarse("none") = "queued" /\ Coarse("production_validating") = "first"
      /\ Coarse("runtime_sampling") = "first" /\ Coarse("restart_requested") = "write"
      /\ Coarse("runtime_confirming") = "write" /\ Coarse("succeeded") = "succeeded"
      /\ Coarse("failed") = "failed" /\ Coarse("needs_attention") = "needs_attention"
  BY DEF Coarse
<1>2. /\ Succeeds("restart", "queued", "first") /\ Succeeds("restart", "first", "first")
      /\ Succeeds("restart", "first", "write") /\ Succeeds("restart", "first", "failed")
      /\ Succeeds("restart", "write", "write") /\ Succeeds("restart", "write", "succeeded")
      /\ Succeeds("restart", "write", "failed") /\ Succeeds("restart", "write", "needs_attention")
  BY DEF Succeeds, Following, CallNames, Verdicts
<1> QED
  BY <1>1, <1>2 DEF MayFollow

\* A log is continued by a stage that may follow its last.
LEMMA AppendFollows ==
  ASSUME NEW log \in Seq(StageNames), NEW stage \in StageNames, MayFollow(LastOf(log), stage),
         Follows(log), NEW new, new = Append(log, stage)
  PROVE  Follows(new) /\ LastOf(new) = stage
<1>1. /\ Len(new) = Len(log) + 1 /\ Len(log) \in Nat /\ new[Len(log) + 1] = stage /\ new # <<>>
      /\ \A j \in 1..Len(log) : new[j] = log[j]
  OBVIOUS
<1>2. ASSUME NEW i \in 1..Len(new) PROVE MayFollow(IF i = 1 THEN "none" ELSE new[i - 1], new[i])
  <2>1. CASE i <= Len(log)
    <3>1. i \in 1..Len(log) /\ new[i] = log[i] /\ (i # 1 => new[i - 1] = log[i - 1])
      BY <1>1, <2>1
    <3> QED
      BY <3>1 DEF Follows
  <2>2. CASE i = Len(log) + 1 /\ log = <<>>
    BY <1>1, <2>2 DEF LastOf
  <2>3. CASE i = Len(log) + 1 /\ log # <<>>
    <3>1. Len(log) # 0
      BY <2>3
    <3>2. i # 1 /\ new[i] = stage /\ new[i - 1] = LastOf(log)
      BY <1>1, <2>3, <3>1 DEF LastOf
    <3> QED
      BY <3>2
  <2> QED
    BY <1>1, <2>1, <2>2, <2>3
<1> QED
  BY <1>1, <1>2 DEF Follows, LastOf

\* LogIsKnown in these words.
LEMMA KnownIs == (LogIsKnown <=> (~torn => Follows(events))) /\ (LogIsKnown' <=> (~torn' => Follows(events')))
  BY DEF LogIsKnown, Follows, MayFollow

\* The event is appended, or the log does not parse (appendStage).
Appended(stage) == events' = Append(events, stage) /\ torn' = (torn \/ events # stages)

\* What is appended after the last stage the call knows of is known.
LEMMA AppendedIsKnown ==
  ASSUME LogTypeOK, LogIsKnown, NEW stage \in StageNames, MayFollow(Memory, stage), Appended(stage)
  PROVE  LogIsKnown'
<1> SUFFICES ASSUME ~torn' PROVE Follows(events')
  BY KnownIs
<1>1. ~torn /\ events = stages /\ events' = Append(events, stage)
  BY DEF Appended
<1>2. Follows(events) /\ MayFollow(LastOf(events), stage) /\ events \in Seq(StageNames)
  BY <1>1, KnownIs DEF Memory, LogTypeOK
<1> QED
  BY <1>1, <1>2, AppendFollows

\* A stage that was logged, or not.
LEMMA LoggedIsKnown ==
  ASSUME LogTypeOK, LogIsKnown, NEW stage \in StageNames, MayFollow(Memory, stage)
  PROVE  /\ Log(stage) => LogIsKnown' /\ Memory' = stage
         /\ LogError(stage) => LogIsKnown' /\ Memory' = Memory
         /\ TryLog(stage) => LogIsKnown'
<1>1. ASSUME Log(stage) PROVE LogIsKnown' /\ Memory' = stage
  <2>1. stages' = Append(stages, stage) /\ stages \in Seq(StageNames)
    BY <1>1 DEF Log, LogTypeOK
  <2>2. stages' # <<>> /\ stages'[Len(stages')] = stage
    BY <2>1
  <2>3. LogIsKnown'
    BY <1>1, AppendedIsKnown DEF Log, Appended
  <2> QED
    BY <2>2, <2>3 DEF Memory, LastOf
<1>2. ASSUME LogError(stage) PROVE LogIsKnown' /\ Memory' = Memory
  <2>1. stages' = stages
    BY <1>2 DEF LogError
  <2>2. \/ events' = events /\ torn' = torn
        \/ torn' = TRUE
        \/ Appended(stage)
    BY <1>2, Zenon DEF LogError, Appended
  <2>3. LogIsKnown'
    BY <2>2, AppendedIsKnown, KnownIs
  <2> QED
    BY <2>1, <2>3 DEF Memory, LastOf
<1> QED
  BY <1>1, <1>2 DEF TryLog

\* The steps of ExecuteRestart that log.
LEMMA RestartLogsKnown ==
  ASSUME IInv, KnownInv,
         Start \/ Validate \/ BeginSampling \/ Sample \/ BeginRequest \/ Mark
         \/ LogRequest \/ BeginConfirming \/ Succeed \/ FailRequest \/ Attend
  PROVE  KnownInv'
<1>1. LogTypeOK /\ LogIsKnown
  BY TypeParts DEF IInv, KnownInv
<1>2. ASSUME NEW stage \in StageNames, MayFollow(Memory, stage)
      PROVE  /\ Log(stage) => LogIsKnown' /\ Memory' = stage
             /\ LogError(stage) => LogIsKnown' /\ Memory' = Memory
             /\ TryLog(stage) => LogIsKnown'
  BY <1>1, <1>2, LoggedIsKnown
<1>3. ASSUME NEW stage \in StageNames, MayFollow(Memory, stage), NEW point, NEW next,
             LogStage(point, stage, next)
      PROVE  LogIsKnown' /\ ((pc' = next /\ Memory' = stage) \/ pc' = "idle")
  BY <1>2, <1>3 DEF LogStage, Goto, Return
<1>4. ASSUME NEW stage \in StageNames, MayFollow(Memory, stage), NEW point, NEW next,
             LogAfterRequest(point, stage, next)
      PROVE  LogIsKnown' /\ ((pc' = next /\ Memory' = stage) \/ (pc' = "attention" /\ Memory' = Memory))
  BY <1>2, <1>4 DEF LogAfterRequest, Goto, NeedsAttention
<1>5. CASE Start
  <2>1. Memory = "none" /\ LogStage("start", "production_validating", "validate")
    BY <1>5 DEF Start, LogStage, KnownInv, MemoryInv
  <2>2. LogIsKnown' /\ ((pc' = "validate" /\ Memory' = "production_validating") \/ pc' = "idle")
    BY <1>3, <2>1, Followers, StageNamesAre
  <2> QED
    BY <2>2 DEF KnownInv, MemoryInv
<1>6. CASE BeginSampling
  <2>1. Memory = "production_validating" /\ LogStage("sample", "runtime_sampling", "sampling")
    BY <1>6 DEF BeginSampling, LogStage, KnownInv, MemoryInv
  <2>2. LogIsKnown' /\ ((pc' = "sampling" /\ Memory' = "runtime_sampling") \/ pc' = "idle")
    BY <1>3, <2>1, Followers, StageNamesAre
  <2> QED
    BY <2>2 DEF KnownInv, MemoryInv
<1>7. CASE BeginRequest
  <2>1. Memory = "runtime_sampling" /\ LogStage("sampled", "restart_requested", "mark")
    BY <1>7 DEF BeginRequest, LogStage, KnownInv, MemoryInv
  <2>2. LogIsKnown' /\ ((pc' = "mark" /\ Memory' = "restart_requested") \/ pc' = "idle")
    BY <1>3, <2>1, Followers, StageNamesAre
  <2> QED
    BY <2>2 DEF KnownInv, MemoryInv
<1>8. CASE LogRequest
  <2>1. Memory = "restart_requested" /\ LogAfterRequest("requested", "restart_requested", "confirming")
    BY <1>8 DEF LogRequest, LogAfterRequest, KnownInv, MemoryInv
  <2>2. LogIsKnown' /\ ((pc' = "confirming" /\ Memory' = "restart_requested")
                        \/ (pc' = "attention" /\ Memory' = Memory))
    BY <1>4, <2>1, Followers, StageNamesAre
  <2> QED
    BY <2>1, <2>2 DEF KnownInv, MemoryInv
<1>9. CASE BeginConfirming
  <2>1. Memory = "restart_requested" /\ LogAfterRequest("confirming", "runtime_confirming", "confirm")
    BY <1>9 DEF BeginConfirming, LogAfterRequest, KnownInv, MemoryInv
  <2>2. LogIsKnown' /\ ((pc' = "confirm" /\ Memory' = "runtime_confirming")
                        \/ (pc' = "attention" /\ Memory' = Memory))
    BY <1>4, <2>1, Followers, StageNamesAre
  <2> QED
    BY <2>1, <2>2 DEF KnownInv, MemoryInv
<1>10. ASSUME NEW code, Fail(code), MayFollow(Memory, "failed") PROVE LogIsKnown' /\ pc' = "idle"
  BY <1>2, <1>10, StageNamesAre DEF Fail, Return
<1>11. CASE Validate
  <2>1. Memory = "production_validating"
    BY <1>11 DEF Validate, KnownInv, MemoryInv
  <2>2. LogIsKnown' /\ ((pc' = "sample" /\ Memory' = "production_validating") \/ pc' = "idle")
    BY <1>2, <1>10, <1>11, <2>1, Followers, StageNamesAre DEF Validate, Goto, Return
  <2> QED
    BY <2>2 DEF KnownInv, MemoryInv
<1>12. CASE Sample
  <2>1. Memory = "runtime_sampling"
    BY <1>12 DEF Sample, KnownInv, MemoryInv
  <2>2. CASE Fail("other")
    <3>1. LogIsKnown' /\ pc' = "idle"
      BY <1>10, <2>1, <2>2, Followers
    <3> QED
      BY <3>1 DEF KnownInv, MemoryInv
  <2>3. CASE /\ Appended("runtime_sampling") /\ stages' = Append(stages, "runtime_sampling")
             /\ Goto("sampled")
    <3>1. LogIsKnown'
      BY <1>1, <2>1, <2>3, AppendedIsKnown, Followers, StageNamesAre
    <3>2. stages' # <<>> /\ stages'[Len(stages')] = "runtime_sampling"
      BY <1>1, <2>3, StageNamesAre DEF LogTypeOK
    <3> QED
      BY <2>3, <3>1, <3>2 DEF KnownInv, MemoryInv, Memory, LastOf, Goto
  <2>4. CASE torn' \in {torn, TRUE} /\ UNCHANGED <<events, stages>> /\ Return("running", "none")
    <3>1. LogIsKnown'
      BY <1>1, <2>4, KnownIs
    <3> QED
      BY <2>4, <3>1 DEF KnownInv, MemoryInv, Return
  <2> QED
    BY <1>12, <2>2, <2>3, <2>4 DEF Sample, Appended
<1>13. CASE Mark
  <2>1. Memory = "restart_requested" /\ LogIsKnown
    BY <1>13 DEF Mark, KnownInv, MemoryInv
  <2>2. CASE Goto("request") /\ UNCHANGED logVars
    <3>1. LogIsKnown' /\ Memory' = "restart_requested"
      BY <2>1, <2>2, KnownIs DEF logVars, Memory, LastOf
    <3> QED
      BY <2>2, <3>1 DEF KnownInv, MemoryInv, Goto
  <2>3. ASSUME NEW code, Fail(code) PROVE KnownInv'
    <3>1. LogIsKnown' /\ pc' = "idle"
      BY <1>10, <2>1, <2>3, Followers
    <3> QED
      BY <3>1 DEF KnownInv, MemoryInv
  <2>4. (Goto("request") /\ UNCHANGED logVars) \/ Fail("marker") \/ Fail("other")
    BY <1>13 DEF Mark
  <2> QED
    BY <2>2, <2>3, <2>4
<1>14. CASE Succeed
  <2>1. Memory = "runtime_confirming"
    BY <1>14 DEF Succeed, KnownInv, MemoryInv
  <2>2. LogIsKnown' /\ (pc' = "idle" \/ (pc' = "attention" /\ Memory' = Memory))
    BY <1>2, <1>14, <2>1, Followers, StageNamesAre DEF Succeed, Return, NeedsAttention, Goto
  <2> QED
    BY <2>1, <2>2 DEF KnownInv, MemoryInv
<1>15. CASE FailRequest
  <2>1. Memory = "restart_requested" /\ Fail("other")
    BY <1>15 DEF FailRequest, KnownInv, MemoryInv
  <2>2. LogIsKnown' /\ pc' = "idle"
    BY <1>10, <2>1, Followers
  <2> QED
    BY <2>2 DEF KnownInv, MemoryInv
<1>16. CASE Attend
  <2>1. Memory \in {"restart_requested", "runtime_confirming"} /\ TryLog("needs_attention") /\ pc' = "idle"
    BY <1>16 DEF Attend, KnownInv, MemoryInv, Return
  <2>2. LogIsKnown'
    BY <1>2, <2>1, Followers, StageNamesAre
  <2> QED
    BY <2>1, <2>2 DEF KnownInv, MemoryInv
<1> QED
  BY <1>5, <1>6, <1>7, <1>8, <1>9, <1>11, <1>12, <1>13, <1>14, <1>15, <1>16

\* RecoverRestart goes on where the log it read ends.
LEMMA RecoveryLogsKnown ==
  ASSUME IInv, KnownInv, ReadEvidence \/ Resume PROVE KnownInv'
<1>1. LogTypeOK /\ LogIsKnown
  BY TypeParts DEF IInv, KnownInv
<1>2. CASE ReadEvidence
  <2>1. LogIsKnown'
    BY <1>1, <1>2, KnownIs DEF ReadEvidence
  <2>2. \/ pc' = "idle"
        \/ /\ pc' = "recover" /\ journal' = journal /\ Readable /\ stages' = events
           /\ journal.stage \notin TerminalStages
    BY <1>2 DEF ReadEvidence, Return, Goto
  <2>3. CASE pc' = "idle"
    BY <2>1, <2>3 DEF KnownInv, MemoryInv
  <2>4. CASE /\ pc' = "recover" /\ journal' = journal /\ Readable /\ stages' = events
             /\ journal.stage \notin TerminalStages
    <3>1. Memory' = journal'.stage /\ journal'.stage \notin TerminalStages
      BY <2>4 DEF Readable, Memory, LastOf
    <3>2. journal'.stage \in StageNames
      BY <1>1, <2>4 DEF Readable, LogTypeOK, JournalRecord
    <3> QED
      BY <2>1, <2>4, <3>1, <3>2 DEF KnownInv, MemoryInv
  <2> QED
    BY <2>2, <2>3, <2>4
<1>3. CASE Resume
  <2>1. Memory = journal.stage /\ Memory \in {"production_validating", "runtime_sampling",
                                              "restart_requested", "runtime_confirming"}
    BY <1>3, StageNamesAre DEF Resume, KnownInv, MemoryInv, TerminalStages
  <2>2. CASE TryLog("failed") /\ pc' = "idle"
    <3>1. MayFollow(Memory, "failed")
      BY <2>1, Followers
    <3>2. LogIsKnown'
      BY <1>1, <2>2, <3>1, LoggedIsKnown, StageNamesAre
    <3> QED
      BY <2>2, <3>2 DEF KnownInv, MemoryInv
  <2>3. CASE /\ ~(StageOrder(journal.stage) < StageOrder("restart_requested"))
             /\ \/ TryLog("succeeded") /\ pc' = "idle"
                \/ pc' = "attention" /\ UNCHANGED logVars
    <3>1. Memory \in {"restart_requested", "runtime_confirming"}
      BY <2>1, <2>3, OrderFacts
    <3>2. MayFollow(Memory, "succeeded")
      BY <3>1, Followers
    <3>3. CASE TryLog("succeeded") /\ pc' = "idle"
      <4>1. LogIsKnown'
        BY <1>1, <3>2, <3>3, LoggedIsKnown, StageNamesAre
      <4> QED
        BY <3>3, <4>1 DEF KnownInv, MemoryInv
    <3>4. CASE pc' = "attention" /\ UNCHANGED logVars
      <4>1. LogIsKnown' /\ Memory' = Memory
        BY <1>1, <3>4, KnownIs DEF logVars, Memory, LastOf
      <4> QED
        BY <3>1, <3>4, <4>1 DEF KnownInv, MemoryInv
    <3> QED
      BY <2>3, <3>3, <3>4
  <2> QED
    BY <1>3, <2>2, <2>3 DEF Resume, TryLog, Return, NeedsAttention, Goto
<1> QED
  BY <1>2, <1>3

\* Every other step leaves the log as it is, or begins a new one.
LEMMA OthersLogKnown ==
  ASSUME KnownInv,
         Execute \/ Recover \/ Request \/ Confirm \/ Unmark
         \/ Crash \/ AgentStart \/ NginxExit \/ NginxStart \/ Edit
  PROVE  KnownInv'
<1>1. CASE Execute
  <2>1. events' = <<>> /\ stages' = <<>> /\ pc' = "start"
    BY <1>1 DEF Execute
  <2>2. LogIsKnown'
    BY <2>1, KnownIs DEF Follows
  <2> QED
    BY <2>1, <2>2 DEF KnownInv, MemoryInv, Memory, LastOf
<1>2. CASE Recover \/ Crash
  <2>1. UNCHANGED <<events, torn>> /\ pc' \in {"read", "down"}
    BY <1>2 DEF Recover, Crash
  <2>2. LogIsKnown'
    BY <2>1, KnownIs DEF KnownInv
  <2> QED
    BY <2>1, <2>2 DEF KnownInv, MemoryInv
<1>3. CASE Request \/ Confirm \/ Unmark \/ AgentStart \/ NginxExit \/ NginxStart \/ Edit
  <2>1. /\ UNCHANGED <<journal, events, torn, stages>>
        /\ \/ pc' = pc
           \/ pc = "request" /\ pc' \in {"requested", "fail", "attention"}
           \/ pc = "confirm" /\ pc' \in {"unmark", "attention"}
           \/ pc = "unmark" /\ pc' \in {"succeed", "attention"}
           \/ pc = "down" /\ pc' = "idle"
    BY <1>3 DEF Request, Confirm, Unmark, AgentStart, NginxExit, NginxStart, Edit, Goto, NeedsAttention,
                logVars
  <2>2. LogIsKnown' /\ Memory' = Memory
    BY <2>1, KnownIs DEF KnownInv, Memory, LastOf
  <2> QED
    BY <2>1, <2>2 DEF KnownInv, MemoryInv
<1> QED
  BY <1>1, <1>2, <1>3

\* The log is known at the start.
LEMMA LogBeginsKnown == Init => KnownInv
<1> SUFFICES ASSUME Init PROVE KnownInv
  OBVIOUS
<1>1. events = <<>> /\ pc = "idle"
  BY DEF Init
<1>2. LogIsKnown
  BY <1>1, KnownIs DEF Follows
<1> QED
  BY <1>1, <1>2 DEF KnownInv, MemoryInv

\* Every step keeps it known.
LEMMA LogStaysKnown == IInv /\ KnownInv /\ [Next]_vars => KnownInv'
<1> SUFFICES ASSUME IInv, KnownInv, [Next]_vars PROVE KnownInv'
  OBVIOUS
<1>1. CASE UNCHANGED vars
  <2>1. UNCHANGED <<journal, events, torn, stages, pc>>
    BY <1>1 DEF vars
  <2>2. LogIsKnown' /\ Memory' = Memory
    BY <2>1, KnownIs DEF KnownInv, Memory, LastOf
  <2> QED
    BY <2>1, <2>2 DEF KnownInv, MemoryInv
<1>2. CASE Next
  BY <1>2, RestartLogsKnown, RecoveryLogsKnown, OthersLogKnown DEF Next, RestartStep
<1> QED
  BY <1>1, <1>2
-------------------------------------------------------------------------------
(* The theorems. *)

\* The invariant holds when the container starts.
LEMMA InitIInv == Init => IInv
<1> SUFFICES ASSUME Init PROVE IInv
  OBVIOUS
<1>1. RuntimeTypeOK /\ TaskTypeOK /\ CallTypeOK
  <2>1. RuntimeTypeOK
    <3>1. 1 \in 1 .. MaxStarts /\ 1 \in 0 .. 1
      OBVIOUS
    <3> QED
      BY <3>1 DEF Init, RuntimeTypeOK
  <2>2. TaskTypeOK
    <3>1. 0 \in 0 .. MaxRestarts
      OBVIOUS
    <3> QED
      BY <3>1 DEF Init, TaskTypeOK
  <2>3. CallTypeOK
    BY DEF Init, CallTypeOK, ControlPoints, Answers, NoReply
  <2> QED
    BY <2>1, <2>2, <2>3
<1>2. LogTypeOK
  <2>1. 0 \in 0 .. starts /\ journal = [stage |-> "none", before |-> 0]
    BY DEF Init
  <2>2. journal \in JournalRecord
    BY <2>1 DEF JournalRecord
  <2> QED
    BY <2>2, NoStages DEF Init, LogTypeOK
<1>3. CallInv /\ SentOnce /\ SentIsLogged /\ MasterInv
  BY DEF Init, CallInv, SentOnce, SentIsLogged, MasterInv, BeforeRequest, BeforeMark
<1>4. MarkerHasOwner /\ MarkerHasCause /\ MarkerCount
  BY DEF Init, MarkerHasOwner, MarkerHasCause, MarkerCount, BeforeMark, NoReply
<1> QED
  BY <1>1, <1>2, <1>3, <1>4, TypeParts DEF IInv

\* Every step keeps the invariant.
LEMMA NextIInv == IInv /\ [Next]_vars => IInv'
<1> SUFFICES ASSUME IInv, [Next]_vars PROVE IInv'
  OBVIOUS
<1>1. CASE UNCHANGED vars
  BY <1>1 DEF vars, IInv, TypeOK, CallInv, SentOnce, SentIsLogged, MasterInv, MarkerHasOwner,
              MarkerHasCause, MarkerCount
<1>2. CASE RestartStep
  BY <1>2, EarlyStageKeeps, SampleKeeps, MarkKeeps, RequestKeeps, LateStageKeeps, ConfirmKeeps,
     RecoverKeeps
     DEF RestartStep
<1>3. CASE Execute \/ Recover \/ Crash \/ AgentStart \/ NginxExit \/ NginxStart \/ Edit
  BY <1>3, AskKeeps, AgentKeeps, EnvironmentKeeps
<1> QED
  BY <1>1, <1>2, <1>3 DEF Next

\* IInv is inductive: what the journal tells of a command and a master stays true whatever dies, and
\* every marker has somebody who answers for it (ExecuteRestart, RecoverRestart).
THEOREM Invariance == Spec => []IInv
  BY InitIInv, NextIInv, PTL DEF Spec

\* The variables have their types, for any number of restarts.
THEOREM TypeCorrect == Spec => []TypeOK
<1>1. IInv => TypeOK
  BY DEF IInv
<1> QED
  BY <1>1, Invariance, PTL

\* What the call knows of its log never falls behind what it wrote there, so no stage is logged that
\* may not follow (appendStage, readRestartEvidence).
THEOREM LogInvariance == Spec => []KnownInv
<1>1. IInv /\ IInv' /\ KnownInv /\ [Next]_vars => KnownInv'
  BY LogStaysKnown
<1> QED
  BY <1>1, LogBeginsKnown, Invariance, PTL DEF Spec

\* The command is sent at most once for a restart, a failure means that it was not sent and a success
\* that a newer master was seen, a marker is refused for a reason and hides at most one exit, and
\* the log is one that the UI reckons with, however many restarts there are and whenever the Agent
\* dies (ExecuteRestart, RecoverRestart).
THEOREM RestartsAreRight == Spec => []RestartsOnce
<1>1. IInv /\ KnownInv => RestartsOnce
  <2> SUFFICES ASSUME IInv, KnownInv PROVE RestartsOnce
    OBVIOUS
  <2>1. AtMostOneRequest
    BY DEF IInv, SentOnce, AtMostOneRequest
  <2>2. FailedWasNotRequested
    BY DEF IInv, SentOnce, SentIsLogged, FailedWasNotRequested
  <2>3. SuccessHasNewMaster
    BY TypeParts DEF IInv, MasterInv, SuccessHasNewMaster, RuntimeTypeOK, LogTypeOK, JournalRecord
  <2>4. MarkerHidesOneExit
    BY TypeParts DEF IInv, MarkerCount, MarkerHidesOneExit, RuntimeTypeOK, TaskTypeOK
  <2> QED
    BY <2>1, <2>2, <2>3, <2>4 DEF IInv, KnownInv, RestartsOnce
<1> QED
  BY <1>1, Invariance, LogInvariance, PTL

-------------------------------------------------------------------------------
(* The restore transaction. *)

\* The types of its variables, in parts.
RestoreJournalRecord == [stage : R!StageNames \cup {"none"}, saved : BOOLEAN, durable : BOOLEAN]
RestoreAnswers == {"none", "running", "prepared"} \cup R!TerminalStages

RestoreLogTypeOK ==
  /\ r_journal \in RestoreJournalRecord /\ r_torn \in BOOLEAN
  /\ r_events \in Seq(R!StageNames) /\ r_stages \in Seq(R!StageNames)

RestoreRuntimeTypeOK ==
  /\ r_target \in Targets
  /\ r_files \in Trees /\ r_running \in Trees /\ r_safety \in Trees \cup {R!NoTree}
  /\ r_replaced \in BOOLEAN /\ r_hup \in BOOLEAN /\ r_master \in {"known", "other", "down"}

RestoreCallTypeOK ==
  /\ r_dir \in BOOLEAN
  /\ r_pc \in R!ControlPoints /\ r_left \subseteq Paths
  /\ r_reload \in BOOLEAN /\ r_durable \in BOOLEAN
  /\ r_reply \in RestoreAnswers

-------------------------------------------------------------------------------
(* Stages. *)

\* The stages of restoreStageOrder by their places.
LEMMA StageOrders ==
  /\ R!StageOrder("target_verifying") = 1 /\ R!StageOrder("target_validated") = 2
  /\ R!StageOrder("safety_backup_creating") = 3 /\ R!StageOrder("safety_backup_verified") = 4
  /\ R!StageOrder("files_restoring") = 5 /\ R!StageOrder("files_restored") = 6
  /\ R!StageOrder("production_validated") = 7 /\ R!StageOrder("reload_requested") = 8
  /\ R!StageOrder("runtime_confirmed") = 9 /\ R!StageOrder("succeeded") = 10
  /\ R!StageOrder("rollback_applying") = 11 /\ R!StageOrder("rollback_files_restored") = 12
  /\ R!StageOrder("rollback_validated") = 13 /\ R!StageOrder("rollback_reload_requested") = 14
  /\ R!StageOrder("rolled_back") = 15 /\ R!StageOrder("failed") = 16
  /\ R!StageOrder("needs_attention") = 17
<1>1. DOMAIN R!Stages = {1, 2, 3, 4, 5, 6, 7, 8, 9, 10, 11, 12, 13, 14, 15, 16, 17}
  BY DEF R!Stages
<1>2. /\ R!Stages[1] = "target_verifying" /\ R!Stages[2] = "target_validated"
      /\ R!Stages[3] = "safety_backup_creating" /\ R!Stages[4] = "safety_backup_verified"
      /\ R!Stages[5] = "files_restoring" /\ R!Stages[6] = "files_restored"
      /\ R!Stages[7] = "production_validated" /\ R!Stages[8] = "reload_requested"
      /\ R!Stages[9] = "runtime_confirmed" /\ R!Stages[10] = "succeeded"
      /\ R!Stages[11] = "rollback_applying" /\ R!Stages[12] = "rollback_files_restored"
      /\ R!Stages[13] = "rollback_validated" /\ R!Stages[14] = "rollback_reload_requested"
      /\ R!Stages[15] = "rolled_back" /\ R!Stages[16] = "failed" /\ R!Stages[17] = "needs_attention"
  BY DEF R!Stages
<1>3. ASSUME NEW i \in DOMAIN R!Stages PROVE R!StageOrder(R!Stages[i]) = i
  <2>1. \A j \in DOMAIN R!Stages : R!Stages[j] = R!Stages[i] <=> j = i
    BY <1>1, <1>2
  <2>2. QED BY <2>1 DEF R!StageOrder
<1>4. QED BY <1>1, <1>2, <1>3

\* The same stages, in groups.
LEMMA RestoreStageNamesAre ==
  R!StageNames = R!Early \cup R!Forward \cup R!Undo \cup R!TerminalStages
<1>1. DOMAIN R!Stages = {1, 2, 3, 4, 5, 6, 7, 8, 9, 10, 11, 12, 13, 14, 15, 16, 17}
  BY DEF R!Stages
<1>2. R!StageNames = {"target_verifying", "target_validated", "safety_backup_creating",
        "safety_backup_verified", "files_restoring", "files_restored", "production_validated",
        "reload_requested", "runtime_confirmed", "succeeded", "rollback_applying",
        "rollback_files_restored", "rollback_validated", "rollback_reload_requested", "rolled_back",
        "failed", "needs_attention"}
  BY <1>1 DEF R!StageNames, R!Stages
<1>3. QED BY <1>2 DEF R!Early, R!Forward, R!Write, R!Undo, R!TerminalStages

\* The stages that may follow in the log.
RestoreMayFollow(last, stage) ==
  /\ R!Succeeds("restore", R!Coarse(last), R!Coarse(stage))
  /\ last # "none" => R!StageOrder(last) <= R!StageOrder(stage)

\* Which stages these are.
LEMMA RestoreFollowers ==
  /\ RestoreMayFollow("none", "target_verifying") /\ RestoreMayFollow("target_verifying", "target_validated")
  /\ RestoreMayFollow("target_validated", "safety_backup_creating")
  /\ RestoreMayFollow("safety_backup_creating", "safety_backup_verified")
  /\ RestoreMayFollow("safety_backup_verified", "files_restoring")
  /\ RestoreMayFollow("files_restoring", "files_restored")
  /\ RestoreMayFollow("files_restored", "production_validated")
  /\ RestoreMayFollow("production_validated", "reload_requested")
  /\ RestoreMayFollow("reload_requested", "runtime_confirmed")
  /\ RestoreMayFollow("rollback_applying", "rollback_files_restored")
  /\ RestoreMayFollow("rollback_files_restored", "rollback_validated")
  /\ RestoreMayFollow("rollback_validated", "rollback_reload_requested")
  /\ \A last \in R!Early \cup R!Forward : RestoreMayFollow(last, "failed")
  /\ \A last \in R!Forward : RestoreMayFollow(last, "runtime_confirmed") /\ RestoreMayFollow(last, "succeeded")
                             /\ RestoreMayFollow(last, "rollback_applying")
  /\ \A last \in R!Undo : RestoreMayFollow(last, "rolled_back")
  /\ \A last \in R!Forward \cup R!Undo : RestoreMayFollow(last, "needs_attention")
<1>1. /\ R!Coarse("none") = "queued" /\ R!Coarse("target_verifying") = "first"
      /\ R!Coarse("target_validated") = "first"
      /\ R!Coarse("safety_backup_creating") = "first" /\ R!Coarse("safety_backup_verified") = "saved"
      /\ R!Coarse("failed") = "failed" /\ R!Coarse("succeeded") = "succeeded"
      /\ R!Coarse("rolled_back") = "rolled_back" /\ R!Coarse("needs_attention") = "needs_attention"
  BY DEF R!Coarse, R!Early, R!Write, R!Undo
<1>2. /\ \A stage \in R!Write : R!Coarse(stage) = "write"
      /\ \A stage \in R!Undo : R!Coarse(stage) = "undo"
      /\ \A stage \in R!Early : R!Coarse(stage) = "first"
  BY DEF R!Coarse, R!Early, R!Write, R!Undo
<1>3. /\ R!Succeeds("restore", "queued", "first") /\ R!Succeeds("restore", "first", "first")
      /\ R!Succeeds("restore", "first", "saved") /\ R!Succeeds("restore", "saved", "write")
      /\ R!Succeeds("restore", "write", "write") /\ R!Succeeds("restore", "undo", "undo")
      /\ R!Succeeds("restore", "first", "failed") /\ R!Succeeds("restore", "saved", "failed")
      /\ R!Succeeds("restore", "write", "failed") /\ R!Succeeds("restore", "saved", "succeeded")
      /\ R!Succeeds("restore", "write", "succeeded") /\ R!Succeeds("restore", "saved", "undo")
      /\ R!Succeeds("restore", "write", "undo") /\ R!Succeeds("restore", "undo", "rolled_back")
      /\ R!Succeeds("restore", "saved", "needs_attention") /\ R!Succeeds("restore", "write", "needs_attention")
      /\ R!Succeeds("restore", "undo", "needs_attention")
  BY DEF R!Succeeds, R!Following, R!CallNames, R!Verdicts
<1>4. \A last \in R!Early : R!StageOrder(last) <= 3
  BY StageOrders DEF R!Early
<1>5. \A last \in R!Forward : R!StageOrder(last) <= 9
  BY StageOrders DEF R!Forward, R!Write
<1>6. \A last \in R!Undo : R!StageOrder(last) <= 14
  BY StageOrders DEF R!Undo
<1>7. ASSUME NEW last \in R!Early \cup R!Forward PROVE RestoreMayFollow(last, "failed")
  <2>1. R!Coarse(last) \in {"first", "saved", "write"}
    BY <1>1, <1>2 DEF R!Forward
  <2>2. R!StageOrder(last) <= 16
    BY <1>4, <1>5, StageOrders DEF R!Forward, R!Early, R!Write
  <2>3. QED BY <1>1, <1>3, <2>1, <2>2, StageOrders DEF RestoreMayFollow
<1>8. \A last \in R!Forward : RestoreMayFollow(last, "runtime_confirmed")
      /\ RestoreMayFollow(last, "succeeded")
                             /\ RestoreMayFollow(last, "rollback_applying")
  BY <1>1, <1>2, <1>3, <1>5, StageOrders DEF RestoreMayFollow, R!Forward, R!Write, R!Undo
<1>9. ASSUME NEW last \in R!Undo PROVE RestoreMayFollow(last, "rolled_back")
  <2>1. R!Coarse(last) = "undo" /\ R!StageOrder(last) <= 15
    BY <1>2, StageOrders DEF R!Undo
  <2>2. QED BY <1>1, <1>3, <2>1, StageOrders DEF RestoreMayFollow
<1>10. ASSUME NEW last \in R!Forward \cup R!Undo PROVE RestoreMayFollow(last, "needs_attention")
  <2>1. R!Coarse(last) \in {"undo", "saved", "write"}
    BY <1>1, <1>2 DEF R!Forward
  <2>2. R!StageOrder(last) <= 17
    BY StageOrders DEF R!Forward, R!Write, R!Undo
  <2>3. QED BY <1>1, <1>3, <2>1, <2>2, StageOrders DEF RestoreMayFollow
<1>11. QED BY <1>1, <1>2, <1>3, <1>7, <1>8, <1>9, <1>10, StageOrders DEF RestoreMayFollow, R!Write,
   R!Undo

-------------------------------------------------------------------------------
(* The log. *)

\* The last of a log it was appended to.
LEMMA LastAppended ==
  ASSUME NEW log \in Seq(R!StageNames), NEW stage \in R!StageNames
  PROVE  /\ Append(log, stage) \in Seq(R!StageNames) /\ Append(log, stage) # <<>>
         /\ Len(Append(log, stage)) = Len(log) + 1 /\ Len(log) \in Nat
         /\ \A i \in 1..Len(log) : Append(log, stage)[i] = log[i]
         /\ Append(log, stage)[Len(log) + 1] = stage
         /\ R!LastOf(Append(log, stage)) = stage
<1>1. /\ Append(log, stage) \in Seq(R!StageNames)
      /\ Len(Append(log, stage)) = Len(log) + 1 /\ Len(log) \in Nat
      /\ \A i \in 1..Len(log) : Append(log, stage)[i] = log[i]
      /\ Append(log, stage)[Len(log) + 1] = stage
  OBVIOUS
<1>2. Append(log, stage) # <<>>
  BY <1>1
<1>3. QED BY <1>1, <1>2 DEF R!LastOf

\* A log in which each stage may follow the one before is continued by one that may follow the last.
LEMMA RestoreAppendFollows ==
  ASSUME NEW log \in Seq(R!StageNames), NEW stage \in R!StageNames, RestoreMayFollow(R!LastOf(log), stage),
         \A i \in 1..Len(log) : RestoreMayFollow(IF i = 1 THEN "none" ELSE log[i - 1], log[i]),
         NEW new, new = Append(log, stage)
  PROVE  \A i \in 1..Len(new) : RestoreMayFollow(IF i = 1 THEN "none" ELSE new[i - 1], new[i])
<1> SUFFICES ASSUME NEW i \in 1..Len(new) PROVE RestoreMayFollow(IF i = 1 THEN "none" ELSE new[i - 1], new[i])
  OBVIOUS
<1>1. /\ Len(new) = Len(log) + 1 /\ Len(log) \in Nat /\ new[Len(log) + 1] = stage
      /\ \A j \in 1..Len(log) : new[j] = log[j]
  BY LastAppended
<1>2. CASE i <= Len(log)
  <2>1. i \in 1..Len(log) /\ new[i] = log[i] /\ (i # 1 => new[i - 1] = log[i - 1])
    BY <1>1, <1>2
  <2>2. QED BY <2>1
<1>3. CASE i = Len(log) + 1
  <2>1. CASE log = <<>>
    BY <1>1, <1>3, <2>1 DEF R!LastOf
  <2>2. CASE log # <<>>
    <3>1. Len(log) # 0
      BY <2>2
    <3>2. i # 1 /\ new[i] = stage /\ new[i - 1] = R!LastOf(log)
      BY <1>1, <1>3, <2>2, <3>1 DEF R!LastOf
    <3>3. QED BY <3>2
  <2>3. QED BY <2>1, <2>2
<1>4. QED BY <1>1, <1>2, <1>3

\* EventsFollow puts both properties of the log together.
EventsFollow ==
  ~r_torn => \A i \in 1..Len(r_events) :
               RestoreMayFollow(IF i = 1 THEN "none" ELSE r_events[i - 1], r_events[i])

LogInv == RestoreLogTypeOK /\ EventsFollow

\* No stage is called "none".
LEMMA NoneIsNoStage == "none" \notin R!StageNames
  BY RestoreStageNamesAre DEF R!Early, R!Forward, R!Write, R!Undo, R!TerminalStages

\* The same, stage by stage and kind by kind.
LEMMA FollowsInOrder ==
  ASSUME NEW log \in Seq(R!StageNames)
  PROVE  (\A i \in 1..Len(log) : RestoreMayFollow(IF i = 1 THEN "none" ELSE log[i - 1], log[i]))
         <=> /\ \A i \in 1..(Len(log) - 1) : R!StageOrder(log[i]) <= R!StageOrder(log[i + 1])
             /\ \A i \in 1..Len(log) :
                  R!Succeeds("restore", R!Coarse(IF i = 1 THEN "none" ELSE log[i - 1]), R!Coarse(log[i]))
<1> DEFINE Follow == \A i \in 1..Len(log) : RestoreMayFollow(IF i = 1 THEN "none" ELSE log[i - 1], log[i])
<1> DEFINE Order == \A i \in 1..(Len(log) - 1) : R!StageOrder(log[i]) <= R!StageOrder(log[i + 1])
<1> DEFINE Known == \A i \in 1..Len(log) :
                      R!Succeeds("restore", R!Coarse(IF i = 1 THEN "none" ELSE log[i - 1]), R!Coarse(log[i]))
<1>1. Len(log) \in Nat /\ \A i \in 1..Len(log) : log[i] # "none"
  BY NoneIsNoStage
<1>2. ASSUME Follow PROVE Order
  <2> SUFFICES ASSUME NEW i \in 1..(Len(log) - 1) PROVE R!StageOrder(log[i]) <= R!StageOrder(log[i + 1])
    OBVIOUS
  <2>1. i + 1 \in 1..Len(log) /\ i + 1 # 1 /\ (i + 1) - 1 = i /\ log[i] # "none"
    BY <1>1
  <2>2. RestoreMayFollow(IF i + 1 = 1 THEN "none" ELSE log[(i + 1) - 1], log[i + 1])
    BY <1>2, <2>1
  <2>3. RestoreMayFollow(log[i], log[i + 1])
    BY <2>1, <2>2
  <2>4. QED BY <2>1, <2>3 DEF RestoreMayFollow
<1>3. ASSUME Follow PROVE Known
  BY <1>3 DEF RestoreMayFollow
<1>4. ASSUME Order, Known PROVE Follow
  <2> SUFFICES ASSUME NEW i \in 1..Len(log)
               PROVE  RestoreMayFollow(IF i = 1 THEN "none" ELSE log[i - 1], log[i])
    OBVIOUS
  <2>1. R!Succeeds("restore", R!Coarse(IF i = 1 THEN "none" ELSE log[i - 1]), R!Coarse(log[i]))
    BY <1>4
  <2>2. CASE i = 1
    BY <2>1, <2>2 DEF RestoreMayFollow
  <2>3. CASE i # 1
    <3>1. i - 1 \in 1..(Len(log) - 1) /\ (i - 1) + 1 = i
      BY <1>1, <2>3
    <3>2. R!StageOrder(log[i - 1]) <= R!StageOrder(log[(i - 1) + 1])
      BY <1>4, <3>1
    <3>3. QED BY <2>1, <2>3, <3>1, <3>2 DEF RestoreMayFollow
  <2>4. QED BY <2>2, <2>3
<1>5. QED BY <1>2, <1>3, <1>4

\* The parts of the invariant.
StateInv ==
  /\ RestoreRuntimeTypeOK /\ RestoreCallTypeOK /\ R!CallInv /\ R!JournalAtPc /\ R!MemoryAtPc
  /\ R!SavedInv /\ R!FilesInv /\ R!WorkersInv

\* The invariant in two parts: the log, and everything else.
LEMMA Parts == (R!IInv <=> LogInv /\ StateInv) /\ (R!IInv' <=> LogInv' /\ StateInv')
<1>1. R!TypeOK <=> RestoreRuntimeTypeOK /\ RestoreLogTypeOK /\ RestoreCallTypeOK
  BY DEF R!TypeOK, RestoreRuntimeTypeOK, RestoreLogTypeOK, RestoreCallTypeOK, RestoreJournalRecord,
     RestoreAnswers
<1>2. R!TypeOK' <=> RestoreRuntimeTypeOK' /\ RestoreLogTypeOK' /\ RestoreCallTypeOK'
  BY DEF R!TypeOK, RestoreRuntimeTypeOK, RestoreLogTypeOK, RestoreCallTypeOK, RestoreJournalRecord,
     RestoreAnswers
<1>3. RestoreLogTypeOK => (EventsFollow <=> R!EventsInOrder /\ R!LogIsKnown)
  BY FollowsInOrder DEF RestoreLogTypeOK, EventsFollow, R!EventsInOrder, R!LogIsKnown
<1>4. RestoreLogTypeOK' => (EventsFollow' <=> R!EventsInOrder' /\ R!LogIsKnown')
  BY FollowsInOrder DEF RestoreLogTypeOK, EventsFollow, R!EventsInOrder, R!LogIsKnown
<1>5. QED BY <1>1, <1>2, <1>3, <1>4 DEF R!IInv, LogInv, StateInv

\* What the log, the memory and the journal have after a stage was logged.
Recorded(stage) ==
  /\ r_journal'.stage = stage
  /\ r_journal'.saved = (r_journal.saved \/ stage = "safety_backup_verified" \/ r_pc = "unsaved")
Kept == r_journal'.stage = r_journal.stage /\ r_journal'.saved = r_journal.saved

\* appendStage keeps the log in order if the memory knows what may follow.
LEMMA LogDoes ==
  ASSUME LogInv, r_durable \in BOOLEAN, NEW stage \in R!StageNames,
         RestoreMayFollow(R!Memory, stage), R!Log(stage)
  PROVE  LogInv' /\ Recorded(stage) /\ R!Memory' = stage /\ R!LastOf(r_events)' = stage
<1>0. /\ r_journal \in RestoreJournalRecord /\ r_torn \in BOOLEAN
      /\ r_events \in Seq(R!StageNames) /\ r_stages \in Seq(R!StageNames)
  BY DEF LogInv, RestoreLogTypeOK
<1>1. r_journal' = R!Record(stage) /\ R!Record(stage) \in RestoreJournalRecord /\ Recorded(stage)
  BY <1>0 DEF R!Log, R!Record, Recorded, RestoreJournalRecord
<1>2. r_events' \in Seq(R!StageNames) /\ r_stages' \in Seq(R!StageNames)
      /\ R!LastOf(r_events') = stage /\ R!LastOf(r_stages') = stage
  BY <1>0, LastAppended DEF R!Log
<1>3. r_torn' \in BOOLEAN
  BY DEF R!Log
<1>4. EventsFollow'
  <2> SUFFICES ASSUME ~r_torn'
      PROVE (\A i \in 1..Len(r_events) :
               RestoreMayFollow(IF i = 1 THEN "none" ELSE r_events[i - 1], r_events[i]))'
    BY DEF EventsFollow
  <2>1. ~r_torn /\ r_events = r_stages /\ r_events' = Append(r_events, stage)
    BY DEF R!Log
  <2>2. RestoreMayFollow(R!LastOf(r_events), stage)
    BY <2>1 DEF R!Memory
  <2>3. \A i \in 1..Len(r_events) : RestoreMayFollow(IF i = 1 THEN "none" ELSE r_events[i - 1], r_events[i])
    BY <2>1 DEF LogInv, EventsFollow
  <2>4. QED BY <1>0, <2>1, <2>2, <2>3, RestoreAppendFollows
<1>5. QED BY <1>1, <1>2, <1>3, <1>4 DEF LogInv, RestoreLogTypeOK, R!Memory, R!LastOf

\* A failed appendStage too.
LEMMA LogErrorDoes ==
  ASSUME LogInv, r_durable \in BOOLEAN, NEW stage \in R!StageNames,
         RestoreMayFollow(R!Memory, stage), R!LogError(stage)
  PROVE  LogInv' /\ (Recorded(stage) \/ Kept) /\ R!Memory' = R!Memory
<1>0. /\ r_journal \in RestoreJournalRecord /\ r_torn \in BOOLEAN
      /\ r_events \in Seq(R!StageNames) /\ r_stages \in Seq(R!StageNames)
  BY DEF LogInv, RestoreLogTypeOK
<1>1. R!Record(stage) \in RestoreJournalRecord /\ (r_journal' = R!Record(stage) => Recorded(stage))
  BY <1>0 DEF R!Record, Recorded, RestoreJournalRecord
<1>2. r_journal' \in RestoreJournalRecord /\ (Recorded(stage) \/ Kept)
  BY <1>0, <1>1 DEF R!LogError, Kept
<1>3. r_stages' = r_stages
  BY DEF R!LogError
<1>4. \/ r_events' = r_events /\ r_torn' = r_torn
      \/ r_events' = r_events /\ r_torn' = TRUE
      \/ r_events' = Append(r_events, stage) /\ r_torn' = (r_torn \/ r_events # r_stages)
  BY Zenon DEF R!LogError
<1>5. r_events' \in Seq(R!StageNames) /\ r_torn' \in BOOLEAN
  <2>1. Append(r_events, stage) \in Seq(R!StageNames)
    BY <1>0, LastAppended
  <2>2. r_events' \in Seq(R!StageNames)
    BY <1>0, <1>4, <2>1
  <2>3. r_torn' \in BOOLEAN
    BY <1>0, <1>4, Zenon
  <2>4. QED BY <2>2, <2>3
<1>6. EventsFollow'
  <2> SUFFICES ASSUME ~r_torn'
      PROVE (\A i \in 1..Len(r_events) :
               RestoreMayFollow(IF i = 1 THEN "none" ELSE r_events[i - 1], r_events[i]))'
    BY DEF EventsFollow
  <2>1. \/ r_events' = r_events /\ r_torn' = r_torn
        \/ r_events' = Append(r_events, stage) /\ r_events = r_stages /\ ~r_torn
    BY <1>4
  <2>2. ~r_torn
    BY <2>1
  <2>3. \A i \in 1..Len(r_events) : RestoreMayFollow(IF i = 1 THEN "none" ELSE r_events[i - 1], r_events[i])
    BY <2>2 DEF LogInv, EventsFollow
  <2>4. CASE r_events' = r_events
    BY <2>3, <2>4
  <2>5. CASE r_events' = Append(r_events, stage) /\ r_events = r_stages
    <3>1. RestoreMayFollow(R!LastOf(r_events), stage)
      BY <2>5 DEF R!Memory
    <3>2. QED BY <1>0, <2>3, <2>5, <3>1, RestoreAppendFollows
  <2>6. QED BY <2>1, <2>4, <2>5
<1>7. QED BY <1>2, <1>3, <1>5, <1>6 DEF LogInv, RestoreLogTypeOK, R!Memory

\* Whether the stage could be logged or not.
LEMMA TryLogDoes ==
  ASSUME LogInv, r_durable \in BOOLEAN, NEW stage \in R!StageNames,
         RestoreMayFollow(R!Memory, stage), R!TryLog(stage)
  PROVE  LogInv' /\ (Recorded(stage) \/ Kept)
  BY LogDoes, LogErrorDoes DEF R!TryLog

-------------------------------------------------------------------------------
(* The steps of a preparation. *)

\* What a logging step leaves alone.
Quiet == UNCHANGED <<r_target, r_files, r_running, r_replaced, r_hup, r_master, r_dir>>

\* A restore that fails has changed no managed file.
LEMMA FailKeeps ==
  ASSUME R!Configurations, R!IInv, r_dir, R!SameDigest(r_files, Source),
         R!Memory \in R!Early \cup R!Forward, Quiet,
         R!TryLog("failed"), R!Return("failed"), r_safety' \in {r_safety, Source},
         r_left' = r_left, r_reload' = r_reload, r_durable' = r_durable
  PROVE  R!IInv'
<1>0. LogInv /\ StateInv /\ r_durable \in BOOLEAN
  BY Parts DEF StateInv, RestoreCallTypeOK
<1>1. LogInv' /\ (Recorded("failed") \/ Kept)
  BY <1>0, TryLogDoes, RestoreFollowers, RestoreStageNamesAre DEF R!TerminalStages
<1>2. r_pc' = "idle" /\ r_reply' = "failed" /\ r_dir' /\ Quiet
  BY DEF R!Return, Quiet
<1>3. RestoreRuntimeTypeOK' /\ RestoreCallTypeOK'
  BY SMTT(30), <1>0, <1>2 DEF R!Configurations, StateInv, RestoreRuntimeTypeOK, RestoreCallTypeOK,
     R!ControlPoints, RestoreAnswers, R!TerminalStages,
                    Quiet
<1>4. R!CallInv' /\ R!JournalAtPc' /\ R!MemoryAtPc'
  BY <1>2 DEF R!CallInv, R!JournalAtPc, R!MemoryAtPc, Quiet
<1>5. R!SavedInv'
  BY <1>0, <1>1, <1>2 DEF StateInv, R!SavedInv, Recorded, Kept, R!Early
<1>6. R!FilesInv'
  BY <1>0, <1>1, <1>2 DEF StateInv, R!FilesInv, Recorded, Kept, Quiet, R!Early, R!Undo, R!SameDigest
<1>7. R!WorkersInv'
  BY <1>0, <1>1, <1>2 DEF StateInv, R!WorkersInv, R!Unreloaded, Recorded, Kept, Quiet, R!Early, R!Undo
<1>8. QED BY <1>1, <1>3, <1>4, <1>5, <1>6, <1>7, Parts DEF StateInv

\* Each stage of a preparation.
LEMMA StartPreparationKeeps == R!IInv /\ R!StartPreparation => R!IInv'
<1> SUFFICES ASSUME R!IInv, R!StartPreparation PROVE R!IInv'
  OBVIOUS
<1>0. LogInv /\ StateInv /\ r_durable \in BOOLEAN
  BY Parts DEF StateInv, RestoreCallTypeOK
<1>1. r_pc = "verify" /\ r_journal.stage = "none" /\ R!Memory = "none" /\ r_reply = "none" /\ r_dir
  BY <1>0 DEF R!StartPreparation, R!PrepareStage, StateInv, R!JournalAtPc, R!MemoryAtPc, R!CallInv,
     RestoreCallTypeOK
<1>2. Quiet /\ UNCHANGED <<r_safety, r_left, r_reload, r_durable>>
  BY DEF R!StartPreparation, R!PrepareStage, Quiet, R!nginxVars
<1>3. RestoreMayFollow(R!Memory, "target_verifying") /\ "target_verifying" \in R!StageNames
  BY <1>1, RestoreFollowers, RestoreStageNamesAre DEF R!Early
<1>4. /\ LogInv'
      /\ \/ Recorded("target_verifying") /\ R!Memory' = "target_verifying" /\ r_pc' = "target" /\ r_reply' = "none"
         \/ (Recorded("target_verifying") \/ Kept) /\ r_pc' = "idle" /\ r_reply' = "running"
  BY <1>0, <1>1, <1>3, LogDoes, LogErrorDoes DEF R!StartPreparation, R!PrepareStage, R!Goto, R!Return
<1>5. RestoreRuntimeTypeOK' /\ RestoreCallTypeOK'
  BY SMTT(30), <1>0, <1>2, <1>4 DEF StateInv, RestoreRuntimeTypeOK, RestoreCallTypeOK, Quiet, R!ControlPoints,
     RestoreAnswers
<1>6. R!CallInv' /\ R!JournalAtPc' /\ R!MemoryAtPc'
  BY <1>1, <1>2, <1>4 DEF R!CallInv, R!JournalAtPc, R!MemoryAtPc, Quiet, Recorded
<1>7. R!SavedInv'
  BY <1>0, <1>1, <1>2, <1>4 DEF StateInv, R!SavedInv, Recorded, Kept, R!Early
<1>8. R!FilesInv'
  BY <1>0, <1>1, <1>2, <1>4 DEF StateInv, R!FilesInv, Recorded, Kept, Quiet, R!Early, R!Undo
<1>9. R!WorkersInv'
  BY <1>0, <1>1, <1>2, <1>4 DEF StateInv, R!WorkersInv, R!Unreloaded, Recorded, Kept, Quiet,
     R!Early, R!Undo
<1>10. QED BY <1>4, <1>5, <1>6, <1>7, <1>8, <1>9, Parts DEF StateInv

\* Before the first write production is the tree that was found.
LEMMA EarlyFacts ==
  ASSUME R!IInv, r_pc \notin {"idle", "down", "read"}, r_journal.stage \in {"safety_backup_verified"} \cup R!Early
  PROVE  r_dir /\ r_files = Source /\ R!SameDigest(r_files, Source) /\ r_reply = "none"
  BY DEF R!IInv, R!CallInv, R!FilesInv, R!SameDigest, R!TypeOK

\* The target is checked (PrepareRestore).
LEMMA ValidateTargetKeeps == R!Configurations /\ R!IInv /\ R!ValidateTarget => R!IInv'
<1> SUFFICES ASSUME R!Configurations, R!IInv, R!ValidateTarget PROVE R!IInv'
  OBVIOUS
<1>0. LogInv /\ StateInv /\ r_durable \in BOOLEAN
  BY Parts DEF StateInv, RestoreCallTypeOK
<1>1. r_pc = "target" /\ r_journal.stage = "target_verifying" /\ R!Memory = "target_verifying"
  BY <1>0 DEF R!ValidateTarget, R!PrepareStage, StateInv, R!JournalAtPc, R!MemoryAtPc
<1>2. Quiet /\ UNCHANGED <<r_safety, r_left, r_reload, r_durable>>
  BY DEF R!ValidateTarget, R!PrepareStage, Quiet, R!nginxVars
<1>3. RestoreMayFollow(R!Memory, "target_validated") /\ "target_validated" \in R!StageNames
      /\ r_dir /\ R!SameDigest(r_files, Source) /\ r_reply = "none"
  BY <1>1, EarlyFacts, RestoreFollowers, RestoreStageNamesAre DEF R!Early
<1>4. CASE R!TryLog("failed") /\ R!Return("failed")
  BY <1>1, <1>2, <1>3, <1>4, FailKeeps DEF R!Early
<1>5. CASE ~(R!TryLog("failed") /\ R!Return("failed"))
  <2>1. /\ LogInv'
        /\ \/ Recorded("target_validated") /\ R!Memory' = "target_validated" /\ r_pc' = "source" /\ r_reply' = "none"
           \/ (Recorded("target_validated") \/ Kept) /\ r_pc' = "idle" /\ r_reply' = "running"
    BY <1>0, <1>3, <1>5, LogDoes, LogErrorDoes DEF R!ValidateTarget, R!PrepareStage, R!Goto, R!Return
  <2>2. RestoreRuntimeTypeOK' /\ RestoreCallTypeOK'
    BY SMTT(30), <1>0, <1>2, <2>1 DEF StateInv, RestoreRuntimeTypeOK, RestoreCallTypeOK, Quiet,
       R!ControlPoints, RestoreAnswers
  <2>3. R!CallInv' /\ R!JournalAtPc' /\ R!MemoryAtPc'
    BY <1>2, <1>3, <2>1 DEF R!CallInv, R!JournalAtPc, R!MemoryAtPc, Quiet, Recorded
  <2>4. R!SavedInv' /\ R!FilesInv'
    BY <1>0, <1>1, <1>2, <2>1 DEF StateInv, R!SavedInv, R!FilesInv, Recorded, Kept, Quiet, R!Early,
       R!Undo
  <2>5. R!WorkersInv'
    BY <1>0, <1>1, <1>2, <2>1 DEF StateInv, R!WorkersInv, R!Unreloaded, Recorded, Kept, Quiet,
       R!Early, R!Undo
  <2>6. QED BY <2>1, <2>2, <2>3, <2>4, <2>5, Parts DEF StateInv
<1>6. QED BY <1>4, <1>5

\* The master and the workers to be replaced are recorded.
LEMMA InspectSourceKeeps == R!Configurations /\ R!IInv /\ R!InspectSource => R!IInv'
<1> SUFFICES ASSUME R!Configurations, R!IInv, R!InspectSource PROVE R!IInv'
  OBVIOUS
<1>0. LogInv /\ StateInv /\ r_durable \in BOOLEAN
  BY Parts DEF StateInv, RestoreCallTypeOK
<1>1. r_pc = "source" /\ r_journal.stage = "target_validated" /\ R!Memory = "target_validated"
  BY <1>0 DEF R!InspectSource, StateInv, R!JournalAtPc, R!MemoryAtPc
<1>2. UNCHANGED <<r_target, r_files, r_running, r_hup, r_dir, r_safety, r_left, r_reload, r_durable>>
  BY DEF R!InspectSource
<1>3. RestoreMayFollow(R!Memory, "safety_backup_creating") /\ "safety_backup_creating" \in R!StageNames
      /\ r_dir /\ R!SameDigest(r_files, Source) /\ r_reply = "none"
  BY <1>1, EarlyFacts, RestoreFollowers, RestoreStageNamesAre DEF R!Early
<1>4. CASE R!TryLog("failed") /\ R!Return("failed") /\ UNCHANGED <<r_master, r_replaced>>
  BY <1>1, <1>2, <1>3, <1>4, FailKeeps DEF R!Early, Quiet
<1>5. CASE ~(R!TryLog("failed") /\ R!Return("failed") /\ UNCHANGED <<r_master, r_replaced>>)
  <2>1. /\ LogInv' /\ r_master # "down" /\ r_master' = "known" /\ r_replaced' = FALSE
        /\ \/ Recorded("safety_backup_creating") /\ R!Memory' = "safety_backup_creating"
              /\ r_pc' = "save" /\ r_reply' = "none"
           \/ (Recorded("safety_backup_creating") \/ Kept) /\ r_pc' = "idle" /\ r_reply' = "running"
    BY <1>0, <1>3, <1>5, LogDoes, LogErrorDoes DEF R!InspectSource, R!Goto, R!Return
  <2>2. RestoreRuntimeTypeOK' /\ RestoreCallTypeOK'
    BY ZenonT(60), <1>0, <1>2, <2>1 DEF StateInv, RestoreRuntimeTypeOK, RestoreCallTypeOK, R!ControlPoints,
       RestoreAnswers
  <2>3. R!CallInv' /\ R!JournalAtPc' /\ R!MemoryAtPc'
    BY <1>2, <1>3, <2>1 DEF R!CallInv, R!JournalAtPc, R!MemoryAtPc, Recorded
  <2>4. R!SavedInv' /\ R!FilesInv'
    BY <1>0, <1>1, <1>2, <2>1 DEF StateInv, R!SavedInv, R!FilesInv, Recorded, Kept, R!Early, R!Undo
  <2>5. R!WorkersInv'
    BY <1>0, <1>1, <1>2, <2>1 DEF StateInv, R!WorkersInv, R!Unreloaded, Recorded, Kept, R!Early, R!Undo
  <2>6. QED BY <2>1, <2>2, <2>3, <2>4, <2>5, Parts DEF StateInv
<1>6. QED BY <1>4, <1>5

\* The safety backup is made.
LEMMA SaveSourceKeeps == R!Configurations /\ R!IInv /\ R!SaveSource => R!IInv'
<1> SUFFICES ASSUME R!Configurations, R!IInv, R!SaveSource PROVE R!IInv'
  OBVIOUS
<1>0. LogInv /\ StateInv /\ r_durable \in BOOLEAN
  BY Parts DEF StateInv, RestoreCallTypeOK
<1>1. r_pc = "save" /\ r_journal.stage = "safety_backup_creating" /\ R!Memory = "safety_backup_creating"
  BY <1>0 DEF R!SaveSource, StateInv, R!JournalAtPc, R!MemoryAtPc
<1>2. Quiet /\ UNCHANGED <<r_left, r_reload, r_durable>>
  BY DEF R!SaveSource, Quiet, R!nginxVars
<1>3. RestoreMayFollow(R!Memory, "safety_backup_verified") /\ "safety_backup_verified" \in R!StageNames
      /\ r_dir /\ r_files = Source /\ R!SameDigest(r_files, Source) /\ r_reply = "none"
  BY <1>1, EarlyFacts, RestoreFollowers, RestoreStageNamesAre DEF R!Early, R!Forward
<1>4. CASE R!TryLog("failed") /\ R!Return("failed") /\ r_safety' \in {r_safety, r_files}
  BY <1>1, <1>2, <1>3, <1>4, FailKeeps DEF R!Early
<1>5. CASE ~(R!TryLog("failed") /\ R!Return("failed") /\ r_safety' \in {r_safety, r_files})
  <2>1. /\ LogInv' /\ r_safety' = Source
        /\ \/ Recorded("safety_backup_verified") /\ r_pc' = "idle" /\ r_reply' = "prepared"
           \/ (Recorded("safety_backup_verified") \/ Kept) /\ R!Memory' = R!Memory /\ r_pc' = "unsaved" /\ r_reply' = "none"
    BY <1>0, <1>3, <1>5, LogDoes, LogErrorDoes DEF R!SaveSource, R!Goto, R!Return
  <2>2. RestoreRuntimeTypeOK' /\ RestoreCallTypeOK'
    BY SMTT(30), <1>0, <1>2, <2>1 DEF R!Configurations, StateInv, RestoreRuntimeTypeOK, RestoreCallTypeOK,
       Quiet, R!ControlPoints, RestoreAnswers
  <2>3. R!CallInv' /\ R!JournalAtPc' /\ R!MemoryAtPc'
    BY <1>1, <1>2, <1>3, <2>1 DEF R!CallInv, R!JournalAtPc, R!MemoryAtPc, Quiet, Recorded, Kept
  <2>4. R!SavedInv' /\ R!FilesInv'
    BY <1>0, <1>1, <1>2, <1>3, <2>1 DEF StateInv, R!SavedInv, R!FilesInv, Recorded, Kept, Quiet,
       R!Early, R!Undo
  <2>5. R!WorkersInv'
    BY <1>0, <1>1, <1>2, <2>1 DEF StateInv, R!WorkersInv, R!Unreloaded, Recorded, Kept, Quiet,
       R!Early, R!Undo
  <2>6. QED BY <2>1, <2>2, <2>3, <2>4, <2>5, Parts DEF StateInv
<1>6. QED BY <1>4, <1>5

\* A safety backup that could not be logged fails the restore.
LEMMA FailUnsavedKeeps == R!Configurations /\ R!IInv /\ R!FailUnsaved => R!IInv'
<1> SUFFICES ASSUME R!Configurations, R!IInv, R!FailUnsaved PROVE R!IInv'
  OBVIOUS
<1>1. r_pc = "unsaved" /\ r_journal.stage \in {"safety_backup_creating", "safety_backup_verified"}
      /\ R!Memory = "safety_backup_creating"
  BY DEF R!FailUnsaved, R!IInv, R!JournalAtPc, R!MemoryAtPc
<1>2. Quiet /\ UNCHANGED <<r_safety, r_left, r_reload, r_durable>>
  BY DEF R!FailUnsaved, Quiet, R!nginxVars
<1>3. r_dir /\ R!SameDigest(r_files, Source)
  BY <1>1, EarlyFacts DEF R!Early
<1>4. QED BY <1>1, <1>2, <1>3, FailKeeps DEF R!FailUnsaved, R!Early

\* Every step of a preparation.
LEMMA PrepareStepKeeps == R!Configurations /\ R!IInv /\ R!PrepareStep => R!IInv'
  BY StartPreparationKeeps, ValidateTargetKeeps, InspectSourceKeeps, SaveSourceKeeps, FailUnsavedKeeps
     DEF R!PrepareStep

-------------------------------------------------------------------------------
(* The steps of an execution. *)

\* Nothing was logged.
LEMMA NotLogged ==
  ASSUME LogInv, UNCHANGED R!logVars
  PROVE  LogInv' /\ Kept /\ R!Memory' = R!Memory /\ R!LastOf(r_events)' = R!LastOf(r_events)
  BY DEF R!logVars, LogInv, RestoreLogTypeOK, EventsFollow, Kept, R!Memory, R!LastOf

\* The evidence is read into the memory of the call.
LEMMA EvidenceRead ==
  ASSUME LogInv, UNCHANGED <<r_journal, r_events, r_torn>>, r_stages' \in {<<>>, r_events, r_stages}
  PROVE  LogInv' /\ Kept /\ R!LastOf(r_events)' = R!LastOf(r_events)
<1>1. r_stages' \in Seq(R!StageNames)
  <2>1. <<>> \in Seq(R!StageNames)
    OBVIOUS
  <2>2. QED BY <2>1 DEF LogInv, RestoreLogTypeOK
<1>2. EventsFollow'
  BY DEF LogInv, EventsFollow
<1>3. QED BY <1>1, <1>2 DEF LogInv, RestoreLogTypeOK, Kept, R!LastOf

\* One file more of another tree is a tree.
LEMMA FileWritten ==
  ASSUME R!Configurations, NEW old \in Trees, NEW new \in Trees, NEW p \in Paths
  PROVE  [old EXCEPT ![p] = new[p]] \in Trees
<1>1. PICK contents : Trees = [Paths -> contents]
  BY DEF R!Configurations
<1>2. QED BY <1>1

\* The write is asked for (ExecuteRestore).
LEMMA ExecuteKeeps == R!IInv /\ R!Execute => R!IInv'
<1> SUFFICES ASSUME R!IInv, R!Execute PROVE R!IInv'
  OBVIOUS
<1>0. LogInv /\ StateInv
  BY Parts
<1>1. r_pc = "idle" /\ r_reply = "prepared" /\ r_journal.stage = "safety_backup_verified" /\ r_dir
  BY <1>0 DEF R!Execute, StateInv, R!CallInv, RestoreCallTypeOK
<1>2. Quiet /\ UNCHANGED r_safety /\ r_left' = {} /\ r_reload' = FALSE
  BY DEF R!Execute, Quiet, R!nginxVars
<1>3. LogInv' /\ Kept
  BY <1>0, EvidenceRead DEF R!Execute
<1>4. \/ r_pc' = "idle" /\ r_reply' = "needs_attention" /\ r_durable' = r_durable
      \/ /\ r_pc' = "check" /\ r_reply' = "none" /\ r_durable' = r_journal.durable
         /\ R!Memory' = r_journal.stage
  BY DEF R!Execute, R!Uncertain, R!Return, R!Begin, R!Readable, R!Memory, R!LastOf
<1>5. RestoreRuntimeTypeOK' /\ RestoreCallTypeOK'
  BY ZenonT(60), <1>0, <1>2, <1>4
     DEF StateInv, LogInv, RestoreLogTypeOK, RestoreJournalRecord, RestoreRuntimeTypeOK,
         RestoreCallTypeOK, Quiet, R!ControlPoints, RestoreAnswers, R!TerminalStages
<1>6. R!CallInv' /\ R!JournalAtPc' /\ R!MemoryAtPc'
  BY <1>1, <1>2, <1>3, <1>4 DEF R!CallInv, R!JournalAtPc, R!MemoryAtPc, Quiet, Kept
<1>7. R!SavedInv' /\ R!FilesInv'
  BY <1>0, <1>1, <1>2, <1>3, <1>4 DEF StateInv, R!SavedInv, R!FilesInv, Kept, Quiet
<1>8. R!WorkersInv'
  BY <1>0, <1>1, <1>2, <1>3, <1>4 DEF StateInv, R!WorkersInv, R!Unreloaded, Kept, Quiet
<1>9. QED BY <1>3, <1>5, <1>6, <1>7, <1>8, Parts DEF StateInv

\* Target and source are checked once more, and the write is announced.
LEMMA CheckAgainKeeps == R!Configurations /\ R!IInv /\ R!CheckAgain => R!IInv'
<1> SUFFICES ASSUME R!Configurations, R!IInv, R!CheckAgain PROVE R!IInv'
  OBVIOUS
<1>0. LogInv /\ StateInv /\ r_durable \in BOOLEAN
  BY Parts DEF StateInv, RestoreCallTypeOK
<1>1. r_pc = "check" /\ r_journal.stage = "safety_backup_verified" /\ R!Memory = "safety_backup_verified"
  BY <1>0 DEF R!CheckAgain, StateInv, R!JournalAtPc, R!MemoryAtPc
<1>2. Quiet /\ UNCHANGED <<r_safety, r_reload, r_durable>>
  BY DEF R!CheckAgain, Quiet, R!nginxVars
<1>3. RestoreMayFollow(R!Memory, "files_restoring") /\ "files_restoring" \in R!StageNames
      /\ r_dir /\ R!SameDigest(r_files, Source) /\ r_reply = "none"
  BY <1>1, EarlyFacts, RestoreFollowers, RestoreStageNamesAre DEF R!Forward, R!Write
<1>4. CASE R!TryLog("failed") /\ R!Return("failed") /\ UNCHANGED r_left
  BY <1>1, <1>2, <1>3, <1>4, FailKeeps DEF R!Forward
<1>5. CASE ~(R!TryLog("failed") /\ R!Return("failed") /\ UNCHANGED r_left)
  <2>1. /\ LogInv' /\ r_left' \in {Paths, r_left}
        /\ \/ Recorded("files_restoring") /\ R!Memory' = "files_restoring" /\ r_pc' = "apply" /\ r_reply' = "none"
           \/ (Recorded("files_restoring") \/ Kept) /\ r_pc' = "idle" /\ r_reply' = "running"
    BY <1>0, <1>3, <1>5, LogDoes, LogErrorDoes DEF R!CheckAgain, R!Goto, R!Return
  <2>2. RestoreRuntimeTypeOK' /\ RestoreCallTypeOK'
    BY SMTT(30), <1>0, <1>2, <2>1 DEF StateInv, RestoreRuntimeTypeOK, RestoreCallTypeOK, Quiet,
       R!ControlPoints, RestoreAnswers
  <2>3. R!CallInv' /\ R!JournalAtPc' /\ R!MemoryAtPc'
    BY <1>2, <1>3, <2>1 DEF R!CallInv, R!JournalAtPc, R!MemoryAtPc, Quiet, Recorded
  <2>4. R!SavedInv' /\ R!FilesInv'
    BY <1>0, <1>1, <1>2, <2>1 DEF StateInv, R!SavedInv, R!FilesInv, Recorded, Kept, Quiet, R!Early,
       R!Undo
  <2>5. R!WorkersInv'
    BY <1>0, <1>1, <1>2, <2>1 DEF StateInv, R!WorkersInv, R!Unreloaded, Recorded, Kept, Quiet,
       R!Early, R!Undo
  <2>6. QED BY <2>1, <2>2, <2>3, <2>4, <2>5, Parts DEF StateInv
<1>6. QED BY <1>4, <1>5

\* A file of the target is written; the safety backup is there.
LEMMA WriteTargetKeeps == R!Configurations /\ R!IInv /\ R!WriteTarget => R!IInv'
<1> SUFFICES ASSUME R!Configurations, R!IInv, R!WriteTarget PROVE R!IInv'
  OBVIOUS
<1>0. LogInv /\ StateInv
  BY Parts
<1>1. r_pc = "apply" /\ r_journal.stage = "files_restoring" /\ R!Memory = "files_restoring"
      /\ r_dir /\ r_journal.saved /\ r_reply = "none"
  BY <1>0 DEF R!WriteTarget, R!ApplyFile, StateInv, R!JournalAtPc, R!MemoryAtPc, R!CallInv,
     RestoreCallTypeOK, R!SavedInv, R!Early
<1>2. UNCHANGED <<r_target, r_running, r_replaced, r_hup, r_master, r_dir, r_safety, r_durable>>
  BY DEF R!WriteTarget, R!ApplyFile, R!nginxVars
<1>3. LogInv' /\ Kept /\ R!Memory' = R!Memory
  BY <1>0, NotLogged DEF R!WriteTarget, R!ApplyFile
<1>4. /\ r_files' \in Trees /\ r_left' \subseteq Paths
      /\ \/ r_pc' = "apply" /\ r_reply' = "none" /\ r_reload' = r_reload
         \/ r_pc' = "rollback" /\ r_reply' = "none" /\ r_reload' = FALSE
  <2>1. r_target \in Trees /\ r_files \in Trees /\ r_left \subseteq Paths
    BY <1>0 DEF StateInv, RestoreRuntimeTypeOK, RestoreCallTypeOK, R!Configurations
  <2>2. QED BY <1>1, <2>1, FileWritten DEF R!WriteTarget, R!ApplyFile, R!StartRollback, R!Goto
<1>5. RestoreRuntimeTypeOK' /\ RestoreCallTypeOK'
  BY ZenonT(60), <1>0, <1>2, <1>4 DEF StateInv, RestoreRuntimeTypeOK, RestoreCallTypeOK, R!ControlPoints,
     RestoreAnswers
<1>6. R!CallInv' /\ R!JournalAtPc' /\ R!MemoryAtPc'
  BY <1>1, <1>2, <1>3, <1>4 DEF R!CallInv, R!JournalAtPc, R!MemoryAtPc, Kept, R!Forward, R!Write
<1>7. R!SavedInv' /\ R!FilesInv'
  BY <1>0, <1>1, <1>2, <1>3, <1>4 DEF StateInv, R!SavedInv, R!FilesInv, Kept, R!Early, R!Undo
<1>8. R!WorkersInv'
  BY <1>0, <1>1, <1>2, <1>3, <1>4 DEF StateInv, R!WorkersInv, R!Unreloaded, Kept, R!Early, R!Undo
<1>9. QED BY <1>3, <1>5, <1>6, <1>7, <1>8, Parts DEF StateInv

\* The last file is written.
LEMMA TargetWrittenKeeps == R!IInv /\ R!TargetWritten => R!IInv'
<1> SUFFICES ASSUME R!IInv, R!TargetWritten PROVE R!IInv'
  OBVIOUS
<1>0. LogInv /\ StateInv
  BY Parts
<1>1. r_pc = "apply" /\ r_journal.stage = "files_restoring" /\ R!Memory = "files_restoring"
      /\ r_dir /\ r_reply = "none"
  BY <1>0 DEF R!TargetWritten, StateInv, R!JournalAtPc, R!MemoryAtPc, R!CallInv, RestoreCallTypeOK
<1>2. Quiet /\ UNCHANGED <<r_safety, r_left>>
  BY DEF R!TargetWritten, Quiet, R!nginxVars
<1>3. LogInv' /\ Kept /\ R!Memory' = R!Memory
  BY <1>0, NotLogged DEF R!TargetWritten
<1>4. /\ r_durable' \in {TRUE, r_durable}
      /\ \/ r_pc' = "written" /\ r_reply' = "none" /\ r_reload' = r_reload
         \/ r_pc' = "rollback" /\ r_reply' = "none" /\ r_reload' = FALSE
  BY <1>1 DEF R!TargetWritten, R!StartRollback, R!Goto
<1>5. RestoreRuntimeTypeOK' /\ RestoreCallTypeOK'
  BY ZenonT(60), <1>0, <1>2, <1>4 DEF StateInv, RestoreRuntimeTypeOK, RestoreCallTypeOK, Quiet, R!ControlPoints,
     RestoreAnswers
<1>6. R!CallInv' /\ R!JournalAtPc' /\ R!MemoryAtPc'
  BY <1>1, <1>2, <1>3, <1>4 DEF R!CallInv, R!JournalAtPc, R!MemoryAtPc, Quiet, Kept, R!Forward, R!Write
<1>7. R!SavedInv' /\ R!FilesInv'
  BY <1>0, <1>1, <1>2, <1>3, <1>4 DEF StateInv, R!SavedInv, R!FilesInv, Kept, Quiet, R!Early, R!Undo
<1>8. R!WorkersInv'
  BY <1>0, <1>1, <1>2, <1>3, <1>4 DEF StateInv, R!WorkersInv, R!Unreloaded, Kept, Quiet, R!Early, R!Undo
<1>9. QED BY <1>3, <1>5, <1>6, <1>7, <1>8, Parts DEF StateInv

\* The written files are logged.
LEMMA LogWrittenKeeps == R!IInv /\ R!LogWritten => R!IInv'
<1> SUFFICES ASSUME R!IInv, R!LogWritten PROVE R!IInv'
  OBVIOUS
<1>0. LogInv /\ StateInv /\ r_durable \in BOOLEAN
  BY Parts DEF StateInv, RestoreCallTypeOK
<1>1. r_pc = "written" /\ r_journal.stage = "files_restoring" /\ R!Memory = "files_restoring"
      /\ r_reply = "none" /\ r_dir
  BY <1>0 DEF R!LogWritten, R!ExecuteStage, StateInv, R!JournalAtPc, R!MemoryAtPc, R!CallInv,
     RestoreCallTypeOK
<1>2. Quiet /\ UNCHANGED <<r_safety, r_left, r_durable>>
  BY DEF R!LogWritten, R!ExecuteStage, Quiet, R!nginxVars
<1>3. RestoreMayFollow(R!Memory, "files_restored") /\ "files_restored" \in R!StageNames
  BY <1>1, RestoreFollowers, RestoreStageNamesAre DEF R!Forward, R!Write
<1>4. /\ LogInv'
      /\ \/ Recorded("files_restored") /\ R!Memory' = "files_restored" /\ r_pc' = "test" /\ r_reload' = r_reload
         \/ /\ Recorded("files_restored") \/ Kept
            /\ R!Memory' = R!Memory /\ r_pc' = "rollback" /\ r_reload' = FALSE
      /\ r_reply' = "none"
  BY <1>0, <1>1, <1>3, LogDoes, LogErrorDoes, NotLogged DEF R!LogWritten, R!ExecuteStage,
     R!StartRollback, R!Goto
<1>5. RestoreRuntimeTypeOK' /\ RestoreCallTypeOK'
  BY ZenonT(60), <1>0, <1>2, <1>4 DEF StateInv, RestoreRuntimeTypeOK, RestoreCallTypeOK, Quiet, R!ControlPoints,
     RestoreAnswers
<1>6. R!CallInv' /\ R!JournalAtPc' /\ R!MemoryAtPc'
  BY <1>1, <1>2, <1>4 DEF R!CallInv, R!JournalAtPc, R!MemoryAtPc, Quiet, Recorded, Kept, R!Forward,
     R!Write, R!Undo
<1>7. R!SavedInv' /\ R!FilesInv'
  BY <1>0, <1>1, <1>2, <1>4 DEF StateInv, R!SavedInv, R!FilesInv, Recorded, Kept, Quiet, R!Early, R!Undo
<1>8. R!WorkersInv'
  BY <1>0, <1>1, <1>2, <1>4 DEF StateInv, R!WorkersInv, R!Unreloaded, Recorded, Kept, Quiet,
     R!Early, R!Undo
<1>9. QED BY <1>4, <1>5, <1>6, <1>7, <1>8, Parts DEF StateInv

\* "nginx -t" on the target.
LEMMA TestTargetKeeps == R!IInv /\ R!TestTarget => R!IInv'
<1> SUFFICES ASSUME R!IInv, R!TestTarget PROVE R!IInv'
  OBVIOUS
<1>0. LogInv /\ StateInv /\ r_durable \in BOOLEAN
  BY Parts DEF StateInv, RestoreCallTypeOK
<1>1. r_pc = "test" /\ r_journal.stage = "files_restored" /\ R!Memory = "files_restored"
      /\ r_reply = "none" /\ r_dir
  BY <1>0 DEF R!TestTarget, R!ExecuteStage, StateInv, R!JournalAtPc, R!MemoryAtPc, R!CallInv,
     RestoreCallTypeOK
<1>2. Quiet /\ UNCHANGED <<r_safety, r_left, r_durable>>
  BY DEF R!TestTarget, R!ExecuteStage, Quiet, R!nginxVars
<1>3. RestoreMayFollow(R!Memory, "production_validated") /\ "production_validated" \in R!StageNames
  BY <1>1, RestoreFollowers, RestoreStageNamesAre DEF R!Forward, R!Write
<1>4. /\ LogInv'
      /\ \/ /\ Recorded("production_validated") /\ R!Memory' = "production_validated" /\ r_pc' = "send"
            /\ r_reload' = r_reload /\ R!SameDigest(r_files, r_target)
         \/ /\ Recorded("production_validated") \/ Kept
            /\ R!Memory' = R!Memory /\ r_pc' = "rollback" /\ r_reload' = FALSE
      /\ r_reply' = "none"
  BY <1>0, <1>1, <1>3, LogDoes, LogErrorDoes, NotLogged DEF R!TestTarget, R!ExecuteStage,
     R!StartRollback, R!Goto
<1>5. RestoreRuntimeTypeOK' /\ RestoreCallTypeOK'
  BY ZenonT(60), <1>0, <1>2, <1>4 DEF StateInv, RestoreRuntimeTypeOK, RestoreCallTypeOK, Quiet, R!ControlPoints,
     RestoreAnswers
<1>6. R!CallInv' /\ R!JournalAtPc' /\ R!MemoryAtPc'
  BY <1>1, <1>2, <1>4 DEF R!CallInv, R!JournalAtPc, R!MemoryAtPc, Quiet, Recorded, Kept, R!Forward,
     R!Write, R!Undo
<1>7. R!SavedInv' /\ R!FilesInv'
  BY <1>0, <1>1, <1>2, <1>4 DEF StateInv, R!SavedInv, R!FilesInv, Recorded, Kept, Quiet, R!Early,
     R!Undo, R!SameDigest
<1>8. R!WorkersInv'
  BY <1>0, <1>1, <1>2, <1>4 DEF StateInv, R!WorkersInv, R!Unreloaded, Recorded, Kept, Quiet,
     R!Early, R!Undo
<1>9. QED BY <1>4, <1>5, <1>6, <1>7, <1>8, Parts DEF StateInv

\* The reload is requested.
LEMMA ReloadTargetKeeps == R!IInv /\ R!ReloadTarget => R!IInv'
<1> SUFFICES ASSUME R!IInv, R!ReloadTarget PROVE R!IInv'
  OBVIOUS
<1>0. LogInv /\ StateInv /\ r_durable \in BOOLEAN
  BY Parts DEF StateInv, RestoreCallTypeOK
<1>1. r_pc = "send" /\ r_journal.stage = "production_validated" /\ R!Memory = "production_validated"
      /\ r_reply = "none" /\ r_dir
  BY <1>0 DEF R!ReloadTarget, R!SendReload, StateInv, R!JournalAtPc, R!MemoryAtPc, R!CallInv,
     RestoreCallTypeOK
<1>2. UNCHANGED <<r_target, r_files, r_running, r_replaced, r_master, r_dir, r_safety, r_left, r_durable>>
  BY DEF R!ReloadTarget, R!SendReload
<1>3. RestoreMayFollow(R!Memory, "reload_requested") /\ "reload_requested" \in R!StageNames
  BY <1>1, RestoreFollowers, RestoreStageNamesAre DEF R!Forward, R!Write
<1>4. /\ LogInv' /\ r_hup' \in BOOLEAN
      /\ \/ Kept /\ R!Memory' = R!Memory /\ r_pc' = "sent" /\ r_reload' = r_reload
         \/ /\ \/ Recorded("reload_requested") /\ R!Memory' = "reload_requested"
               \/ (Recorded("reload_requested") \/ Kept) /\ R!Memory' = R!Memory
            /\ r_pc' = "rollback" /\ r_reload' = TRUE
      /\ r_reply' = "none"
  BY <1>0, <1>1, <1>3, LogDoes, LogErrorDoes, NotLogged
     DEF R!ReloadTarget, R!SendReload, R!TryLog, R!StartRollback, R!Goto, StateInv,
         RestoreRuntimeTypeOK, R!logVars
<1>5. RestoreRuntimeTypeOK' /\ RestoreCallTypeOK'
  BY ZenonT(60), <1>0, <1>2, <1>4 DEF StateInv, RestoreRuntimeTypeOK, RestoreCallTypeOK, R!ControlPoints,
     RestoreAnswers
<1>6. R!CallInv' /\ R!JournalAtPc' /\ R!MemoryAtPc'
  BY <1>1, <1>2, <1>4 DEF R!CallInv, R!JournalAtPc, R!MemoryAtPc, Recorded, Kept, R!Forward,
     R!Write, R!Undo
<1>7. R!SavedInv' /\ R!FilesInv'
  BY <1>0, <1>1, <1>2, <1>4 DEF StateInv, R!SavedInv, R!FilesInv, Recorded, Kept, R!Early, R!Undo,
     R!SameDigest
<1>8. R!WorkersInv'
  BY <1>0, <1>1, <1>2, <1>4 DEF StateInv, R!WorkersInv, R!Unreloaded, Recorded, Kept, R!Early, R!Undo
<1>9. QED BY <1>4, <1>5, <1>6, <1>7, <1>8, Parts DEF StateInv

\* The request is logged.
LEMMA LogReloadKeeps == R!IInv /\ R!LogReload => R!IInv'
<1> SUFFICES ASSUME R!IInv, R!LogReload PROVE R!IInv'
  OBVIOUS
<1>0. LogInv /\ StateInv /\ r_durable \in BOOLEAN
  BY Parts DEF StateInv, RestoreCallTypeOK
<1>1. r_pc = "sent" /\ r_journal.stage = "production_validated" /\ R!Memory = "production_validated"
      /\ r_reply = "none" /\ r_dir
  BY <1>0 DEF R!LogReload, StateInv, R!JournalAtPc, R!MemoryAtPc, R!CallInv, RestoreCallTypeOK
<1>2. Quiet /\ UNCHANGED <<r_safety, r_left, r_durable>>
  BY DEF R!LogReload, Quiet, R!nginxVars
<1>3. RestoreMayFollow(R!Memory, "reload_requested") /\ "reload_requested" \in R!StageNames
  BY <1>1, RestoreFollowers, RestoreStageNamesAre DEF R!Forward, R!Write
<1>4. /\ LogInv'
      /\ \/ Recorded("reload_requested") /\ R!Memory' = "reload_requested" /\ r_pc' = "confirm" /\ r_reload' = r_reload
         \/ (Recorded("reload_requested") \/ Kept) /\ R!Memory' = R!Memory /\ r_pc' = "rollback" /\ r_reload' = TRUE
      /\ r_reply' = "none"
  BY <1>0, <1>1, <1>3, LogDoes, LogErrorDoes DEF R!LogReload, R!StartRollback, R!Goto
<1>5. RestoreRuntimeTypeOK' /\ RestoreCallTypeOK'
  BY ZenonT(60), <1>0, <1>2, <1>4 DEF StateInv, RestoreRuntimeTypeOK, RestoreCallTypeOK, Quiet, R!ControlPoints,
     RestoreAnswers
<1>6. R!CallInv' /\ R!JournalAtPc' /\ R!MemoryAtPc'
  BY <1>1, <1>2, <1>4 DEF R!CallInv, R!JournalAtPc, R!MemoryAtPc, Quiet, Recorded, Kept, R!Forward,
     R!Write, R!Undo
<1>7. R!SavedInv' /\ R!FilesInv'
  BY <1>0, <1>1, <1>2, <1>4 DEF StateInv, R!SavedInv, R!FilesInv, Recorded, Kept, Quiet, R!Early,
     R!Undo, R!SameDigest
<1>8. R!WorkersInv'
  BY <1>0, <1>1, <1>2, <1>4 DEF StateInv, R!WorkersInv, R!Unreloaded, Recorded, Kept, Quiet,
     R!Early, R!Undo
<1>9. QED BY <1>4, <1>5, <1>6, <1>7, <1>8, Parts DEF StateInv

\* The new workers are confirmed (confirmRestoreRuntime).
LEMMA RestoreConfirmKeeps == R!IInv /\ R!Confirm => R!IInv'
<1> SUFFICES ASSUME R!IInv, R!Confirm PROVE R!IInv'
  OBVIOUS
<1>0. LogInv /\ StateInv /\ r_durable \in BOOLEAN
  BY Parts DEF StateInv, RestoreCallTypeOK
<1>1. r_pc = "confirm" /\ r_journal.stage = "reload_requested" /\ R!Memory = "reload_requested"
      /\ r_reply = "none" /\ r_dir
  BY <1>0 DEF R!Confirm, R!ExecuteStage, StateInv, R!JournalAtPc, R!MemoryAtPc, R!CallInv,
     RestoreCallTypeOK
<1>2. Quiet /\ UNCHANGED <<r_safety, r_left, r_durable>>
  BY DEF R!Confirm, R!ExecuteStage, Quiet, R!nginxVars
<1>3. RestoreMayFollow(R!Memory, "runtime_confirmed") /\ "runtime_confirmed" \in R!StageNames
  BY <1>1, RestoreFollowers, RestoreStageNamesAre DEF R!Forward, R!Write
<1>4. /\ LogInv'
      /\ \/ /\ Recorded("runtime_confirmed") /\ R!Memory' = "runtime_confirmed" /\ r_pc' = "succeed"
            /\ r_reload' = r_reload /\ r_master = "known" /\ r_replaced
         \/ /\ Recorded("runtime_confirmed") \/ Kept
            /\ R!Memory' = R!Memory /\ r_pc' = "rollback" /\ r_reload' = TRUE
      /\ r_reply' = "none"
  BY <1>0, <1>1, <1>3, LogDoes, LogErrorDoes, NotLogged DEF R!Confirm, R!Confirmed, R!ExecuteStage,
     R!StartRollback, R!Goto
<1>5. RestoreRuntimeTypeOK' /\ RestoreCallTypeOK'
  BY ZenonT(60), <1>0, <1>2, <1>4 DEF StateInv, RestoreRuntimeTypeOK, RestoreCallTypeOK, Quiet, R!ControlPoints,
     RestoreAnswers
<1>6. R!CallInv' /\ R!JournalAtPc' /\ R!MemoryAtPc'
  BY <1>1, <1>2, <1>4 DEF R!CallInv, R!JournalAtPc, R!MemoryAtPc, Quiet, Recorded, Kept, R!Forward,
     R!Write, R!Undo
<1>7. R!SavedInv' /\ R!FilesInv'
  BY <1>0, <1>1, <1>2, <1>4 DEF StateInv, R!SavedInv, R!FilesInv, Recorded, Kept, Quiet, R!Early,
     R!Undo, R!SameDigest
<1>8. R!WorkersInv'
  BY <1>0, <1>1, <1>2, <1>4
     DEF StateInv, R!FilesInv, R!WorkersInv, R!Unreloaded, Recorded, Kept, Quiet, R!Early, R!Undo,
         R!SameDigest
<1>9. QED BY <1>4, <1>5, <1>6, <1>7, <1>8, Parts DEF StateInv

\* The restore succeeds.
LEMMA SucceedKeeps == R!IInv /\ R!Succeed => R!IInv'
<1> SUFFICES ASSUME R!IInv, R!Succeed PROVE R!IInv'
  OBVIOUS
<1>0. LogInv /\ StateInv /\ r_durable \in BOOLEAN
  BY Parts DEF StateInv, RestoreCallTypeOK
<1>1. r_pc = "succeed" /\ r_journal.stage = "runtime_confirmed" /\ R!Memory = "runtime_confirmed"
      /\ r_reply = "none" /\ r_dir
  BY <1>0 DEF R!Succeed, StateInv, R!JournalAtPc, R!MemoryAtPc, R!CallInv, RestoreCallTypeOK
<1>2. Quiet /\ UNCHANGED <<r_safety, r_left, r_durable>>
  BY DEF R!Succeed, Quiet, R!nginxVars
<1>3. RestoreMayFollow(R!Memory, "succeeded") /\ "succeeded" \in R!StageNames
  BY <1>1, RestoreFollowers, RestoreStageNamesAre DEF R!Forward, R!Write, R!TerminalStages
<1>4. /\ LogInv'
      /\ \/ /\ Recorded("succeeded") /\ R!LastOf(r_events)' = "succeeded" /\ r_pc' = "idle" /\ r_reply' = "succeeded"
            /\ r_reload' = r_reload
         \/ /\ Recorded("succeeded") \/ Kept
            /\ R!Memory' = R!Memory /\ r_pc' = "rollback" /\ r_reload' = TRUE /\ r_reply' = "none"
  BY <1>0, <1>1, <1>3, LogDoes, LogErrorDoes DEF R!Succeed, R!StartRollback, R!Goto, R!Return
<1>5. RestoreRuntimeTypeOK' /\ RestoreCallTypeOK'
  BY ZenonT(60), <1>0, <1>2, <1>4 DEF StateInv, RestoreRuntimeTypeOK, RestoreCallTypeOK, Quiet, R!ControlPoints,
     RestoreAnswers, R!TerminalStages
<1>6. R!CallInv' /\ R!JournalAtPc' /\ R!MemoryAtPc'
  BY <1>1, <1>2, <1>4 DEF R!CallInv, R!JournalAtPc, R!MemoryAtPc, Quiet, Recorded, Kept, R!Forward,
     R!Write, R!Undo
<1>7. R!SavedInv' /\ R!FilesInv'
  BY <1>0, <1>1, <1>2, <1>4 DEF StateInv, R!SavedInv, R!FilesInv, Recorded, Kept, Quiet, R!Early,
     R!Undo, R!SameDigest
<1>8. R!WorkersInv'
  BY <1>0, <1>1, <1>2, <1>4 DEF StateInv, R!WorkersInv, R!Unreloaded, Recorded, Kept, Quiet,
     R!Early, R!Undo, R!SameDigest
<1>9. QED BY <1>4, <1>5, <1>6, <1>7, <1>8, Parts DEF StateInv

\* Every step of the write.
LEMMA ExecuteStepKeeps == R!Configurations /\ R!IInv /\ R!ExecuteStep => R!IInv'
  BY CheckAgainKeeps, WriteTargetKeeps, TargetWrittenKeeps, LogWrittenKeeps, TestTargetKeeps,
     ReloadTargetKeeps, LogReloadKeeps, RestoreConfirmKeeps, SucceedKeeps
     DEF R!ExecuteStep

-------------------------------------------------------------------------------
(* The steps of a rollback. *)

\* What the memory has reached of a rollback.
LEMMA ReachedIs ==
  ASSUME R!Memory \in R!Forward \cup R!Undo
  PROVE  /\ R!Reached("rollback_applying") <=> R!Memory \in R!Undo
         /\ R!Reached("rollback_files_restored") <=> R!Memory \in R!Undo \ {"rollback_applying"}
         /\ R!Reached("rollback_validated") <=> R!Memory \in {"rollback_validated", "rollback_reload_requested"}
         /\ R!Reached("rollback_reload_requested") <=> R!Memory = "rollback_reload_requested"
<1>1. r_stages # <<>> /\ R!Memory = r_stages[Len(r_stages)]
  BY DEF R!Memory, R!LastOf, R!Forward, R!Write, R!Undo
<1>2. R!Memory \in R!Forward => R!StageOrder(R!Memory) <= 9
  BY StageOrders DEF R!Forward, R!Write
<1>3. QED BY <1>1, <1>2, StageOrders DEF R!Reached, R!Forward, R!Write, R!Undo

\* A rollback begins, or goes on after what was logged of an earlier one (rollbackRestore).
LEMMA RollbackKeeps == R!IInv /\ R!Rollback => R!IInv'
<1> SUFFICES ASSUME R!IInv, R!Rollback PROVE R!IInv'
  OBVIOUS
<1>0. LogInv /\ StateInv /\ r_durable \in BOOLEAN
  BY Parts DEF StateInv, RestoreCallTypeOK
<1>1. /\ r_pc = "rollback" /\ r_journal.stage \in R!Forward \cup R!Undo \cup {"succeeded"}
      /\ R!Memory \in R!Forward \cup R!Undo /\ (R!Memory \in R!Undo => R!Memory = r_journal.stage)
      /\ (R!Memory \in R!Forward => r_journal.stage \notin R!Undo) /\ r_reply = "none" /\ r_dir
  BY <1>0 DEF R!Rollback, StateInv, R!JournalAtPc, R!MemoryAtPc, R!CallInv, RestoreCallTypeOK,
     R!Forward, R!Write, R!Undo
<1>2. Quiet /\ UNCHANGED <<r_safety, r_reload, r_durable>> /\ r_left' \in {r_left, Paths}
  BY DEF R!Rollback, Quiet, R!nginxVars, R!NeedsAttention
<1>3. "rollback_applying" \in R!StageNames
      /\ (R!Memory \in R!Forward => RestoreMayFollow(R!Memory, "rollback_applying"))
  BY <1>1, RestoreFollowers, RestoreStageNamesAre DEF R!Undo
<1>4. /\ LogInv' /\ r_reply' = "none"
      /\ \/ /\ R!Memory \in R!Undo /\ Kept /\ R!Memory' = R!Memory
            /\ \/ r_pc' = "attention"
               \/ r_pc' = "rollback_test" /\ R!Memory # "rollback_applying"
               \/ r_pc' = "restore" /\ R!Memory = "rollback_applying"
         \/ /\ R!Memory \in R!Forward /\ Recorded("rollback_applying") /\ R!Memory' = "rollback_applying"
            /\ r_pc' \in {"attention", "restore"}
         \/ /\ Recorded("rollback_applying") \/ Kept
            /\ R!Memory \in R!Forward /\ R!Memory' = R!Memory /\ r_pc' = "attention"
  <2>1. CASE R!Memory \in R!Undo
    <3>1. R!Reached("rollback_applying") /\ (R!Reached("rollback_files_restored") <=> R!Memory # "rollback_applying")
      BY <1>1, <2>1, ReachedIs
    <3>2. UNCHANGED R!logVars
      BY <3>1 DEF R!Rollback
    <3>3. LogInv' /\ Kept /\ R!Memory' = R!Memory
      BY <1>0, <3>2, NotLogged
    <3>4. QED BY <1>1, <2>1, <3>1, <3>3 DEF R!Rollback, R!NeedsAttention, R!Goto
  <2>2. CASE R!Memory \in R!Forward
    <3>1. ~R!Reached("rollback_applying") /\ ~R!Reached("rollback_files_restored")
      BY <1>1, <2>2, ReachedIs DEF R!Forward, R!Write, R!Undo
    <3>2. \/ R!Log("rollback_applying") /\ r_pc' \in {"attention", "restore"} /\ r_reply' = r_reply
          \/ R!LogError("rollback_applying") /\ r_pc' = "attention" /\ r_reply' = r_reply
      BY <3>1 DEF R!Rollback, R!NeedsAttention, R!Goto
    <3>3. QED BY <1>0, <1>1, <1>3, <2>2, <3>2, LogDoes, LogErrorDoes
  <2>3. QED BY <1>1, <2>1, <2>2
<1>5. RestoreRuntimeTypeOK' /\ RestoreCallTypeOK'
  BY SMTT(30), <1>0, <1>2, <1>4 DEF StateInv, RestoreRuntimeTypeOK, RestoreCallTypeOK, Quiet, R!ControlPoints,
     RestoreAnswers
<1>6. R!CallInv' /\ R!JournalAtPc' /\ R!MemoryAtPc'
  BY <1>1, <1>2, <1>4 DEF R!CallInv, R!JournalAtPc, R!MemoryAtPc, Quiet, Recorded, Kept, R!Forward,
     R!Write, R!Undo
<1>7. R!SavedInv' /\ R!FilesInv'
  BY <1>0, <1>1, <1>2, <1>4 DEF StateInv, R!SavedInv, R!FilesInv, Recorded, Kept, Quiet, R!Early,
     R!Undo, R!Forward, R!Write, R!SameDigest
<1>8. R!WorkersInv'
  BY <1>0, <1>1, <1>2, <1>4
     DEF StateInv, R!WorkersInv, R!Unreloaded, Recorded, Kept, Quiet, R!Early, R!Undo, R!SameDigest
<1>9. QED BY <1>4, <1>5, <1>6, <1>7, <1>8, Parts DEF StateInv

\* A file of the safety backup is put back.
LEMMA WriteSafetyKeeps == R!Configurations /\ R!IInv /\ R!WriteSafety => R!IInv'
<1> SUFFICES ASSUME R!Configurations, R!IInv, R!WriteSafety PROVE R!IInv'
  OBVIOUS
<1>0. LogInv /\ StateInv
  BY Parts
<1>1. r_pc = "restore" /\ r_journal.stage = "rollback_applying" /\ R!Memory = "rollback_applying"
      /\ r_dir /\ r_journal.saved /\ r_safety = Source /\ r_reply = "none"
  BY <1>0
     DEF R!WriteSafety, R!ApplyFile, StateInv, R!JournalAtPc, R!MemoryAtPc, R!CallInv,
         RestoreCallTypeOK, R!SavedInv, R!Early
<1>2. UNCHANGED <<r_target, r_running, r_replaced, r_hup, r_master, r_dir, r_safety, r_durable>>
  BY DEF R!WriteSafety, R!ApplyFile, R!nginxVars
<1>3. LogInv' /\ Kept /\ R!Memory' = R!Memory
  BY <1>0, NotLogged DEF R!WriteSafety, R!ApplyFile
<1>4. /\ r_files' \in Trees /\ r_left' \subseteq Paths /\ r_reload' = r_reload
      /\ r_pc' \in {"restore", "attention"} /\ r_reply' = "none"
  <2>1. r_safety \in Trees /\ r_files \in Trees /\ r_left \subseteq Paths
    BY <1>0, <1>1 DEF StateInv, RestoreRuntimeTypeOK, RestoreCallTypeOK, R!Configurations
  <2>2. QED BY <1>1, <2>1, FileWritten DEF R!WriteSafety, R!ApplyFile, R!NeedsAttention, R!Goto
<1>5. RestoreRuntimeTypeOK' /\ RestoreCallTypeOK'
  BY SMTT(30), <1>0, <1>2, <1>4 DEF StateInv, RestoreRuntimeTypeOK, RestoreCallTypeOK, R!ControlPoints,
     RestoreAnswers
<1>6. R!CallInv' /\ R!JournalAtPc' /\ R!MemoryAtPc'
  BY <1>1, <1>2, <1>3, <1>4 DEF R!CallInv, R!JournalAtPc, R!MemoryAtPc, Kept, R!Undo
<1>7. R!SavedInv' /\ R!FilesInv'
  BY <1>0, <1>1, <1>2, <1>3, <1>4 DEF StateInv, R!SavedInv, R!FilesInv, Kept, R!Early, R!Undo
<1>8. R!WorkersInv'
  BY <1>0, <1>1, <1>2, <1>3, <1>4 DEF StateInv, R!WorkersInv, R!Unreloaded, Kept, R!Early, R!Undo
<1>9. QED BY <1>3, <1>5, <1>6, <1>7, <1>8, Parts DEF StateInv

\* All files are back.
LEMMA SafetyWrittenKeeps == R!IInv /\ R!SafetyWritten => R!IInv'
<1> SUFFICES ASSUME R!IInv, R!SafetyWritten PROVE R!IInv'
  OBVIOUS
<1>0. LogInv /\ StateInv /\ r_durable \in BOOLEAN
  BY Parts DEF StateInv, RestoreCallTypeOK
<1>1. r_pc = "restore" /\ r_journal.stage = "rollback_applying" /\ R!Memory = "rollback_applying"
      /\ r_dir /\ r_journal.saved /\ r_safety = Source /\ r_reply = "none"
  BY <1>0
     DEF R!SafetyWritten, R!RollbackStage, StateInv, R!JournalAtPc, R!MemoryAtPc, R!CallInv,
         RestoreCallTypeOK, R!SavedInv, R!Early
<1>2. Quiet /\ UNCHANGED <<r_safety, r_left, r_reload, r_durable>>
  BY DEF R!SafetyWritten, R!RollbackStage, Quiet, R!nginxVars
<1>3. RestoreMayFollow(R!Memory, "rollback_files_restored") /\ "rollback_files_restored" \in R!StageNames
      /\ ~R!Reached("rollback_files_restored")
  BY <1>1, RestoreFollowers, RestoreStageNamesAre, ReachedIs DEF R!Undo
<1>4. /\ LogInv' /\ r_reply' = "none"
      /\ \/ /\ Recorded("rollback_files_restored") /\ R!Memory' = "rollback_files_restored"
            /\ r_pc' = "rollback_test" /\ r_files = Source
         \/ /\ (Recorded("rollback_files_restored") /\ r_files = Source) \/ Kept
            /\ R!Memory' = R!Memory /\ r_pc' = "attention"
  BY <1>0, <1>1, <1>3, LogDoes, LogErrorDoes, NotLogged DEF R!SafetyWritten, R!RollbackStage,
     R!NeedsAttention, R!Goto
<1>5. RestoreRuntimeTypeOK' /\ RestoreCallTypeOK'
  BY SMTT(30), <1>0, <1>2, <1>4 DEF StateInv, RestoreRuntimeTypeOK, RestoreCallTypeOK, Quiet, R!ControlPoints,
     RestoreAnswers
<1>6. R!CallInv' /\ R!JournalAtPc' /\ R!MemoryAtPc'
  BY <1>1, <1>2, <1>4 DEF R!CallInv, R!JournalAtPc, R!MemoryAtPc, Quiet, Recorded, Kept, R!Undo
<1>7. R!SavedInv' /\ R!FilesInv'
  BY <1>0, <1>1, <1>2, <1>4 DEF StateInv, R!SavedInv, R!FilesInv, Recorded, Kept, Quiet, R!Early, R!Undo
<1>8. R!WorkersInv'
  BY <1>0, <1>1, <1>2, <1>4 DEF StateInv, R!WorkersInv, R!Unreloaded, Recorded, Kept, Quiet,
     R!Early, R!Undo
<1>9. QED BY <1>4, <1>5, <1>6, <1>7, <1>8, Parts DEF StateInv

\* "nginx -t" on what was put back.
LEMMA TestSafetyKeeps == R!IInv /\ R!TestSafety => R!IInv'
<1> SUFFICES ASSUME R!IInv, R!TestSafety PROVE R!IInv'
  OBVIOUS
<1>0. LogInv /\ StateInv /\ r_durable \in BOOLEAN
  BY Parts DEF StateInv, RestoreCallTypeOK
<1>1. r_pc = "rollback_test" /\ r_journal.stage \in R!Undo \ {"rollback_applying"}
      /\ R!Memory = r_journal.stage
      /\ r_dir /\ r_files = Source /\ r_reply = "none"
  BY <1>0 DEF R!TestSafety, R!RollbackStage, StateInv, R!JournalAtPc, R!MemoryAtPc, R!CallInv,
     RestoreCallTypeOK, R!FilesInv
<1>2. Quiet /\ UNCHANGED <<r_safety, r_left, r_reload, r_durable>>
  BY DEF R!TestSafety, R!RollbackStage, Quiet, R!nginxVars
<1>3. /\ "rollback_validated" \in R!StageNames
      /\ R!Reached("rollback_validated") => R!Memory \in {"rollback_validated", "rollback_reload_requested"}
      /\ ~R!Reached("rollback_validated") => RestoreMayFollow(R!Memory, "rollback_validated")
  BY <1>1, RestoreFollowers, RestoreStageNamesAre, ReachedIs DEF R!Undo
<1>4. /\ LogInv' /\ r_reply' = "none"
      /\ \/ /\ R!Memory \in {"rollback_validated", "rollback_reload_requested"} /\ Kept
            /\ R!Memory' = R!Memory /\ r_pc' = "rollback_send"
         \/ /\ Recorded("rollback_validated") /\ R!Memory' = "rollback_validated"
            /\ r_pc' = "rollback_send" /\ Source \in Valid
         \/ /\ (Recorded("rollback_validated") /\ Source \in Valid) \/ Kept
            /\ R!Memory' = R!Memory /\ r_pc' = "attention"
  BY <1>0, <1>1, <1>3, LogDoes, LogErrorDoes, NotLogged DEF R!TestSafety, R!RollbackStage,
     R!NeedsAttention, R!Goto
<1>5. RestoreRuntimeTypeOK' /\ RestoreCallTypeOK'
  BY SMTT(30), <1>0, <1>2, <1>4 DEF StateInv, RestoreRuntimeTypeOK, RestoreCallTypeOK, Quiet, R!ControlPoints,
     RestoreAnswers
<1>6. R!CallInv' /\ R!JournalAtPc' /\ R!MemoryAtPc'
  BY <1>1, <1>2, <1>4 DEF R!CallInv, R!JournalAtPc, R!MemoryAtPc, Quiet, Recorded, Kept, R!Undo
<1>7. R!SavedInv' /\ R!FilesInv'
  BY <1>0, <1>1, <1>2, <1>4 DEF StateInv, R!SavedInv, R!FilesInv, Recorded, Kept, Quiet, R!Early, R!Undo
<1>8. R!WorkersInv'
  BY <1>0, <1>1, <1>2, <1>4 DEF StateInv, R!WorkersInv, R!Unreloaded, Recorded, Kept, Quiet,
     R!Early, R!Undo
<1>9. QED BY <1>4, <1>5, <1>6, <1>7, <1>8, Parts DEF StateInv

\* A reload is requested if the workers may have changed.
LEMMA ReloadSafetyKeeps == R!IInv /\ R!ReloadSafety => R!IInv'
<1> SUFFICES ASSUME R!IInv, R!ReloadSafety PROVE R!IInv'
  OBVIOUS
<1>0. LogInv /\ StateInv
  BY Parts
<1>1. r_pc = "rollback_send" /\ r_journal.stage \in {"rollback_validated", "rollback_reload_requested"}
      /\ R!Memory = r_journal.stage /\ r_dir /\ r_reply = "none"
  BY <1>0 DEF R!ReloadSafety, R!SendReload, StateInv, R!JournalAtPc, R!MemoryAtPc, R!CallInv,
     RestoreCallTypeOK
<1>2. UNCHANGED <<r_target, r_files, r_running, r_replaced, r_master, r_dir, r_safety, r_left, r_durable>>
  BY DEF R!ReloadSafety, R!SendReload, R!nginxVars
<1>3. LogInv' /\ Kept /\ R!Memory' = R!Memory
  BY <1>0, NotLogged DEF R!ReloadSafety, R!SendReload
<1>4. R!Reached("rollback_reload_requested") <=> r_journal.stage = "rollback_reload_requested"
  BY <1>1, ReachedIs DEF R!Undo
<1>5. /\ r_reply' = "none" /\ r_reload' = r_reload /\ r_hup' \in BOOLEAN
      /\ \/ /\ r_pc' = "rollback_sent" /\ r_reload /\ r_hup' /\ r_journal.stage = "rollback_validated"
         \/ r_pc' = "attention" /\ r_journal.stage = "rollback_validated"
         \/ r_pc' = "rollback_confirm" /\ r_hup' = r_hup /\ (~r_reload \/ r_journal.stage = "rollback_reload_requested")
  BY <1>0, <1>1, <1>4
     DEF R!ReloadSafety, R!SendReload, R!NeedsAttention, R!Goto, R!nginxVars, StateInv,
         RestoreRuntimeTypeOK
<1>6. RestoreRuntimeTypeOK' /\ RestoreCallTypeOK'
  BY SMTT(30), <1>0, <1>2, <1>5 DEF StateInv, RestoreRuntimeTypeOK, RestoreCallTypeOK, R!ControlPoints,
     RestoreAnswers
<1>7. R!CallInv' /\ R!JournalAtPc' /\ R!MemoryAtPc'
  BY <1>1, <1>2, <1>3, <1>5 DEF R!CallInv, R!JournalAtPc, R!MemoryAtPc, Kept, R!Undo
<1>8. R!SavedInv' /\ R!FilesInv'
  BY <1>0, <1>1, <1>2, <1>3, <1>5 DEF StateInv, R!SavedInv, R!FilesInv, Kept, R!Early, R!Undo
<1>9. R!WorkersInv'
  BY <1>0, <1>1, <1>2, <1>3, <1>5 DEF StateInv, R!WorkersInv, R!Unreloaded, Kept, R!Early, R!Undo
<1>10. QED BY <1>3, <1>6, <1>7, <1>8, <1>9, Parts DEF StateInv

\* That request is logged.
LEMMA LogRollbackReloadKeeps == R!IInv /\ R!LogRollbackReload => R!IInv'
<1> SUFFICES ASSUME R!IInv, R!LogRollbackReload PROVE R!IInv'
  OBVIOUS
<1>0. LogInv /\ StateInv /\ r_durable \in BOOLEAN
  BY Parts DEF StateInv, RestoreCallTypeOK
<1>1. r_pc = "rollback_sent" /\ r_journal.stage = "rollback_validated" /\ R!Memory = "rollback_validated"
      /\ r_dir /\ r_reply = "none"
  BY <1>0 DEF R!LogRollbackReload, StateInv, R!JournalAtPc, R!MemoryAtPc, R!CallInv, RestoreCallTypeOK
<1>2. Quiet /\ UNCHANGED <<r_safety, r_left, r_reload, r_durable>>
  BY DEF R!LogRollbackReload, Quiet, R!nginxVars
<1>3. RestoreMayFollow(R!Memory, "rollback_reload_requested")
      /\ "rollback_reload_requested" \in R!StageNames
  BY <1>1, RestoreFollowers, RestoreStageNamesAre DEF R!Undo
<1>4. /\ LogInv' /\ r_reply' = "none"
      /\ \/ /\ Recorded("rollback_reload_requested") /\ R!Memory' = "rollback_reload_requested"
            /\ r_pc' = "rollback_confirm"
         \/ (Recorded("rollback_reload_requested") \/ Kept) /\ R!Memory' = R!Memory /\ r_pc' = "attention"
  BY <1>0, <1>1, <1>3, LogDoes, LogErrorDoes DEF R!LogRollbackReload, R!NeedsAttention, R!Goto
<1>5. RestoreRuntimeTypeOK' /\ RestoreCallTypeOK'
  BY SMTT(30), <1>0, <1>2, <1>4 DEF StateInv, RestoreRuntimeTypeOK, RestoreCallTypeOK, Quiet, R!ControlPoints,
     RestoreAnswers
<1>6. R!CallInv' /\ R!JournalAtPc' /\ R!MemoryAtPc'
  BY <1>1, <1>2, <1>4 DEF R!CallInv, R!JournalAtPc, R!MemoryAtPc, Quiet, Recorded, Kept, R!Undo
<1>7. R!SavedInv' /\ R!FilesInv'
  BY <1>0, <1>1, <1>2, <1>4 DEF StateInv, R!SavedInv, R!FilesInv, Recorded, Kept, Quiet, R!Early, R!Undo
<1>8. R!WorkersInv'
  BY <1>0, <1>1, <1>2, <1>4 DEF StateInv, R!WorkersInv, R!Unreloaded, Recorded, Kept, Quiet,
     R!Early, R!Undo
<1>9. QED BY <1>4, <1>5, <1>6, <1>7, <1>8, Parts DEF StateInv

\* The old configuration is confirmed in the workers.
LEMMA RollbackConfirmKeeps == R!IInv /\ R!RollbackConfirm => R!IInv'
<1> SUFFICES ASSUME R!IInv, R!RollbackConfirm PROVE R!IInv'
  OBVIOUS
<1>0. LogInv /\ StateInv /\ r_durable \in BOOLEAN
  BY Parts DEF StateInv, RestoreCallTypeOK
<1>1. r_pc = "rollback_confirm" /\ r_journal.stage \in {"rollback_validated", "rollback_reload_requested"}
      /\ R!Memory = r_journal.stage /\ r_dir /\ r_files = Source /\ r_reply = "none"
  BY <1>0 DEF R!RollbackConfirm, StateInv, R!JournalAtPc, R!MemoryAtPc, R!CallInv,
     RestoreCallTypeOK, R!FilesInv, R!Undo
<1>2. Quiet /\ UNCHANGED <<r_safety, r_left, r_reload, r_durable>>
  BY DEF R!RollbackConfirm, Quiet, R!nginxVars
<1>3. RestoreMayFollow(R!Memory, "rolled_back") /\ "rolled_back" \in R!StageNames
  BY <1>1, RestoreFollowers, RestoreStageNamesAre DEF R!Undo, R!TerminalStages
<1>4. /\ LogInv'
      /\ \/ /\ Recorded("rolled_back") /\ R!LastOf(r_events)' = "rolled_back"
            /\ r_pc' = "idle" /\ r_reply' = "rolled_back"
         \/ (Recorded("rolled_back") \/ Kept) /\ R!Memory' = R!Memory /\ r_pc' = "attention" /\ r_reply' = "none"
  BY <1>0, <1>1, <1>3, LogDoes, LogErrorDoes, NotLogged DEF R!RollbackConfirm, R!NeedsAttention,
     R!Goto, R!Return
<1>5. RestoreRuntimeTypeOK' /\ RestoreCallTypeOK'
  BY SMTT(30), <1>0, <1>2, <1>4 DEF StateInv, RestoreRuntimeTypeOK, RestoreCallTypeOK, Quiet, R!ControlPoints,
     RestoreAnswers, R!TerminalStages
<1>6. R!CallInv' /\ R!JournalAtPc' /\ R!MemoryAtPc'
  BY <1>1, <1>2, <1>4 DEF R!CallInv, R!JournalAtPc, R!MemoryAtPc, Quiet, Recorded, Kept, R!Undo
<1>7. R!SavedInv' /\ R!FilesInv'
  BY <1>0, <1>1, <1>2, <1>4 DEF StateInv, R!SavedInv, R!FilesInv, Recorded, Kept, Quiet, R!Early, R!Undo
<1>8. R!WorkersInv'
  BY <1>0, <1>1, <1>2, <1>4 DEF StateInv, R!WorkersInv, R!Unreloaded, Recorded, Kept, Quiet,
     R!Early, R!Undo
<1>9. QED BY <1>4, <1>5, <1>6, <1>7, <1>8, Parts DEF StateInv

\* The restore is left for somebody to look at.
LEMMA AttendKeeps == R!IInv /\ R!Attend => R!IInv'
<1> SUFFICES ASSUME R!IInv, R!Attend PROVE R!IInv'
  OBVIOUS
<1>0. LogInv /\ StateInv /\ r_durable \in BOOLEAN
  BY Parts DEF StateInv, RestoreCallTypeOK
<1>1. /\ r_pc = "attention" /\ r_journal.stage \in R!Forward \cup R!Undo \cup {"succeeded", "rolled_back"}
      /\ R!Memory \in R!Forward \cup R!Undo /\ r_dir
  BY <1>0 DEF R!Attend, StateInv, R!JournalAtPc, R!MemoryAtPc, R!CallInv, RestoreCallTypeOK
<1>2. Quiet /\ UNCHANGED <<r_safety, r_left, r_reload, r_durable>>
  BY DEF R!Attend, Quiet, R!nginxVars
<1>3. RestoreMayFollow(R!Memory, "needs_attention") /\ "needs_attention" \in R!StageNames
  BY <1>1, RestoreFollowers, RestoreStageNamesAre DEF R!TerminalStages
<1>4. LogInv' /\ (Recorded("needs_attention") \/ Kept) /\ r_pc' = "idle" /\ r_reply' = "needs_attention"
  BY <1>0, <1>3, TryLogDoes DEF R!Attend, R!Return
<1>5. RestoreRuntimeTypeOK' /\ RestoreCallTypeOK'
  BY SMTT(30), <1>0, <1>2, <1>4 DEF StateInv, RestoreRuntimeTypeOK, RestoreCallTypeOK, Quiet, R!ControlPoints,
     RestoreAnswers, R!TerminalStages
<1>6. R!CallInv' /\ R!JournalAtPc' /\ R!MemoryAtPc'
  BY <1>1, <1>2, <1>4 DEF R!CallInv, R!JournalAtPc, R!MemoryAtPc, Quiet
<1>7. R!SavedInv' /\ R!FilesInv'
  BY <1>0, <1>1, <1>2, <1>4
     DEF StateInv, R!SavedInv, R!FilesInv, Recorded, Kept, Quiet, R!Early, R!Undo, R!Forward,
         R!Write, R!SameDigest
<1>8. R!WorkersInv'
  BY <1>0, <1>1, <1>2, <1>4 DEF StateInv, R!WorkersInv, R!Unreloaded, Recorded, Kept, Quiet,
     R!Early, R!Undo, R!SameDigest
<1>9. QED BY <1>4, <1>5, <1>6, <1>7, <1>8, Parts DEF StateInv

\* Every step of a rollback.
LEMMA RollbackStepKeeps == R!Configurations /\ R!IInv /\ R!RollbackStep => R!IInv'
  BY RollbackKeeps, WriteSafetyKeeps, SafetyWrittenKeeps, TestSafetyKeeps, ReloadSafetyKeeps,
     LogRollbackReloadKeeps, RollbackConfirmKeeps, AttendKeeps
     DEF R!RollbackStep

-------------------------------------------------------------------------------
(* The steps of a recovery. *)

\* A recovery reads the journal and the events (readRestoreEvidence).
LEMMA ReadEvidenceKeeps == R!IInv /\ R!ReadEvidence => R!IInv'
<1> SUFFICES ASSUME R!IInv, R!ReadEvidence PROVE R!IInv'
  OBVIOUS
<1>0. LogInv /\ StateInv
  BY Parts
<1>1. r_pc = "read" /\ r_reply = "none"
  BY <1>0 DEF R!ReadEvidence, StateInv, R!CallInv
<1>2. Quiet /\ UNCHANGED <<r_safety, r_left, r_reload>>
  BY DEF R!ReadEvidence, Quiet, R!nginxVars
<1>3. LogInv' /\ Kept /\ R!LastOf(r_events)' = R!LastOf(r_events)
  BY <1>0, EvidenceRead DEF R!ReadEvidence
<1>4. R!Readable =>
        r_dir /\ R!LastOf(r_events) = r_journal.stage /\ r_journal.stage \in R!Forward \cup R!Undo \cup R!TerminalStages
  <2>1. r_journal.stage \in R!StageNames \cup {"none"}
    BY <1>0 DEF LogInv, RestoreLogTypeOK, RestoreJournalRecord
  <2>2. QED BY <1>0, <2>1, RestoreStageNamesAre DEF R!Readable, R!LastOf, StateInv, R!CallInv,
     RestoreCallTypeOK, R!SavedInv
<1>5. \/ r_pc' = "idle" /\ r_reply' = "needs_attention" /\ r_durable' = r_durable
      \/ /\ R!Readable /\ r_durable' = r_journal.durable
         /\ \/ r_pc' = "idle" /\ r_reply' = r_journal.stage /\ r_journal.stage \in R!TerminalStages
            \/ r_pc' = "decide" /\ r_reply' = "none" /\ r_journal.stage \notin R!TerminalStages /\ R!Memory' = r_journal.stage
  BY <1>1 DEF R!ReadEvidence, R!Uncertain, R!Return, R!Goto, R!Readable, R!Memory, R!LastOf
<1>6. RestoreRuntimeTypeOK' /\ RestoreCallTypeOK'
  BY SMTT(30), <1>0, <1>2, <1>5
     DEF StateInv, LogInv, RestoreLogTypeOK, RestoreJournalRecord, RestoreRuntimeTypeOK,
         RestoreCallTypeOK, Quiet, R!ControlPoints, RestoreAnswers,
         R!TerminalStages
<1>7. R!CallInv' /\ R!JournalAtPc' /\ R!MemoryAtPc'
  <2>1. r_dir' = r_dir /\ r_journal'.stage = r_journal.stage /\ R!LastOf(r_events') = R!LastOf(r_events)
        /\ (r_events' = <<>> <=> r_events = <<>>) /\ (r_events = <<>> => R!LastOf(r_events) = "none")
    BY <1>2, <1>3 DEF R!ReadEvidence, Quiet, Kept, R!LastOf
  <2>2. R!CallInv'
    BY <1>0, <1>4, <1>5, <2>1 DEF StateInv, R!CallInv, R!TerminalStages, R!LastOf
  <2>3. R!JournalAtPc' /\ R!MemoryAtPc'
    BY <1>4, <1>5, <2>1 DEF R!JournalAtPc, R!MemoryAtPc
  <2>4. QED BY <2>2, <2>3
<1>8. R!SavedInv' /\ R!FilesInv'
  BY <1>0, <1>1, <1>2, <1>3, <1>5 DEF StateInv, R!SavedInv, R!FilesInv, Kept, Quiet
<1>9. R!WorkersInv'
  BY <1>0, <1>1, <1>2, <1>3, <1>5 DEF StateInv, R!WorkersInv, R!Unreloaded, Kept, Quiet,
     R!TerminalStages
<1>10. QED BY <1>3, <1>6, <1>7, <1>8, <1>9, Parts DEF StateInv

\* It decides by the digest of production.
LEMMA DecideKeeps == R!IInv /\ R!Decide => R!IInv'
<1> SUFFICES ASSUME R!IInv, R!Decide PROVE R!IInv'
  OBVIOUS
<1>0. LogInv /\ StateInv
  BY Parts
<1>1. r_pc = "decide" /\ r_journal.stage \in R!Forward \cup R!Undo /\ R!Memory = r_journal.stage
      /\ r_dir /\ r_reply = "none"
  BY <1>0 DEF R!Decide, StateInv, R!JournalAtPc, R!MemoryAtPc, R!CallInv, RestoreCallTypeOK
<1>2. Quiet /\ UNCHANGED <<r_safety, r_left, r_durable>>
  BY DEF R!Decide, Quiet, R!nginxVars
<1>3. LogInv' /\ Kept /\ R!Memory' = R!Memory
  BY <1>0, NotLogged DEF R!Decide
<1>4. R!RollbackStarted <=> R!Memory \in R!Undo
  BY <1>1, ReachedIs DEF R!RollbackStarted
<1>5. /\ r_reply' = "none"
      /\ \/ /\ r_pc' = "resume_send" /\ r_reload' = r_reload
            /\ R!SameDigest(r_files, r_target) /\ r_journal.stage \in R!Forward
         \/ r_pc' = "unresumed" /\ r_reload' = r_reload
         \/ r_pc' = "rollback" /\ r_reload' = TRUE
  BY <1>1, <1>4 DEF R!Decide, R!Goto, R!StartRollback
<1>6. RestoreRuntimeTypeOK' /\ RestoreCallTypeOK'
  BY ZenonT(60), <1>0, <1>2, <1>5 DEF StateInv, RestoreRuntimeTypeOK, RestoreCallTypeOK, Quiet, R!ControlPoints,
     RestoreAnswers
<1>7. R!CallInv' /\ R!JournalAtPc' /\ R!MemoryAtPc'
  BY <1>1, <1>2, <1>3, <1>5 DEF R!CallInv, R!JournalAtPc, R!MemoryAtPc, Quiet, Kept
<1>8. R!SavedInv' /\ R!FilesInv'
  BY <1>0, <1>1, <1>2, <1>3, <1>5 DEF StateInv, R!SavedInv, R!FilesInv, Kept, Quiet, R!SameDigest
<1>9. R!WorkersInv'
  BY <1>0, <1>1, <1>2, <1>3, <1>5 DEF StateInv, R!WorkersInv, R!Unreloaded, Kept, Quiet
<1>10. QED BY <1>3, <1>6, <1>7, <1>8, <1>9, Parts DEF StateInv

\* The target is in place: the reload is requested again.
LEMMA ResumeReloadKeeps == R!IInv /\ R!ResumeReload => R!IInv'
<1> SUFFICES ASSUME R!IInv, R!ResumeReload PROVE R!IInv'
  OBVIOUS
<1>0. LogInv /\ StateInv
  BY Parts
<1>1. r_pc = "resume_send" /\ r_journal.stage \in R!Forward /\ R!Memory = r_journal.stage /\ r_dir
      /\ r_reply = "none"
  BY <1>0 DEF R!ResumeReload, R!SendReload, StateInv, R!JournalAtPc, R!MemoryAtPc, R!CallInv,
     RestoreCallTypeOK
<1>2. UNCHANGED <<r_target, r_files, r_running, r_replaced, r_master, r_dir, r_safety, r_left, r_durable>>
  BY DEF R!ResumeReload, R!SendReload
<1>3. LogInv' /\ Kept /\ R!Memory' = R!Memory
  BY <1>0, NotLogged DEF R!ResumeReload, R!SendReload
<1>4. /\ r_reply' = "none" /\ r_reload' = r_reload /\ r_hup' \in BOOLEAN
      /\ r_pc' \in {"resume_confirm", "unresumed"}
  BY <1>0, <1>1 DEF R!ResumeReload, R!SendReload, R!Goto, StateInv, RestoreRuntimeTypeOK
<1>5. RestoreRuntimeTypeOK' /\ RestoreCallTypeOK'
  BY SMTT(30), <1>0, <1>2, <1>4 DEF StateInv, RestoreRuntimeTypeOK, RestoreCallTypeOK, R!ControlPoints,
     RestoreAnswers
<1>6. R!CallInv' /\ R!JournalAtPc' /\ R!MemoryAtPc'
  BY <1>1, <1>2, <1>3, <1>4 DEF R!CallInv, R!JournalAtPc, R!MemoryAtPc, Kept
<1>7. R!SavedInv' /\ R!FilesInv'
  BY <1>0, <1>1, <1>2, <1>3, <1>4 DEF StateInv, R!SavedInv, R!FilesInv, Kept, R!SameDigest
<1>8. R!WorkersInv'
  BY <1>0, <1>1, <1>2, <1>3, <1>4 DEF StateInv, R!WorkersInv, R!Unreloaded, Kept, R!Early,
     R!Forward, R!Write, R!Undo
<1>9. QED BY <1>3, <1>5, <1>6, <1>7, <1>8, Parts DEF StateInv

\* Its workers are confirmed.
LEMMA ResumeConfirmKeeps == R!IInv /\ R!ResumeConfirm => R!IInv'
<1> SUFFICES ASSUME R!IInv, R!ResumeConfirm PROVE R!IInv'
  OBVIOUS
<1>0. LogInv /\ StateInv /\ r_durable \in BOOLEAN
  BY Parts DEF StateInv, RestoreCallTypeOK
<1>1. r_pc = "resume_confirm" /\ r_journal.stage \in R!Forward /\ R!Memory = r_journal.stage
      /\ r_dir /\ r_reply = "none"
      /\ R!SameDigest(r_files, r_target)
  BY <1>0 DEF R!ResumeConfirm, StateInv, R!JournalAtPc, R!MemoryAtPc, R!CallInv, RestoreCallTypeOK,
     R!FilesInv
<1>2. Quiet /\ UNCHANGED <<r_safety, r_left, r_reload, r_durable>>
  BY DEF R!ResumeConfirm, Quiet, R!nginxVars
<1>3. RestoreMayFollow(R!Memory, "runtime_confirmed") /\ "runtime_confirmed" \in R!StageNames
  BY <1>1, RestoreFollowers, RestoreStageNamesAre DEF R!Forward, R!Write
<1>4. /\ LogInv' /\ r_reply' = "none"
      /\ \/ /\ r_pc' = "resume_done" /\ r_master = "known" /\ r_replaced
            /\ \/ Recorded("runtime_confirmed") /\ R!Memory' = "runtime_confirmed"
               \/ (Recorded("runtime_confirmed") \/ Kept) /\ R!Memory' = R!Memory
         \/ r_pc' = "unresumed" /\ Kept /\ R!Memory' = R!Memory
  BY <1>0, <1>1, <1>3, LogDoes, LogErrorDoes, NotLogged DEF R!ResumeConfirm, R!Confirmed, R!TryLog,
     R!Goto
<1>5. RestoreRuntimeTypeOK' /\ RestoreCallTypeOK'
  BY SMTT(30), <1>0, <1>2, <1>4 DEF StateInv, RestoreRuntimeTypeOK, RestoreCallTypeOK, Quiet, R!ControlPoints,
     RestoreAnswers
<1>6. R!CallInv' /\ R!JournalAtPc' /\ R!MemoryAtPc'
  BY <1>1, <1>2, <1>4 DEF R!CallInv, R!JournalAtPc, R!MemoryAtPc, Quiet, Recorded, Kept, R!Forward,
     R!Write, R!Undo
<1>7. R!SavedInv' /\ R!FilesInv'
  BY <1>0, <1>1, <1>2, <1>4
     DEF StateInv, R!SavedInv, R!FilesInv, Recorded, Kept, Quiet, R!Early, R!Forward, R!Write,
         R!Undo, R!SameDigest
<1>8. r_running = r_files \/ r_pc' = "unresumed"
  BY <1>0, <1>1, <1>4 DEF StateInv, R!WorkersInv, R!Forward, R!Write, R!Undo
<1>9. R!WorkersInv'
  BY <1>0, <1>1, <1>2, <1>4, <1>8
     DEF StateInv, R!WorkersInv, R!Unreloaded, Recorded, Kept, Quiet, R!Early, R!Forward, R!Write,
         R!Undo, R!SameDigest
<1>10. QED BY <1>4, <1>5, <1>6, <1>7, <1>9, Parts DEF StateInv

\* The recovered restore succeeds.
LEMMA ResumeDoneKeeps == R!IInv /\ R!ResumeDone => R!IInv'
<1> SUFFICES ASSUME R!IInv, R!ResumeDone PROVE R!IInv'
  OBVIOUS
<1>0. LogInv /\ StateInv /\ r_durable \in BOOLEAN
  BY Parts DEF StateInv, RestoreCallTypeOK
<1>1. r_pc = "resume_done" /\ r_journal.stage \in R!Forward /\ R!Memory \in R!Forward /\ r_dir
      /\ r_reply = "none"
  BY <1>0
     DEF R!ResumeDone, StateInv, R!JournalAtPc, R!MemoryAtPc, R!CallInv, RestoreCallTypeOK
<1>2. Quiet /\ UNCHANGED <<r_safety, r_left, r_reload, r_durable>>
  BY DEF R!ResumeDone, Quiet, R!nginxVars
<1>3. RestoreMayFollow(R!Memory, "succeeded") /\ "succeeded" \in R!StageNames
  BY <1>1, RestoreFollowers, RestoreStageNamesAre DEF R!TerminalStages
<1>4. /\ LogInv'
      /\ \/ Recorded("succeeded") /\ R!LastOf(r_events)' = "succeeded" /\ r_pc' = "idle" /\ r_reply' = "succeeded"
         \/ (Recorded("succeeded") \/ Kept) /\ R!Memory' = R!Memory /\ r_pc' = "unresumed" /\ r_reply' = "none"
  BY <1>0, <1>1, <1>3, LogDoes, LogErrorDoes DEF R!ResumeDone, R!Goto, R!Return
<1>5. RestoreRuntimeTypeOK' /\ RestoreCallTypeOK'
  BY SMTT(30), <1>0, <1>2, <1>4 DEF StateInv, RestoreRuntimeTypeOK, RestoreCallTypeOK, Quiet, R!ControlPoints,
     RestoreAnswers, R!TerminalStages
<1>6. R!CallInv' /\ R!JournalAtPc' /\ R!MemoryAtPc'
  BY <1>1, <1>2, <1>4 DEF R!CallInv, R!JournalAtPc, R!MemoryAtPc, Quiet, Recorded, Kept, R!Forward,
     R!Write, R!Undo
<1>7. R!SavedInv' /\ R!FilesInv'
  BY <1>0, <1>1, <1>2, <1>4
     DEF StateInv, R!SavedInv, R!FilesInv, Recorded, Kept, Quiet, R!Early, R!Forward, R!Write,
         R!Undo, R!SameDigest
<1>8. R!WorkersInv'
  BY <1>0, <1>1, <1>2, <1>4
     DEF StateInv, R!WorkersInv, R!Unreloaded, Recorded, Kept, Quiet, R!Early, R!Forward, R!Write,
         R!Undo, R!SameDigest
<1>9. QED BY <1>4, <1>5, <1>6, <1>7, <1>8, Parts DEF StateInv

\* It was not confirmed, or the target is not in place.
LEMMA UnresumedKeeps == R!Configurations /\ R!IInv /\ R!Unresumed => R!IInv'
<1> SUFFICES ASSUME R!Configurations, R!IInv, R!Unresumed PROVE R!IInv'
  OBVIOUS
<1>0. LogInv /\ StateInv
  BY Parts
<1>1. /\ r_pc = "unresumed" /\ r_journal.stage \in R!Forward \cup R!Undo \cup {"succeeded"} /\ r_dir /\ r_reply = "none"
      /\ R!Memory \in R!Forward \cup R!Undo
      /\ R!Memory = r_journal.stage \/ (R!Memory \in R!Forward /\ r_journal.stage \notin R!Undo)
  BY <1>0 DEF R!Unresumed, StateInv, R!JournalAtPc, R!MemoryAtPc, R!CallInv, RestoreCallTypeOK
<1>2. Quiet /\ UNCHANGED <<r_safety, r_left, r_durable>>
  BY DEF R!Unresumed, Quiet, R!nginxVars
<1>3. R!RollbackStarted <=> R!Memory \in R!Undo
  BY <1>1, ReachedIs DEF R!RollbackStarted
<1>4. CASE ~R!RollbackStarted /\ R!SameDigest(r_files, Source) /\ ~r_durable
  <2>1. R!TryLog("failed") /\ R!Return("failed") /\ r_reload' = r_reload
    BY <1>4 DEF R!Unresumed
  <2>2. QED BY <1>1, <1>2, <1>3, <1>4, <2>1, FailKeeps
<1>5. CASE ~(~R!RollbackStarted /\ R!SameDigest(r_files, Source) /\ ~r_durable)
  <2>1. UNCHANGED R!logVars /\ r_pc' = "rollback" /\ r_reload' = TRUE /\ r_reply' = "none"
    BY <1>1, <1>5 DEF R!Unresumed, R!StartRollback, R!Goto
  <2>2. LogInv' /\ Kept /\ R!Memory' = R!Memory
    BY <1>0, <2>1, NotLogged
  <2>3. RestoreRuntimeTypeOK' /\ RestoreCallTypeOK'
    BY SMTT(30), <1>0, <1>2, <2>1 DEF StateInv, RestoreRuntimeTypeOK, RestoreCallTypeOK, Quiet,
       R!ControlPoints, RestoreAnswers
  <2>4. R!CallInv' /\ R!JournalAtPc' /\ R!MemoryAtPc'
    BY <1>1, <1>2, <2>1, <2>2 DEF R!CallInv, R!JournalAtPc, R!MemoryAtPc, Quiet, Kept
  <2>5. R!SavedInv' /\ R!FilesInv'
    BY <1>0, <1>1, <1>2, <2>1, <2>2 DEF StateInv, R!SavedInv, R!FilesInv, Kept, Quiet, R!SameDigest
  <2>6. R!WorkersInv'
    BY <1>0, <1>1, <1>2, <2>1, <2>2 DEF StateInv, R!WorkersInv, R!Unreloaded, Kept, Quiet
  <2>7. QED BY <2>2, <2>3, <2>4, <2>5, <2>6, Parts DEF StateInv
<1>6. QED BY <1>4, <1>5

\* Every step of a recovery.
LEMMA RecoverStepKeeps == R!Configurations /\ R!IInv /\ R!RecoverStep => R!IInv'
  BY ReadEvidenceKeeps, DecideKeeps, ResumeReloadKeeps, ResumeConfirmKeeps, ResumeDoneKeeps,
     UnresumedKeeps
     DEF R!RecoverStep

-------------------------------------------------------------------------------
(* What happens around the call. *)

\* A restore is asked for (PrepareRestore).
LEMMA PrepareKeeps == R!IInv /\ R!Prepare => R!IInv'
<1> SUFFICES ASSUME R!IInv, R!Prepare PROVE R!IInv'
  OBVIOUS
<1>0. LogInv /\ StateInv
  BY Parts
<1>1. r_pc = "idle" /\ r_journal.stage = "none" /\ r_events = <<>> /\ r_dir' = TRUE
  BY <1>0 DEF R!Prepare, StateInv, R!CallInv
<1>2. UNCHANGED <<r_target, r_files, r_running, r_replaced, r_hup, r_master, r_safety, r_left, r_reload>>
      /\ r_durable' = FALSE
  BY DEF R!Prepare, R!nginxVars
<1>3. LogInv' /\ Kept /\ r_events' = r_events /\ R!Memory' = "none"
  BY <1>0, EvidenceRead DEF R!Prepare, R!Memory, R!LastOf
<1>4. \/ r_pc' = "verify" /\ r_reply' = "none"
      \/ r_pc' = r_pc /\ r_reply' = r_reply
  BY DEF R!Prepare, R!Begin
<1>5. RestoreRuntimeTypeOK' /\ RestoreCallTypeOK'
  BY ZenonT(60), <1>0, <1>1, <1>2, <1>4 DEF StateInv, RestoreRuntimeTypeOK, RestoreCallTypeOK, R!ControlPoints,
     RestoreAnswers
<1>6. R!CallInv' /\ R!JournalAtPc' /\ R!MemoryAtPc'
  BY <1>0, <1>1, <1>3, <1>4 DEF StateInv, R!CallInv, R!JournalAtPc, R!MemoryAtPc, Kept, R!LastOf
<1>7. R!SavedInv' /\ R!FilesInv'
  BY <1>0, <1>1, <1>2, <1>3, <1>4 DEF StateInv, R!SavedInv, R!FilesInv, Kept, R!Early, R!Undo
<1>8. R!WorkersInv'
  BY <1>0, <1>1, <1>2, <1>3, <1>4 DEF StateInv, R!WorkersInv, R!Unreloaded, Kept, R!Early, R!Undo
<1>9. QED BY <1>3, <1>5, <1>6, <1>7, <1>8, Parts DEF StateInv

\* A recovery is asked for; the Agent dies and starts again.
LEMMA CallKeeps == R!IInv /\ (R!Recover \/ R!Crash \/ R!Restart) => R!IInv'
<1> SUFFICES ASSUME R!IInv, R!Recover \/ R!Crash \/ R!Restart PROVE R!IInv'
  OBVIOUS
<1>0. LogInv /\ StateInv
  BY Parts
<1>1. Quiet /\ UNCHANGED r_safety /\ r_left' \subseteq Paths /\ r_reload' \in BOOLEAN
      /\ r_durable' \in BOOLEAN
  BY <1>0 DEF R!Recover, R!Crash, R!Restart, Quiet, R!nginxVars, StateInv, RestoreCallTypeOK
<1>2. LogInv' /\ Kept /\ r_events' = r_events
  BY <1>0, EvidenceRead DEF R!Recover, R!Crash, R!Restart, R!logVars
<1>3. \/ r_pc' \in {"read", "down"} /\ r_reply' = "none"
      \/ r_pc = "down" /\ r_pc' = "idle" /\ r_reply' = r_reply
  BY DEF R!Recover, R!Crash, R!Restart, R!Begin, R!Goto
<1>4. RestoreRuntimeTypeOK' /\ RestoreCallTypeOK'
  BY SMTT(30), <1>0, <1>1, <1>3 DEF StateInv, RestoreRuntimeTypeOK, RestoreCallTypeOK, Quiet, R!ControlPoints,
     RestoreAnswers
<1>5. R!CallInv' /\ R!JournalAtPc' /\ R!MemoryAtPc'
  BY <1>0, <1>1, <1>2, <1>3 DEF StateInv, R!CallInv, R!JournalAtPc, R!MemoryAtPc, Quiet, Kept, R!LastOf
<1>6. R!SavedInv' /\ R!FilesInv'
  BY <1>0, <1>1, <1>2, <1>3 DEF StateInv, R!SavedInv, R!FilesInv, Kept, Quiet
<1>7. R!WorkersInv'
  BY <1>0, <1>1, <1>2, <1>3 DEF StateInv, R!CallInv, R!WorkersInv, R!Unreloaded, Kept, Quiet
<1>8. QED BY <1>2, <1>4, <1>5, <1>6, <1>7, Parts DEF StateInv

\* Nginx acts on a signal, exits or starts.
LEMMA NginxKeeps == R!IInv /\ (R!NginxReload \/ R!NginxExit \/ R!NginxStart) => R!IInv'
<1> SUFFICES ASSUME R!IInv, R!NginxReload \/ R!NginxExit \/ R!NginxStart PROVE R!IInv'
  OBVIOUS
<1>0. LogInv /\ StateInv
  BY Parts
<1>1. UNCHANGED <<r_target, r_files, r_dir, r_safety, r_pc, r_left, r_reload, r_durable, r_reply>>
  BY DEF R!NginxReload, R!NginxExit, R!NginxStart
<1>2. LogInv' /\ Kept /\ r_events' = r_events /\ R!Memory' = R!Memory
  BY <1>0, NotLogged DEF R!NginxReload, R!NginxExit, R!NginxStart, R!logVars
<1>3. \/ /\ r_hup /\ r_hup' = FALSE /\ r_master' = r_master /\ r_files \in Valid
         /\ r_running' = r_files /\ r_replaced' = TRUE
      \/ /\ r_hup /\ r_hup' = FALSE /\ r_master' = r_master /\ r_files \notin Valid
         /\ UNCHANGED <<r_running, r_replaced>>
      \/ r_master' = "down" /\ r_hup' = FALSE /\ UNCHANGED <<r_running, r_replaced>>
      \/ r_master' = "other" /\ r_running' = r_files /\ r_replaced' = TRUE /\ r_hup' = r_hup
  BY <1>0 DEF R!NginxReload, R!NginxExit, R!NginxStart
<1>4. RestoreRuntimeTypeOK' /\ RestoreCallTypeOK'
  BY ZenonT(60), <1>0, <1>1, <1>3 DEF StateInv, RestoreRuntimeTypeOK, RestoreCallTypeOK
<1>5. R!CallInv' /\ R!JournalAtPc' /\ R!MemoryAtPc'
  BY <1>0, <1>1, <1>2 DEF StateInv, R!CallInv, R!JournalAtPc, R!MemoryAtPc, Kept, R!LastOf
<1>6. R!SavedInv' /\ R!FilesInv'
  BY <1>0, <1>1, <1>2 DEF StateInv, R!SavedInv, R!FilesInv, Kept
<1>7. R!WorkersInv'
  BY <1>0, <1>1, <1>2, <1>3
     DEF StateInv, R!JournalAtPc, R!FilesInv, R!WorkersInv, R!Unreloaded, Kept, R!Early, R!Undo
<1>8. QED BY <1>2, <1>4, <1>5, <1>6, <1>7, Parts DEF StateInv

-------------------------------------------------------------------------------
(* The theorems. *)

\* The invariant holds before the restore is asked for.
LEMMA RestoreInitIInv == R!Configurations /\ R!Init => R!IInv
<1> SUFFICES ASSUME R!Configurations, R!Init PROVE R!IInv
  OBVIOUS
<1>1. <<>> \in Seq(R!StageNames)
  OBVIOUS
<1>2. LogInv
  <2>1. Len(r_events) = 0
    BY DEF R!Init
  <2>2. EventsFollow
    BY <2>1 DEF EventsFollow
  <2>3. QED BY <1>1, <2>2 DEF R!Init, LogInv, RestoreLogTypeOK, RestoreJournalRecord
<1>3. RestoreRuntimeTypeOK /\ RestoreCallTypeOK
  BY DEF R!Init, R!Configurations, RestoreRuntimeTypeOK, RestoreCallTypeOK, R!ControlPoints,
     RestoreAnswers
<1>4. R!CallInv /\ R!JournalAtPc /\ R!MemoryAtPc
  BY DEF R!Init, R!CallInv, R!JournalAtPc, R!MemoryAtPc
<1>5. R!SavedInv /\ R!FilesInv /\ R!WorkersInv
  BY DEF R!Init, R!SavedInv, R!FilesInv, R!WorkersInv, R!Unreloaded, R!Early, R!Undo
<1>6. QED BY <1>2, <1>3, <1>4, <1>5, Parts DEF StateInv

\* Every step keeps it.
LEMMA RestoreNextIInv == R!Configurations /\ R!IInv /\ [R!Next]_(R!vars) => R!IInv'
<1> SUFFICES ASSUME R!Configurations, R!IInv, [R!Next]_(R!vars) PROVE R!IInv'
  OBVIOUS
<1>1. CASE UNCHANGED R!vars
  BY <1>1
     DEF R!vars, R!IInv, R!TypeOK, R!CallInv, R!JournalAtPc, R!MemoryAtPc, R!EventsInOrder,
         R!LogIsKnown, R!SavedInv, R!FilesInv,
         R!WorkersInv, R!Unreloaded, R!Memory, R!LastOf
<1>2. CASE R!RestoreStep
  BY <1>2, PrepareStepKeeps, ExecuteStepKeeps, RollbackStepKeeps, RecoverStepKeeps DEF R!RestoreStep
<1>3. CASE R!Prepare \/ R!Execute \/ R!Recover \/ R!Crash \/ R!Restart \/ R!NginxReload \/ R!NginxExit \/ R!NginxStart
  BY <1>3, PrepareKeeps, ExecuteKeeps, CallKeeps, NginxKeeps
<1>4. QED BY <1>1, <1>2, <1>3 DEF R!Next

\* The invariant is inductive, for every set of paths and of trees: whenever the Agent dies, the journal
\* and the event log still tell what was written and what the workers serve (PrepareRestore,
\* ExecuteRestore, rollbackRestore, RecoverRestore).
THEOREM RestoreInvariance == R!Configurations => (R!Spec => []R!IInv)
<1> SUFFICES ASSUME R!Configurations PROVE R!Spec => []R!IInv
  OBVIOUS
<1>1. R!Init => R!IInv
  BY RestoreInitIInv
<1>2. R!IInv /\ [R!Next]_(R!vars) => R!IInv'
  BY RestoreNextIInv
<1>3. QED BY <1>1, <1>2, PTL DEF R!Spec

\* No file is written before the safety backup is in the journal; a success serves the target, a
\* rollback serves what was there, a failure has changed no managed text, and an answer is in the
\* journal and the log (ExecuteRestore, rollbackRestore, RecoverRestore).
THEOREM RestoreKeepsItsWord ==
  R!Configurations =>
    (R!Spec => [](/\ R!SafetyBeforeWrite /\ R!SucceededServesTarget /\ R!RolledBackServesSource
                  /\ R!FailedLeavesManagedText /\ R!AnswerIsDurable))
<1> SUFFICES ASSUME R!Configurations
             PROVE  R!Spec => [](/\ R!SafetyBeforeWrite /\ R!SucceededServesTarget /\ R!RolledBackServesSource
                                 /\ R!FailedLeavesManagedText /\ R!AnswerIsDurable)
  OBVIOUS
<1>1. R!IInv => /\ R!SafetyBeforeWrite /\ R!SucceededServesTarget /\ R!RolledBackServesSource
                /\ R!FailedLeavesManagedText /\ R!AnswerIsDurable
  <2> SUFFICES ASSUME R!IInv
               PROVE  /\ R!SafetyBeforeWrite /\ R!SucceededServesTarget /\ R!RolledBackServesSource
                      /\ R!FailedLeavesManagedText /\ R!AnswerIsDurable
    OBVIOUS
  <2>1. R!SafetyBeforeWrite
    BY DEF R!IInv, R!FilesInv, R!SavedInv, R!SafetyBeforeWrite
  <2>2. R!SucceededServesTarget
    BY DEF R!IInv, R!CallInv, R!FilesInv, R!WorkersInv, R!SucceededServesTarget
  <2>3. R!RolledBackServesSource
    BY DEF R!IInv, R!FilesInv, R!WorkersInv, R!RolledBackServesSource
  <2>4. R!FailedLeavesManagedText
    BY DEF R!IInv, R!FilesInv, R!FailedLeavesManagedText
  <2>5. R!AnswerIsDurable
    <3> SUFFICES ASSUME r_reply \in {"succeeded", "rolled_back"}
                 PROVE  r_journal.stage = r_reply /\ (R!Readable \/ r_torn)
      BY DEF R!AnswerIsDurable
    <3>1. r_journal.stage = r_reply /\ R!LastOf(r_events) = r_reply /\ r_journal.saved
      BY DEF R!IInv, R!CallInv, R!SavedInv, R!Early
    <3>2. r_events # <<>> /\ r_events[Len(r_events)] = r_journal.stage /\ r_journal.stage # "none"
      BY <3>1 DEF R!LastOf
    <3>3. QED BY <3>1, <3>2 DEF R!IInv, R!EventsInOrder, R!Readable
  <2>6. QED BY <2>1, <2>2, <2>3, <2>4, <2>5
<1>2. QED BY <1>1, RestoreInvariance, PTL

\* The log of a restore that still parses is one that the UI reckons with (appendRestoreStage,
\* readRestoreEvidence).
THEOREM RestoreLogIsKnown == R!Configurations => (R!Spec => []R!LogIsKnown)
<1> SUFFICES ASSUME R!Configurations PROVE R!Spec => []R!LogIsKnown
  OBVIOUS
<1>1. R!IInv => R!LogIsKnown
  BY DEF R!IInv
<1>2. QED BY <1>1, RestoreInvariance, PTL

\* A verdict that can be read is final: no later call, recovery or crash changes production, the
\* journal or the log (RecoverRestore).
THEOREM RestoreVerdictIsFinal == R!Configurations => (R!Spec => R!VerdictIsFinal)
<1> SUFFICES ASSUME R!Configurations PROVE R!Spec => R!VerdictIsFinal
  OBVIOUS
<1>1. R!IInv /\ [R!Next]_(R!vars) =>
       [R!Settled => R!Settled' /\ UNCHANGED <<r_files, r_journal, r_events>>]_(R!vars)
  <2> SUFFICES ASSUME R!IInv, [R!Next]_(R!vars), R!Settled
               PROVE  R!Settled' /\ UNCHANGED <<r_files, r_journal, r_events>>
    OBVIOUS
  <2>1. /\ r_pc \in {"idle", "down", "read"} /\ R!Readable /\ r_journal.stage \in R!TerminalStages /\ r_dir
        /\ r_reply # "prepared"
    BY DEF R!Settled, R!Readable, R!IInv, R!CallInv, R!TypeOK, R!TerminalStages
  <2>2. /\ UNCHANGED <<r_files, r_journal, r_events, r_torn>>
        /\ r_pc' \in {"idle", "down", "read"}
    <3>1. CASE UNCHANGED R!vars
      BY <2>1, <3>1 DEF R!vars
    <3>2. ~(R!PrepareStep \/ R!ExecuteStep \/ R!RollbackStep)
      BY <2>1
         DEF R!PrepareStep, R!StartPreparation, R!ValidateTarget, R!PrepareStage, R!InspectSource,
             R!SaveSource, R!FailUnsaved,
             R!ExecuteStep, R!CheckAgain, R!WriteTarget, R!TargetWritten, R!LogWritten,
                R!TestTarget, R!ReloadTarget, R!LogReload,
             R!Confirm, R!Succeed, R!ExecuteStage, R!SendReload, R!ApplyFile,
             R!RollbackStep, R!Rollback, R!WriteSafety, R!SafetyWritten, R!TestSafety,
                R!ReloadSafety, R!LogRollbackReload,
             R!RollbackConfirm, R!Attend, R!RollbackStage
    <3>3. R!RecoverStep => R!ReadEvidence
      BY <2>1
         DEF R!RecoverStep, R!Decide, R!ResumeReload, R!ResumeConfirm, R!ResumeDone, R!Unresumed,
             R!SendReload
    <3>4. CASE R!ReadEvidence
      BY <2>1, <3>4 DEF R!ReadEvidence, R!Uncertain, R!Return
    <3>5. ~R!Prepare /\ ~R!Execute
      BY <2>1 DEF R!Prepare, R!Execute
    <3>6. CASE R!Recover \/ R!Crash \/ R!Restart \/ R!NginxReload \/ R!NginxExit \/ R!NginxStart
      BY <2>1, <3>6 DEF R!Recover, R!Crash, R!Restart, R!NginxReload, R!NginxExit, R!NginxStart,
         R!Begin, R!Goto, R!logVars
    <3>7. QED BY <3>1, <3>2, <3>3, <3>4, <3>5, <3>6 DEF R!Next, R!RestoreStep
  <2>3. R!Readable' /\ r_journal'.stage \in R!TerminalStages
    BY <2>1, <2>2 DEF R!Readable
  <2>4. QED BY <2>2, <2>3 DEF R!Settled
<1>2. QED BY <1>1, RestoreInvariance, PTL DEF R!Spec, R!VerdictIsFinal

-------------------------------------------------------------------------------
(* The start of the container. *)

Domain == {"validation", "events", "permanent", "last"}

\* While an attempt is under way what it has created is there, and is nobody else's.
AttemptIsApart ==
  c_init \in {"copying", "prepare"} =>
    C!CreatedFiles \subseteq DOMAIN c_root /\ C!CreatedFiles \cap c_foreign = {}

\* An attempt that found an empty root goes on to the directories with all files in place.
FilledInv ==
  c_init \in {"prepare", "ready"} /\ c_startFrom = C!Empty =>
    DefaultFiles \subseteq DOMAIN c_root /\ \A f \in DefaultFiles : c_root[f] = "whole"

StartupInv ==
  /\ c_created \in Seq(DefaultFiles) /\ DOMAIN c_record = Domain
  /\ C!ForeignFilesSurvive /\ AttemptIsApart /\ FilledInv

\* What is written into the root.
LEMMA RootWritten ==
  ASSUME NEW f, NEW state, c_root' = C!With(f, state)
  PROVE  /\ DOMAIN c_root' = DOMAIN c_root \cup {f} /\ c_root'[f] = state
         /\ \A g \in DOMAIN c_root : g # f => c_root'[g] = c_root[g]
  BY DEF C!With

\* Files of the attempt are taken back, and no other.
LEMMA RootTakenBack ==
  ASSUME C!TakeBack
  PROVE  \A g \in DOMAIN c_root \ C!CreatedFiles : g \in DOMAIN c_root' /\ c_root'[g] = c_root[g]
  BY DEF C!TakeBack, C!Without

\* The state of the startup keeps its fields (normalizeStartupState).
LEMMA RecordKeepsFields ==
  ASSUME DOMAIN c_record = Domain, NEW result,
         C!ValidationRecorded(result) \/ C!ExitRecorded \/ c_record' = C!NoRecord \/ c_record' = c_record
  PROVE  DOMAIN c_record' = Domain
  BY DEF Domain, C!ValidationRecorded, C!ExitRecorded, C!Normalize, C!NoRecord

\* What was recorded as permanent is written as permanent (RecordStartupValidation,
\* RecordNginxExit).
LEMMA RecordStaysPermanent ==
  ASSUME DOMAIN c_record = Domain, c_record.permanent, NEW result,
         C!ValidationRecorded(result) \/ C!ExitRecorded \/ c_record' = c_record
  PROVE  c_record'.permanent
<1>1. CASE C!ValidationRecorded(result)
  <2>1. PICK state : /\ DOMAIN state = Domain /\ state.permanent = c_record.permanent
                     /\ c_record' = C!Normalize(state)
    BY <1>1 DEF C!ValidationRecorded, Domain
  <2> QED
    BY <2>1 DEF C!Normalize, Domain
<1>2. CASE C!ExitRecorded
  <2>1. PICK state : /\ DOMAIN state = Domain /\ state.permanent
                     /\ c_record' = C!Normalize(state)
    BY <1>2 DEF C!ExitRecorded, Domain
  <2> QED
    BY <2>1 DEF C!Normalize, Domain
<1> QED
  BY <1>1, <1>2

\* An attempt begins or ends.
LEMMA AttemptKeeps ==
  ASSUME StartupInv, C!Begin \/ C!Refuse \/ C!Ready \/ C!Killed \/ C!StartAgain \/ C!Fail
  PROVE  StartupInv'
<1>1. CASE C!Begin \/ C!Refuse
  <2>1. /\ c_created' = <<>> /\ UNCHANGED <<c_root, c_foreign, c_record>>
        /\ \/ c_init' \in {"copying", "failed"}
           \/ c_init' = "prepare" /\ c_startFrom' = c_root /\ DOMAIN c_root # {}
    BY <1>1 DEF C!Begin, C!Refuse
  <2>2. (C!CreatedFiles)' = {} /\ c_created' \in Seq(DefaultFiles)
    BY <2>1 DEF C!CreatedFiles
  <2>3. AttemptIsApart' /\ (C!ForeignFilesSurvive)'
    BY <2>1, <2>2 DEF StartupInv, AttemptIsApart, C!ForeignFilesSurvive
  <2>4. FilledInv'
    BY <2>1 DEF FilledInv, C!Empty
  <2> QED
    BY <2>1, <2>2, <2>3, <2>4 DEF StartupInv
<1>2. CASE C!Ready \/ C!Killed \/ C!StartAgain
  <2>1. /\ c_created' = <<>> /\ UNCHANGED <<c_root, c_foreign, c_startFrom>>
        /\ c_record' = c_record \/ c_record' = C!NoRecord
        /\ c_init' = "idle" \/ (c_init = "prepare" /\ c_init' = "ready")
    BY <1>2 DEF C!Ready, C!Killed, C!StartAgain
  <2>2. c_created' \in Seq(DefaultFiles) /\ DOMAIN c_record' = Domain
    BY <2>1, RecordKeepsFields DEF StartupInv
  <2>3. AttemptIsApart' /\ (C!ForeignFilesSurvive)' /\ FilledInv'
    BY <2>1 DEF StartupInv, AttemptIsApart, C!ForeignFilesSurvive, FilledInv
  <2> QED
    BY <2>2, <2>3 DEF StartupInv
<1>3. CASE C!Fail
  <2>1. /\ C!TakeBack /\ c_init \in {"copying", "prepare"} /\ c_init' = "failed"
        /\ UNCHANGED <<c_foreign, c_created, c_record>>
    BY <1>3 DEF C!Fail
  <2>2. (C!ForeignFilesSurvive)'
    BY <2>1, RootTakenBack DEF StartupInv, AttemptIsApart, C!ForeignFilesSurvive
  <2> QED
    BY <2>1, <2>2 DEF StartupInv, AttemptIsApart, FilledInv
<1> QED
  BY <1>1, <1>2, <1>3

\* Files are copied, compared, or put there by somebody else (copyInitializeFile,
\* validateExclusiveTree).
LEMMA FilesKeep ==
  ASSUME StartupInv, C!CopyFile \/ C!FinishFile \/ C!Accept \/ C!Intrude
  PROVE  StartupInv'
<1>0. /\ c_created \in Seq(DefaultFiles) /\ c_foreign \subseteq DOMAIN c_root
      /\ \A f \in c_foreign : c_root[f] = "whole"
  BY DEF StartupInv, C!ForeignFilesSurvive
<1>1. CASE C!CopyFile
  <2>1. PICK f \in DefaultFiles : /\ f \notin DOMAIN c_root /\ c_created' = Append(c_created, f)
                                  /\ c_root' = C!With(f, "partial")
    BY <1>1 DEF C!CopyFile
  <2>2. c_init = "copying" /\ UNCHANGED <<c_init, c_foreign, c_record>>
    BY <1>1 DEF C!CopyFile
  <2>3. c_created' \in Seq(DefaultFiles) /\ (C!CreatedFiles)' = C!CreatedFiles \cup {f}
    BY <1>0, <2>1 DEF C!CreatedFiles
  <2>4. /\ DOMAIN c_root' = DOMAIN c_root \cup {f}
        /\ \A g \in DOMAIN c_root : g # f => c_root'[g] = c_root[g]
    BY <2>1, RootWritten
  <2>5. (C!ForeignFilesSurvive)'
    BY <1>0, <2>1, <2>2, <2>4 DEF C!ForeignFilesSurvive
  <2>6. AttemptIsApart'
    BY <1>0, <2>1, <2>2, <2>3, <2>4 DEF StartupInv, AttemptIsApart
  <2> QED
    BY <2>2, <2>3, <2>5, <2>6 DEF StartupInv, FilledInv
<1>2. CASE C!FinishFile
  <2>1. PICK f : f \in DOMAIN c_root /\ f \notin c_foreign /\ c_root' = C!With(f, "whole")
    BY <1>2 DEF C!FinishFile
  <2>2. c_init = "copying" /\ UNCHANGED <<c_init, c_foreign, c_record, c_created>>
    BY <1>2 DEF C!FinishFile
  <2>3. /\ DOMAIN c_root' = DOMAIN c_root
        /\ \A g \in DOMAIN c_root : g # f => c_root'[g] = c_root[g]
    BY <2>1, RootWritten
  <2>4. (C!ForeignFilesSurvive)'
    BY <1>0, <2>1, <2>2, <2>3 DEF C!ForeignFilesSurvive
  <2> QED
    BY <2>2, <2>3, <2>4 DEF StartupInv, FilledInv, AttemptIsApart, C!CreatedFiles
<1>3. CASE C!Accept
  <2>1. /\ C!CreatedFiles = DefaultFiles /\ DOMAIN c_root = C!CreatedFiles
        /\ \A f \in C!CreatedFiles : f \in DOMAIN c_root => c_root[f] = "whole"
        /\ c_init = "copying" /\ c_init' = "prepare"
        /\ UNCHANGED <<c_root, c_foreign, c_record, c_created>>
    BY <1>3 DEF C!Accept
  <2>2. FilledInv'
    BY <2>1 DEF FilledInv
  <2> QED
    BY <2>1, <2>2 DEF StartupInv, AttemptIsApart, C!ForeignFilesSurvive, C!CreatedFiles
<1>4. CASE C!Intrude
  <2>1. PICK f : /\ f \notin DOMAIN c_root /\ c_root' = C!With(f, "whole")
                 /\ c_foreign' = c_foreign \cup {f}
    BY <1>4 DEF C!Intrude
  <2>2. c_init \in {"idle", "copying", "prepare"} /\ UNCHANGED <<c_init, c_record, c_created, c_startFrom>>
    BY <1>4 DEF C!Intrude
  <2>3. /\ DOMAIN c_root' = DOMAIN c_root \cup {f} /\ c_root'[f] = "whole"
        /\ \A g \in DOMAIN c_root : g # f => c_root'[g] = c_root[g]
    BY <2>1, RootWritten
  <2>4. (C!ForeignFilesSurvive)'
    BY <1>0, <2>1, <2>2, <2>3 DEF C!ForeignFilesSurvive
  <2>5. AttemptIsApart'
    <3>1. (C!CreatedFiles)' = C!CreatedFiles
      BY <2>2 DEF C!CreatedFiles
    <3> QED
      BY <2>1, <2>2, <2>3, <3>1 DEF StartupInv, AttemptIsApart
  <2>6. FilledInv'
    BY <2>1, <2>2, <2>3 DEF StartupInv, FilledInv
  <2> QED
    BY <2>2, <2>4, <2>5, <2>6 DEF StartupInv
<1> QED
  BY <1>1, <1>2, <1>3, <1>4

\* Nginx is started, exits or is given up; the clock is set; somebody edits.
LEMMA SupervisionKeeps ==
  ASSUME StartupInv, C!Start \/ C!NginxExits \/ C!Exit \/ C!Resume \/ C!SetClock \/ C!EditConfiguration
  PROVE  StartupInv'
<1>1. UNCHANGED <<c_root, c_foreign, c_created, c_init, c_startFrom>>
  BY DEF C!Start, C!NginxExits, C!Exit, C!Resume, C!SetClock, C!EditConfiguration, C!initVars
<1>2. \/ C!ValidationRecorded("valid") \/ C!ValidationRecorded("invalid") \/ C!ExitRecorded
      \/ c_record' = c_record
  BY DEF C!Start, C!NginxExits, C!Exit, C!Resume, C!SetClock, C!EditConfiguration
<1>3. DOMAIN c_record' = Domain
  BY <1>2, RecordKeepsFields DEF StartupInv
<1> QED
  BY <1>1, <1>3 DEF StartupInv, C!ForeignFilesSurvive, AttemptIsApart, FilledInv, C!CreatedFiles

\* The attempts of the init service and the exits of nginx keep the root and the record in order, for any
\* default configuration and any number of deaths (initializeWithPreparation).
THEOREM StartupInvariance == C!Spec => []StartupInv
<1>1. C!Init => StartupInv
  <2> SUFFICES ASSUME C!Init PROVE StartupInv
    OBVIOUS
  <2>1. c_created \in Seq(DefaultFiles) /\ DOMAIN c_record = Domain
    BY DEF C!Init, C!NoRecord, Domain
  <2> QED
    BY <2>1 DEF C!Init, StartupInv, C!ForeignFilesSurvive, AttemptIsApart, FilledInv
<1>2. StartupInv /\ [C!Next]_(C!vars) => StartupInv'
  <2> SUFFICES ASSUME StartupInv, [C!Next]_(C!vars) PROVE StartupInv'
    OBVIOUS
  <2>1. CASE UNCHANGED C!vars
    BY <2>1 DEF C!vars, StartupInv, C!ForeignFilesSurvive, AttemptIsApart, FilledInv, C!CreatedFiles
  <2>2. CASE C!Next
    BY <2>2, AttemptKeeps, FilesKeep, SupervisionKeeps DEF C!Next, C!InitStep
  <2> QED
    BY <2>1, <2>2
<1> QED
  BY <1>1, <1>2, PTL DEF C!Spec

\* A file that somebody else put into the root survives every attempt to fill it, and a root that was
\* found empty is complete when nginx may start, whoever is killed when (initializeWithPreparation,
\* transaction.rollback).
THEOREM RootIsSafe == C!Spec => [](C!ForeignFilesSurvive /\ C!FilledRootIsWhole)
<1>1. StartupInv => C!ForeignFilesSurvive /\ C!FilledRootIsWhole
  BY DEF StartupInv, FilledInv, C!FilledRootIsWhole
<1> QED
  BY <1>1, StartupInvariance, PTL

\* Nginx that was recorded as given up stays so until the container is started again, whatever the clock
\* shows and whoever edits (normalizeStartupState).
THEOREM GivenUpStays == C!Spec => C!PermanentStays
<1>1. StartupInv /\ [C!Next]_(C!vars) =>
        [c_record.permanent /\ c_init = "ready" /\ c_init' = "ready" => c_record'.permanent]_(C!vars)
  <2> SUFFICES ASSUME StartupInv, [C!Next]_(C!vars), c_record.permanent, c_init = "ready", c_init' = "ready"
               PROVE  c_record'.permanent
    OBVIOUS
  <2>1. \/ C!ValidationRecorded("valid") \/ C!ValidationRecorded("invalid") \/ C!ExitRecorded
        \/ c_record' = c_record
    <3>1. CASE UNCHANGED C!vars
      BY <3>1 DEF C!vars
    <3>2. CASE C!Next
      BY <3>2
         DEF C!Next, C!InitStep, C!Begin, C!Refuse, C!CopyFile, C!FinishFile, C!Accept, C!Fail, C!Ready,
             C!Killed, C!StartAgain, C!Intrude, C!Start, C!NginxExits, C!Exit, C!Resume, C!SetClock, C!EditConfiguration
    <3> QED
      BY <3>1, <3>2
  <2> QED
    BY <2>1, RecordStaysPermanent DEF StartupInv
<1> QED
  BY <1>1, StartupInvariance, PTL DEF C!Spec, C!PermanentStays
==================================================================================
