---------------------------- MODULE RestartAgent ----------------------------
(***************************************************************************)
(* The restart transaction of the privileged Agent: ExecuteRestart asks    *)
(* the supervisor to restart nginx and waits for a new master process, and *)
(* RecoverRestart gives a verdict on a restart a crash interrupted.        *)
(*                                                                         *)
(* Before the request the Agent creates a marker file; the finish script   *)
(* of the nginx service takes an exit that finds the marker for a wanted   *)
(* one, removes the marker and does not record the exit.  The marker has   *)
(* no owner but its existence, so this module follows several restarts,    *)
(* one after the other, and whatever nginx does by itself meanwhile.       *)
(*                                                                         *)
(* A master process is known by its number, which grows with each start.   *)
(* A check, a command, a write or a probe may fail at any time.            *)
(***************************************************************************)
EXTENDS TaskStages

CONSTANTS
  MaxRestarts,  \* bound: how many restarts are asked for
  MaxStarts     \* bound: how often nginx is started

ASSUME BoundAssumption == MaxRestarts \in Nat /\ MaxStarts \in Nat \ {0}

VARIABLES
  master,     \* the number of the running master, 0 if nginx is down
  starts,     \* how many masters there have been
  term,       \* the supervisor has been told to stop the running master
  changed,    \* production no longer has the digest of the request
  marker,     \* the expected-exit marker exists
  hidden,     \* unwanted exits of nginx that were not recorded
  requests,   \* restart commands sent for the restart in hand
  number,     \* the restart in hand, 0 before the first
  loose,      \* some restart was left by a crash, ended in doubt, or could not
              \* remove its marker
  journal,    \* state.json: stage and recorded master
  events,     \* events.ndjson
  torn,       \* the event log no longer parses
  pc,         \* the control point of the call, "idle" or "down"
  stages,     \* result.Stages
  reply       \* state and error code of the last answer

runtimeVars == <<master, starts, term, changed, hidden>>
taskVars == <<requests, number, loose>>
logVars == <<journal, events, torn, stages>>
vars == <<master, starts, term, changed, marker, hidden, requests, number, loose,
          journal, events, torn, pc, stages, reply>>

\* Stages in the order of restartStageOrder.  The first three are logged twice, when
\* they begin and when they are done.
Stages == <<"production_validating", "runtime_sampling", "restart_requested",
            "runtime_confirming", "succeeded", "failed", "needs_attention">>
StageNames == {Stages[i] : i \in DOMAIN Stages}
StageOrder(stage) == CHOOSE i \in DOMAIN Stages : Stages[i] = stage
TerminalStages == {"succeeded", "failed", "needs_attention"}

ControlPoints ==
  {"idle", "down", "start", "validate", "sample", "sampling", "sampled", "mark", "request", "requested",
   "confirming", "confirm", "unmark", "succeed", "read", "recover", "fail", "attention"}

NoReply == [state |-> "none", code |-> "none"]

TypeOK ==
  /\ starts \in 1..MaxStarts /\ master \in 0..starts
  /\ term \in BOOLEAN /\ changed \in BOOLEAN /\ marker \in BOOLEAN /\ torn \in BOOLEAN
  /\ hidden \in Nat /\ requests \in Nat /\ number \in 0..MaxRestarts /\ loose \in BOOLEAN
  /\ journal \in [stage : StageNames \cup {"none"}, before : 0..starts]
  /\ events \in Seq(StageNames) /\ stages \in Seq(StageNames)
  /\ pc \in ControlPoints
  /\ reply \in [state : {"none", "running"} \cup TerminalStages, code : {"none", "marker", "other"}]

Init ==
  /\ master = 1 /\ starts = 1 /\ term = FALSE /\ changed = FALSE
  /\ marker = FALSE /\ hidden = 0 /\ requests = 0 /\ number = 0 /\ loose = FALSE
  /\ journal = [stage |-> "none", before |-> 0] /\ events = <<>> /\ torn = FALSE
  /\ pc = "idle" /\ stages = <<>> /\ reply = NoReply

-------------------------------------------------------------------------------
(* The evidence on disk. *)

Log(stage) ==
  /\ journal' = [journal EXCEPT !.stage = stage]
  /\ events' = Append(events, stage) /\ stages' = Append(stages, stage)
  /\ torn' = (torn \/ events # stages)

LogError(stage) ==
  /\ \/ UNCHANGED <<journal, events, torn>>
     \/ /\ journal' = [journal EXCEPT !.stage = stage]
        /\ \/ UNCHANGED <<events, torn>>
           \/ torn' = TRUE /\ UNCHANGED events
           \/ events' = Append(events, stage) /\ torn' = (torn \/ events # stages)
  /\ UNCHANGED stages

TryLog(stage) == Log(stage) \/ LogError(stage)

\* readRestartEvidence.
Readable ==
  /\ journal.stage # "none" /\ ~torn
  /\ events # <<>> /\ events[Len(events)] = journal.stage
  /\ \A i \in 1..(Len(events) - 1) : StageOrder(events[i]) <= StageOrder(events[i + 1])

Goto(point) == pc' = point /\ UNCHANGED reply
Return(state, code) == pc' = "idle" /\ reply' = [state |-> state, code |-> code]

\* removeExpectedRestartMarker, which may fail.
RemoveMarker ==
  \/ marker' = FALSE /\ UNCHANGED loose
  \/ marker /\ UNCHANGED marker /\ loose' = TRUE

-------------------------------------------------------------------------------
(* ExecuteRestart. *)

\* A new restart has a control directory of its own.  The UI asks for one when the one
\* before has a verdict in its database, certain or not.
Execute ==
  /\ pc = "idle" /\ number < MaxRestarts /\ (number = 0 \/ reply.state \in TerminalStages)
  /\ number' = number + 1 /\ requests' = 0
  /\ loose' = (loose \/ reply.state = "needs_attention")
  /\ journal' = [stage |-> "none", before |-> 0] /\ events' = <<>> /\ stages' = <<>> /\ torn' = FALSE
  /\ pc' = "start" /\ reply' = NoReply
  /\ UNCHANGED <<runtimeVars, marker>>

\* A stage that only logs; an error of the log ends the call without a verdict.
LogStage(point, stage, next) ==
  /\ pc = point
  /\ \/ Log(stage) /\ Goto(next)
     \/ LogError(stage) /\ Return("running", "none")
  /\ UNCHANGED <<runtimeVars, marker, taskVars>>

Start == LogStage("start", "production_validating", "validate")

\* fail: the verdict stands whether it could be logged or not.
Fail(code) == TryLog("failed") /\ Return("failed", code)

\* The digest of production and "nginx -t".
Validate ==
  /\ pc = "validate"
  /\ \/ ~changed /\ Log("production_validating") /\ Goto("sample")
     \/ ~changed /\ LogError("production_validating") /\ Return("running", "none")
     \/ Fail("other")
  /\ UNCHANGED <<runtimeVars, marker, taskVars>>

BeginSampling == LogStage("sample", "runtime_sampling", "sampling")

\* The master to be replaced, 0 if nginx is stopped; a runtime that cannot be sampled
\* fails the restart.
Sample ==
  /\ pc = "sampling"
  /\ \/ /\ journal' = [stage |-> "runtime_sampling", before |-> master]
        /\ events' = Append(events, "runtime_sampling") /\ stages' = Append(stages, "runtime_sampling")
        /\ torn' = (torn \/ events # stages)
        /\ Goto("sampled")
     \/ journal' \in {journal, [journal EXCEPT !.before = master]}
        /\ torn' \in {torn, TRUE} /\ UNCHANGED <<events, stages>> /\ Return("running", "none")
     \/ Fail("other")
  /\ UNCHANGED <<runtimeVars, marker, taskVars>>

BeginRequest == LogStage("sampled", "restart_requested", "mark")

\* createExpectedRestartMarker: the file must not exist yet.
Mark ==
  /\ pc = "mark"
  /\ \/ ~marker /\ marker' = TRUE /\ Goto("request") /\ UNCHANGED <<logVars, loose>>
     \/ marker /\ Fail("marker") /\ UNCHANGED <<marker, loose>>
     \/ ~marker /\ marker' \in BOOLEAN /\ loose' = (loose \/ marker') /\ Fail("other")
  /\ UNCHANGED <<runtimeVars, requests, number>>

NeedsAttention == Goto("attention")

\* "s6-svc -r".  After a failed command the marker is taken back; the exit code of the
\* command tells whether the supervisor can have acted.
Request ==
  /\ pc = "request"
  /\ \/ /\ requests' = requests + 1 /\ term' = (master # 0)
        /\ UNCHANGED <<marker, loose>> /\ Goto("requested")
     \/ /\ RemoveMarker /\ Goto("fail") /\ UNCHANGED <<requests, term>>
     \/ /\ requests' \in {requests, requests + 1}
        /\ term' = IF requests' = requests THEN term ELSE master # 0
        /\ RemoveMarker /\ NeedsAttention
  /\ UNCHANGED <<master, starts, changed, hidden, number, logVars>>

\* A failed write after the request leaves the restart in doubt.
LogAfterRequest(point, stage, next) ==
  /\ pc = point
  /\ \/ Log(stage) /\ Goto(next)
     \/ LogError(stage) /\ NeedsAttention
  /\ UNCHANGED <<runtimeVars, marker, taskVars>>

LogRequest == LogAfterRequest("requested", "restart_requested", "confirming")
BeginConfirming == LogAfterRequest("confirming", "runtime_confirming", "confirm")

\* confirmRestartRuntime: another master, the requested digest, "nginx -t", a probe.
Confirmed == master # 0 /\ master # journal.before /\ ~changed

Confirm ==
  /\ pc = "confirm"
  /\ \/ Confirmed /\ Goto("unmark") /\ UNCHANGED <<marker, loose>>
     \/ RemoveMarker /\ NeedsAttention
  /\ UNCHANGED <<runtimeVars, requests, number, logVars>>

\* (Mutant: the marker is left to the next exit of nginx.)
UnmarkNever ==
  /\ pc = "unmark" /\ Goto("succeed")
  /\ UNCHANGED <<runtimeVars, marker, taskVars, logVars>>

Unmark ==
  /\ pc = "unmark"
  /\ RemoveMarker
  /\ \/ ~marker' /\ Goto("succeed")
     \/ NeedsAttention
  /\ UNCHANGED <<runtimeVars, requests, number, logVars>>

Succeed ==
  /\ pc = "succeed"
  /\ \/ Log("succeeded") /\ Return("succeeded", "none")
     \/ LogError("succeeded") /\ NeedsAttention
  /\ UNCHANGED <<runtimeVars, marker, taskVars>>

FailRequest ==
  /\ pc = "fail" /\ Fail("other")
  /\ UNCHANGED <<runtimeVars, marker, taskVars>>

Attend ==
  /\ pc = "attention"
  /\ TryLog("needs_attention") /\ Return("needs_attention", "other")
  /\ UNCHANGED <<runtimeVars, marker, taskVars>>

-------------------------------------------------------------------------------
(* RecoverRestart. *)

\* The UI asks for it while its database has no verdict.
Recover ==
  /\ pc = "idle" /\ number > 0 /\ reply.state \notin TerminalStages
  /\ pc' = "read" /\ stages' = <<>> /\ reply' = NoReply
  /\ UNCHANGED <<runtimeVars, marker, taskVars, journal, events, torn>>

ReadEvidence ==
  /\ pc = "read"
  /\ \/ Return("needs_attention", "other") /\ UNCHANGED stages
     \/ /\ Readable /\ stages' = events
        /\ \/ journal.stage \in TerminalStages /\ Return(journal.stage, "other")
           \/ journal.stage \notin TerminalStages /\ Goto("recover")
  /\ UNCHANGED <<runtimeVars, marker, taskVars, journal, events, torn>>

\* A restart that was not requested failed; one that may have been is confirmed or left
\* in doubt.  The command is never sent again and the marker never removed.
Resume ==
  /\ pc = "recover"
  /\ IF StageOrder(journal.stage) < StageOrder("restart_requested")
     THEN \/ Log("failed") /\ Return("failed", "other")
          \/ LogError("failed") /\ Return("needs_attention", "other")
     ELSE \/ Confirmed /\ Log("succeeded") /\ Return("succeeded", "none")
          \/ Confirmed /\ LogError("succeeded") /\ Return("needs_attention", "other")
          \/ NeedsAttention /\ UNCHANGED logVars
  /\ UNCHANGED <<runtimeVars, marker, taskVars>>

-------------------------------------------------------------------------------
(* What happens around the calls. *)

Crash ==
  /\ pc # "down"
  /\ pc' = "down" /\ stages' = <<>> /\ loose' = (loose \/ pc # "idle")
  /\ reply' = IF pc = "idle" THEN reply ELSE NoReply
  /\ UNCHANGED <<runtimeVars, marker, requests, number, journal, events, torn>>

AgentStart ==
  /\ pc = "down" /\ Goto("idle")
  /\ UNCHANGED <<runtimeVars, marker, taskVars, logVars>>

\* Nginx exits, told to or not; the finish script looks for the marker.
NginxExit ==
  /\ master # 0
  /\ master' = 0 /\ term' = FALSE
  /\ marker' = FALSE
  /\ hidden' = IF marker /\ ~term THEN hidden + 1 ELSE hidden
  /\ UNCHANGED <<starts, changed, taskVars, logVars, pc, reply>>

\* The supervisor starts nginx if validate-startup lets it.
NginxStart ==
  /\ master = 0 /\ starts < MaxStarts
  /\ starts' = starts + 1 /\ master' = starts + 1
  /\ UNCHANGED <<term, changed, marker, hidden, taskVars, logVars, pc, reply>>

Edit ==
  /\ ~changed /\ changed' = TRUE
  /\ UNCHANGED <<master, starts, term, marker, hidden, taskVars, logVars, pc, reply>>

-------------------------------------------------------------------------------
RestartStep ==
  Start \/ Validate \/ BeginSampling \/ Sample \/ BeginRequest \/ Mark \/ Request \/ LogRequest
  \/ BeginConfirming \/ Confirm \/ Unmark \/ Succeed \/ FailRequest \/ Attend
  \/ ReadEvidence \/ Resume

Next ==
  \/ Execute \/ Recover \/ RestartStep
  \/ Crash \/ AgentStart \/ NginxExit \/ NginxStart \/ Edit

Spec == Init /\ [][Next]_vars

-------------------------------------------------------------------------------
(* Properties. *)

\* A restart that succeeded, in the first call or in a recovery, has seen a master that
\* was started after the one it recorded.
SuccessHasNewMaster ==
  journal.stage = "succeeded" => starts > journal.before

\* The command is sent at most once for a restart, however often the Agent dies and the
\* restart is recovered.
AtMostOneRequest == requests <= 1

\* A restart is refused for the marker of another only if an earlier restart was
\* interrupted or left in doubt: a restart with a verdict cleans up after itself.
MarkerHasCause == reply.code = "marker" => loose

\* A marker hides at most one unwanted exit of nginx, so there are no more hidden exits
\* than restarts.
MarkerHidesOneExit == hidden + (IF marker THEN 1 ELSE 0) <= number

\* A failure verdict means that the supervisor was not told to restart nginx.
FailedWasNotRequested ==
  reply.state = "failed" \/ (Readable /\ journal.stage = "failed") => requests = 0

\* The stage as RecoveryCoordinator tells it.
Coarse(stage) ==
  CASE stage = "none" -> "queued"
    [] stage \in {"production_validating", "runtime_sampling"} -> "first"
    [] stage \in {"restart_requested", "runtime_confirming"} -> "write"
    [] OTHER -> stage

\* A log that still parses is one the UI reckons with, whatever call was cut off: each stage is one
\* that may follow the stage before.
LogIsKnown ==
  ~torn => \A i \in 1..Len(events) :
             Succeeds("restart", Coarse(IF i = 1 THEN "none" ELSE events[i - 1]), Coarse(events[i]))

\* However often the Agent dies and a restart is recovered, the command is sent at most once, a
\* failure means that it was not sent, and a success that a new master was seen.  A marker is there
\* for a reason and hides at most one unwanted exit of nginx, and the log is one that the UI reckons
\* with (ExecuteRestart, RecoverRestart).
RestartsOnce ==
  /\ AtMostOneRequest /\ FailedWasNotRequested /\ SuccessHasNewMaster
  /\ MarkerHasCause /\ MarkerHidesOneExit /\ LogIsKnown

\* A call of the Agent returns or dies with it.
CallEnds == pc \notin {"idle", "down"} ~> pc \in {"idle", "down"}
=============================================================================
