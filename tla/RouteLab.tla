------------------------------- MODULE RouteLab -------------------------------
(***************************************************************************)
(* The Route Lab: a run asks the Agent to start a second nginx, in a       *)
(* directory of its own (the stage) and on ports of its own, to send it    *)
(* one request, and to take everything down again.                         *)
(*                                                                         *)
(* The UI keeps a row and an append-only list of stages for every run; a   *)
(* transition names the number of the stage it appends.  One goroutine     *)
(* executes a run, its context ends when a user cancels or the UI stops,   *)
(* and the connection to the Agent with it.  The Agent executes a few runs *)
(* at once.  It marks a stage as its own, first without and then with the  *)
(* process of the sandbox, keeps a stage whose process it could not stop,  *)
(* and before it serves after a restart it removes what it finds.          *)
(*                                                                         *)
(* The draft is a version, a workspace is always ready, and production     *)
(* stays what it was when the workspace was opened.                        *)
(***************************************************************************)
EXTENDS Naturals, Sequences, FiniteSets

CONSTANTS
  Runs,         \* runs that may be asked for
  ActiveLimit,  \* runs queued or running at once (activeRunLimit)
  Slots,        \* runs the Agent executes at once (routeLabLock)
  Faults,       \* what may fail: "store", "reply", "timeout", "ui", "stop", "agent", "nginx",
                \* "kill", "disk"
  Edits,        \* bound: edits of the draft
  Budget        \* bound: faults

VARIABLES
  \* the UI: database, process and goroutines
  row,        \* route_lab_runs
  stages,     \* route_lab_stages
  ui,         \* "down", "up" or "stopping"
  at,         \* where the request or the goroutine of each run is
  verdict,    \* what the goroutine makes of the Agent's answer
  gone,       \* runs whose context has ended
  asked,      \* cancellations recorded whose signal is still to be sent
  \* the Agent: process, handlers, stages and sandboxes
  agent,      \* "down", "starting" (ReconcileRouteLabArtifacts) or "up"
  job,        \* where the handler of each run is
  off,        \* handlers whose context has ended
  outcome,    \* what the handler will answer
  stage,      \* "none", "bare", "owned" (marker without a process) or "named" (with it)
  process,    \* runs whose sandbox nginx is alive
  pidfile,    \* stages that hold a PID file of nginx
  tested,     \* the version of the draft a stage was made from
  \* the world
  draft,
  \* history, for the properties
  stranded,   \* runs left active because the store failed or the UI was stopping
  kept,       \* stages this Agent could not clean, and said so
  missed,     \* sandboxes alive whose process no file of their stage named
  left        \* what is left of Budget

records == <<row, stages>>
tasks   == <<ui, at, verdict, gone, asked, stranded>>
uiVars  == <<records, tasks>>
disk    == <<stage, process, pidfile, tested>>
jobs    == <<agent, job, off, outcome, kept, missed>>
vars    == <<uiVars, disk, jobs, draft, left>>

NotAsked == "none"
Active   == {"queued", "running", "collecting"}   \* "collecting" is running, in a later stage
Terminal == {"succeeded", "failed", "cancelled", "timed_out"}
NoRow    == [state |-> NotAsked, cancel |-> FALSE, draft |-> 0]
\* the handler holds a slot of the Agent
Holding  == {"verify", "mkdir", "copy", "own", "prepare", "launch", "name", "request", "stop", "remove"}
Handled  == Holding \cup {"slot"}

Fails(what) == what \in Faults /\ left > 0 /\ left' = left - 1
Works       == left' = left
ActiveRouteRunCount == Cardinality({r \in Runs : row[r].state \in Active})

TypeOK ==
  /\ row \in [Runs -> [state : {NotAsked} \cup Active \cup Terminal, cancel : BOOLEAN, draft : 0..Edits]]
  /\ stages \in [Runs -> Seq(Active \cup Terminal)]
  /\ ui \in {"down", "up", "stopping"}
  /\ at \in [Runs -> {"none", "count", "created", "withdraw", "begin", "call", "wait", "settle",
                      "write", "collected"}]
  /\ verdict \in [Runs -> {"none", "success", "failed", "cleanup", "canceled", "timeout"}]
  /\ gone \subseteq Runs /\ asked \subseteq Runs /\ off \subseteq Runs /\ stranded \subseteq Runs
  /\ agent \in {"down", "starting", "up"}
  /\ job \in [Runs -> Handled \cup {"none", "done"}]
  /\ outcome \in [Runs -> {"none", "success", "failed", "cleanup", "timeout"}]
  /\ stage \in [Runs -> {"none", "bare", "owned", "named"}]
  /\ process \subseteq Runs /\ pidfile \subseteq Runs /\ kept \subseteq Runs /\ missed \subseteq Runs
  /\ tested \in [Runs -> 0..Edits]
  /\ draft \in 0..Edits /\ left \in 0..Budget

Init ==
  /\ row = [r \in Runs |-> NoRow] /\ stages = [r \in Runs |-> <<>>]
  /\ ui = "up" /\ agent = "up"
  /\ at = [r \in Runs |-> "none"] /\ verdict = [r \in Runs |-> "none"]
  /\ gone = {} /\ asked = {} /\ stranded = {}
  /\ job = [r \in Runs |-> "none"] /\ off = {} /\ outcome = [r \in Runs |-> "none"]
  /\ stage = [r \in Runs |-> "none"] /\ process = {} /\ pidfile = {}
  /\ tested = [r \in Runs |-> 0]
  /\ draft = 0 /\ kept = {} /\ missed = {} /\ left = Budget

-----------------------------------------------------------------------------
(* The database: one transaction each.                                     *)

\* CreateRouteRun counts the active runs again.
CreateRouteRun(r) ==
  /\ ActiveRouteRunCount < ActiveLimit
  /\ row' = [row EXCEPT ![r] = [@ EXCEPT !.state = "queued"]]
  /\ stages' = [stages EXCEPT ![r] = <<"queued">>]

\* TransitionRouteRun: the row is where the caller left it and the stage is the next one.
Moves(r, from, sequence) == row[r].state = from /\ Len(stages[r]) + 1 = sequence

TransitionRouteRun(r, to) ==
  /\ row' = [row EXCEPT ![r].state = to]
  /\ stages' = [stages EXCEPT ![r] = Append(@, to)]

\* RequestRouteRunCancellation: a queued run is over, a running one gets a stage that says so.
RequestRouteRunCancellation(r) ==
  /\ row[r].state \in Active
  /\ IF row[r].cancel THEN UNCHANGED records
     ELSE /\ row' = [row EXCEPT ![r].cancel = TRUE,
                                ![r].state = IF @ = "queued" THEN "cancelled" ELSE @]
          /\ stages' = [stages EXCEPT ![r] = Append(@, row'[r].state)]

FailInterruptedRouteRuns ==
  LET S == {r \in Runs : row[r].state \in Active}
  IN  /\ row' = [r \in Runs |-> IF r \in S THEN [row[r] EXCEPT !.state = "failed"] ELSE row[r]]
      /\ stages' = [r \in Runs |-> IF r \in S THEN Append(stages[r], "failed") ELSE stages[r]]

-----------------------------------------------------------------------------
(* Requests to the UI.                                                     *)

\* Queue reads the draft and counts the active runs ...
Queue(r) ==
  /\ ui = "up" /\ at[r] = "none" /\ row[r] = NoRow
  /\ ActiveRouteRunCount < ActiveLimit
  /\ row' = [row EXCEPT ![r].draft = draft]
  /\ at' = [at EXCEPT ![r] = "count"]
  /\ UNCHANGED <<stages, ui, verdict, gone, asked, stranded, disk, jobs, draft, left>>

\* ... and persists the run, which the store may refuse.
Persist(r) ==
  /\ ui # "down" /\ at[r] = "count"
  /\ \/ CreateRouteRun(r) /\ at' = [at EXCEPT ![r] = "created"] /\ Works
     \/ /\ (ActiveRouteRunCount >= ActiveLimit /\ Works) \/ Fails("store")
        /\ row' = [row EXCEPT ![r] = NoRow] /\ at' = [at EXCEPT ![r] = "none"]
        /\ UNCHANGED stages
  /\ UNCHANGED <<ui, verdict, gone, asked, stranded, disk, jobs, draft>>

\* Start hands the run to a goroutine, unless the UI is stopping.
Start(r) ==
  /\ at[r] = "created"
  /\ at' = [at EXCEPT ![r] = IF ui = "up" THEN "begin" ELSE "withdraw"]
  /\ UNCHANGED <<records, ui, verdict, gone, asked, stranded, disk, jobs, draft, left>>

\* The handler cancels a run that was not started; it does not look at the result.
Withdraw(r) ==
  /\ at[r] = "withdraw"
  /\ at' = [at EXCEPT ![r] = "none"]
  /\ \/ RequestRouteRunCancellation(r) /\ Works /\ UNCHANGED stranded
     \/ row[r].state \in Terminal /\ Works /\ UNCHANGED <<records, stranded>>
     \/ Fails("store") /\ stranded' = stranded \cup {r} /\ UNCHANGED records
  /\ UNCHANGED <<ui, verdict, gone, asked, disk, jobs, draft>>

\* A user cancels: the row first ...
Cancel(r) ==
  /\ ui = "up" /\ r \notin asked
  /\ RequestRouteRunCancellation(r)
  /\ asked' = asked \cup {r}
  /\ UNCHANGED <<ui, at, verdict, gone, stranded, disk, jobs, draft, left>>

\* ... then the context, if the owner has the run.
SignalCancel(r) ==
  /\ r \in asked /\ asked' = asked \ {r}
  /\ gone' = IF at[r] \in {"none", "count", "created", "withdraw"} THEN gone ELSE gone \cup {r}
  /\ UNCHANGED <<records, ui, at, verdict, stranded, disk, jobs, draft, left>>

-----------------------------------------------------------------------------
(* Execute: the goroutine of a run.                                        *)

\* The goroutine ends here and leaves the row as it is.
Leaves(r)  == at' = [at EXCEPT ![r] = "none"] /\ verdict' = [verdict EXCEPT ![r] = "none"]
GivesUp(r) == Leaves(r) /\ UNCHANGED records
Strands(r) == GivesUp(r) /\ stranded' = stranded \cup {r}

\* A statement that needs the context of the run fails when that has ended.
Interrupted(r) == (r \in gone /\ Works) \/ Fails("store")

Begin(r) ==
  /\ at[r] = "begin"
  /\ \/ /\ r \notin gone /\ Moves(r, "queued", 2) /\ Works
        /\ TransitionRouteRun(r, "running")
        /\ at' = [at EXCEPT ![r] = "call"] /\ UNCHANGED <<verdict, stranded>>
     \/ row[r].state # "queued" /\ Works /\ GivesUp(r) /\ UNCHANGED stranded
     \/ row[r].state = "queued" /\ Interrupted(r) /\ Strands(r)
  /\ UNCHANGED <<ui, gone, asked, disk, jobs, draft>>

Call(r) ==
  /\ at[r] = "call"
  /\ IF agent = "up" /\ r \notin gone
     THEN /\ at' = [at EXCEPT ![r] = "wait"] /\ job' = [job EXCEPT ![r] = "slot"]
          /\ UNCHANGED verdict
     ELSE /\ at' = [at EXCEPT ![r] = "settle"] /\ UNCHANGED job
          /\ verdict' = [verdict EXCEPT ![r] = IF r \in gone THEN "canceled" ELSE "failed"]
  /\ UNCHANGED <<records, ui, gone, asked, stranded, disk, agent, off, outcome, kept, missed, draft, left>>

\* The connection is closed: the handler goes on with a context that has ended.
HangUp(r) ==
  /\ outcome' = [outcome EXCEPT ![r] = "none"]
  /\ IF job[r] = "done"
     THEN job' = [job EXCEPT ![r] = "none"] /\ UNCHANGED off
     ELSE off' = (IF job[r] \in Handled THEN off \cup {r} ELSE off) /\ UNCHANGED job

\* ExecuteRouteTest of the client returns: an answer, the end of the context, a lost connection.
Answer(r) ==
  /\ at[r] = "wait" /\ at' = [at EXCEPT ![r] = "settle"]
  /\ \/ /\ job[r] = "done" /\ Works
        /\ verdict' = [verdict EXCEPT ![r] = outcome[r]] /\ HangUp(r)
     \/ r \in gone /\ Works /\ HangUp(r) /\ verdict' = [verdict EXCEPT ![r] = "canceled"]
     \/ Fails("reply") /\ HangUp(r) /\ verdict' = [verdict EXCEPT ![r] = "failed"]
     \/ /\ job[r] = "none" /\ Works   \* the Agent has died
        /\ verdict' = [verdict EXCEPT ![r] = "failed"] /\ HangUp(r)
  /\ UNCHANGED <<records, ui, gone, asked, stranded, disk, agent, kept, missed, draft>>

\* The row is read again, with a context of its own: a cancellation beats a success.
Settle(r) ==
  /\ at[r] = "settle"
  /\ \/ /\ row[r].state = "running" /\ Works
        /\ verdict' = [verdict EXCEPT ![r] = IF @ = "success" /\ row[r].cancel THEN "canceled" ELSE @]
        /\ at' = [at EXCEPT ![r] = "write"] /\ UNCHANGED <<records, stranded>>
     \/ Fails("store") /\ Strands(r)
  /\ UNCHANGED <<ui, gone, asked, disk, jobs, draft>>

\* terminalRouteFailure: a cleanup in doubt is a failure whatever started it.
terminalRouteFailure(v) ==
  CASE v = "canceled" -> "cancelled" [] v = "timeout" -> "timed_out" [] OTHER -> "failed"

\* The terminal transition after a failure, as stage number 3.
WriteFailure(r) ==
  /\ at[r] = "write" /\ verdict[r] # "success"
  /\ \/ /\ Moves(r, "running", 3) /\ Works
        /\ TransitionRouteRun(r, terminalRouteFailure(verdict[r]))
        /\ Leaves(r) /\ UNCHANGED stranded
     \/ ~Moves(r, "running", 3) /\ Works /\ GivesUp(r) /\ UNCHANGED stranded
     \/ Fails("store") /\ Strands(r)
  /\ UNCHANGED <<ui, gone, asked, disk, jobs, draft>>

\* The transitions of a success, as stages 3 and 4, with the context of the run.
Collect(r) ==
  /\ at[r] = "write" /\ verdict[r] = "success"
  /\ \/ /\ r \notin gone /\ Moves(r, "running", 3) /\ Works
        /\ TransitionRouteRun(r, "collecting")
        /\ at' = [at EXCEPT ![r] = "collected"] /\ UNCHANGED <<verdict, stranded>>
     \/ ~Moves(r, "running", 3) /\ Works /\ GivesUp(r) /\ UNCHANGED stranded
     \/ Interrupted(r) /\ Strands(r)
  /\ UNCHANGED <<ui, gone, asked, disk, jobs, draft>>

Complete(r) ==
  /\ at[r] = "collected"
  /\ \/ /\ r \notin gone /\ Moves(r, "collecting", 4) /\ Works
        /\ TransitionRouteRun(r, "succeeded")
        /\ Leaves(r) /\ UNCHANGED stranded
     \/ ~Moves(r, "collecting", 4) /\ Works /\ GivesUp(r) /\ UNCHANGED stranded
     \/ Interrupted(r) /\ Strands(r)
  /\ UNCHANGED <<ui, gone, asked, disk, jobs, draft>>

-----------------------------------------------------------------------------
(* The process of the UI.                                                  *)

\* Stop ends every context and waits a while for the goroutines.
StopUI ==
  /\ ui = "up" /\ Fails("stop")
  /\ ui' = "stopping" /\ gone' = Runs
  /\ UNCHANGED <<records, at, verdict, asked, stranded, disk, jobs, draft>>

\* The process ends, after Stop or without it, and with it every connection to the Agent.
UIEnds ==
  /\ (ui = "stopping" /\ Works) \/ (ui = "up" /\ Fails("ui"))
  /\ ui' = "down" /\ asked' = {} /\ stranded' = {} /\ gone' = {}
  /\ at' = [r \in Runs |-> "none"] /\ verdict' = [r \in Runs |-> "none"]
  /\ job' = [r \in Runs |-> IF job[r] = "done" THEN "none" ELSE job[r]]
  /\ outcome' = [r \in Runs |-> "none"]
  /\ off' = off \cup {r \in Runs : job[r] \in Handled}
  /\ row' = [r \in Runs |-> IF at[r] = "count" THEN NoRow ELSE row[r]]
  /\ UNCHANGED <<stages, disk, agent, kept, missed, draft>>

\* ReconcileInterrupted, before anything is served; an error ends the process.
StartUI ==
  /\ ui = "down"
  /\ \/ FailInterruptedRouteRuns /\ ui' = "up" /\ Works
     \/ Fails("store") /\ UNCHANGED <<records, ui>>
  /\ UNCHANGED <<at, verdict, gone, asked, stranded, disk, jobs, draft>>

-----------------------------------------------------------------------------
(* ExecuteRouteTest: a handler of the Agent.                               *)

Goes(r, to)   == job' = [job EXCEPT ![r] = to]
\* What there is to answer, if anybody still listens.
Ended(r, how) == outcome' = [outcome EXCEPT ![r] = IF r \in off THEN "none" ELSE how]
\* The handler returns; nobody takes the answer when the connection is closed.
Returns(r)    == Goes(r, IF r \in off THEN "none" ELSE "done") /\ off' = off \ {r}

\* Two handlers may run; the others wait, or leave when their context ends.
AwaitSlot(r) ==
  /\ job[r] = "slot"
  /\ \/ /\ Cardinality({s \in Runs : job[s] \in Holding}) < Slots
        /\ Goes(r, "verify") /\ UNCHANGED <<off, outcome>>
     \/ r \in off /\ Returns(r) /\ UNCHANGED outcome
  /\ UNCHANGED <<uiVars, disk, agent, kept, missed, draft, left>>

\* The digests of production and of the draft must be the ones of the run.
Verify(r) ==
  /\ job[r] = "verify"
  /\ IF draft = row[r].draft /\ r \notin off
     THEN Goes(r, "mkdir") /\ UNCHANGED <<off, outcome>>
     ELSE Returns(r) /\ Ended(r, "failed")
  /\ UNCHANGED <<uiVars, disk, agent, kept, missed, draft, left>>

MakeStage(r) ==
  /\ job[r] = "mkdir"
  /\ stage' = [stage EXCEPT ![r] = "bare"] /\ Goes(r, "copy")
  /\ UNCHANGED <<uiVars, process, pidfile, tested, agent, off, outcome, kept, missed, draft, left>>

\* overlayCandidateDraft checks the content of every file of the draft it copies.
Overlays(r) == draft = row[r].draft

Copy(r) ==
  /\ job[r] = "copy"
  /\ IF Overlays(r) /\ r \notin off
     THEN /\ tested' = [tested EXCEPT ![r] = draft]
          /\ Goes(r, "own") /\ UNCHANGED outcome
     ELSE /\ Goes(r, "remove") /\ Ended(r, "failed")
          /\ UNCHANGED tested
  /\ UNCHANGED <<uiVars, stage, process, pidfile, agent, off, kept, missed, draft, left>>

\* writeRouteOwnerMarker, without a process.
Own(r) ==
  /\ job[r] = "own"
  /\ \/ stage' = [stage EXCEPT ![r] = "owned"] /\ Goes(r, "prepare") /\ Works /\ UNCHANGED outcome
     \/ Fails("disk") /\ Goes(r, "remove") /\ Ended(r, "failed") /\ UNCHANGED stage
  /\ UNCHANGED <<uiVars, process, pidfile, tested, agent, off, kept, missed, draft>>

\* Includes are isolated, ports reserved, the candidate is instrumented and validated.
Prepare(r) ==
  /\ job[r] = "prepare"
  /\ \/ r \notin off /\ Goes(r, "launch") /\ UNCHANGED outcome
     \/ Goes(r, "remove") /\ Ended(r, "failed")
  /\ UNCHANGED <<uiVars, disk, agent, off, kept, missed, draft, left>>

\* startRouteSandboxProcess: nginx starts ...
Launch(r) ==
  /\ job[r] = "launch"
  /\ \/ process' = process \cup {r} /\ Goes(r, "name") /\ Works /\ UNCHANGED outcome
     \/ Fails("nginx") /\ Goes(r, "remove") /\ Ended(r, "failed") /\ UNCHANGED process
  /\ UNCHANGED <<uiVars, stage, pidfile, tested, agent, off, kept, missed, draft>>

\* ... and its process is written into the marker.
Name(r) ==
  /\ job[r] = "name"
  /\ \/ stage' = [stage EXCEPT ![r] = "named"] /\ Goes(r, "request") /\ Works /\ UNCHANGED outcome
     \/ Fails("disk") /\ Goes(r, "stop") /\ Ended(r, "failed") /\ UNCHANGED stage
  /\ UNCHANGED <<uiVars, process, pidfile, tested, agent, off, kept, missed, draft>>

\* waitRouteSandboxReady and executeRouteRequest: the sandbox answers once its PID file is there.
Request(r) ==
  /\ job[r] = "request" /\ Goes(r, "stop")
  /\ \/ r \in process /\ r \in pidfile /\ r \notin off /\ Ended(r, "success")
     \/ Ended(r, "failed")
  /\ UNCHANGED <<uiVars, disk, agent, off, kept, missed, draft, left>>

\* A time limit of the Agent ends the request.
TimesOut(r) ==
  /\ job[r] \in {"prepare", "request"} /\ Fails("timeout")
  /\ Goes(r, IF job[r] = "prepare" THEN "remove" ELSE "stop") /\ Ended(r, "timeout")
  /\ UNCHANGED <<uiVars, disk, agent, off, kept, missed, draft>>

\* stopRouteSandboxProcess: only a process that is reaped lets the stage go.
Stop(r) ==
  /\ job[r] = "stop"
  /\ \/ process' = process \ {r} /\ Goes(r, "remove") /\ Works /\ UNCHANGED <<off, outcome, kept>>
     \/ /\ r \in process /\ Fails("kill")
        /\ Returns(r) /\ Ended(r, "cleanup") /\ kept' = kept \cup {r} /\ UNCHANGED process
  /\ UNCHANGED <<uiVars, stage, pidfile, tested, agent, missed, draft>>

\* The deferred removal of the stage; a success has been removed.
Remove(r) ==
  /\ job[r] = "remove" /\ Returns(r)
  /\ \/ /\ stage' = [stage EXCEPT ![r] = "none"] /\ pidfile' = pidfile \ {r} /\ Works
        /\ UNCHANGED <<outcome, kept>>
     \/ /\ Fails("disk") /\ Ended(r, "cleanup") /\ kept' = kept \cup {r}
        /\ UNCHANGED <<stage, pidfile>>
  /\ UNCHANGED <<uiVars, process, tested, agent, missed, draft>>

\* nginx writes its PID file some time after it is started, and may die.
WritesPID(r) ==
  /\ r \in process \ pidfile /\ stage[r] # "none"
  /\ pidfile' = pidfile \cup {r}
  /\ UNCHANGED <<uiVars, stage, process, tested, jobs, draft, left>>

SandboxDies(r) ==
  /\ r \in process /\ Fails("nginx")
  /\ process' = process \ {r}
  /\ UNCHANGED <<uiVars, stage, pidfile, tested, jobs, draft>>

-----------------------------------------------------------------------------
(* The process of the Agent.                                               *)

AgentDies ==
  /\ agent # "down" /\ Fails("agent")
  /\ agent' = "down" /\ off' = {} /\ kept' = {}
  /\ job' = [r \in Runs |-> "none"] /\ outcome' = [r \in Runs |-> "none"]
  /\ UNCHANGED <<uiVars, disk, missed, draft>>

AgentStarts ==
  /\ agent = "down" /\ agent' = "starting"
  /\ UNCHANGED <<uiVars, disk, job, off, outcome, kept, missed, draft, left>>

\* (Mutant: believe the marker alone.)
MarkerOnly(r) == stage[r] = "named"

\* reconciledRoutePID: the marker names the process, or the PID file does.
reconciledRoutePID(r) == stage[r] = "named" \/ r \in pidfile

\* A stage with a marker is removed, after the process it names is terminated.
ReconcileStage(r) ==
  /\ agent = "starting" /\ stage[r] \in {"owned", "named"}
  /\ \/ r \notin process /\ UNCHANGED <<process, missed>>
     \/ r \in process /\ reconciledRoutePID(r) /\ process' = process \ {r} /\ UNCHANGED missed
     \/ /\ r \in process /\ ~reconciledRoutePID(r)
        /\ missed' = IF stage[r] = "owned" /\ r \notin pidfile THEN missed \cup {r} ELSE missed
        /\ UNCHANGED process
  /\ stage' = [stage EXCEPT ![r] = "none"] /\ pidfile' = pidfile \ {r}
  /\ UNCHANGED <<uiVars, tested, agent, job, off, outcome, kept, draft, left>>

\* A stage without a marker is nobody's: the Agent ends, and will end again.  An error ends it too.
ReconcileRefuses ==
  /\ agent = "starting" /\ agent' = "down"
  /\ \/ \E r \in Runs : stage[r] = "bare" /\ Works
     \/ \E r \in Runs : stage[r] = "named" /\ r \in process /\ Fails("kill")
     \/ \E r \in Runs : stage[r] # "none" /\ Fails("disk")
  /\ UNCHANGED <<uiVars, disk, job, off, outcome, kept, missed, draft>>

Serve ==
  /\ agent = "starting" /\ \A r \in Runs : stage[r] = "none"
  /\ agent' = "up"
  /\ UNCHANGED <<uiVars, disk, job, off, outcome, kept, missed, draft, left>>

-----------------------------------------------------------------------------
\* An edit of the draft.
EditDraft ==
  /\ draft < Edits /\ draft' = draft + 1
  /\ UNCHANGED <<uiVars, disk, jobs, left>>

Next ==
  \/ \E r \in Runs :
       \/ Queue(r) \/ Persist(r) \/ Start(r) \/ Withdraw(r) \/ Cancel(r) \/ SignalCancel(r)
       \/ Begin(r) \/ Call(r) \/ Answer(r) \/ Settle(r) \/ WriteFailure(r) \/ Collect(r)
       \/ Complete(r)
       \/ AwaitSlot(r) \/ Verify(r) \/ MakeStage(r) \/ Copy(r) \/ Own(r) \/ Prepare(r)
       \/ Launch(r) \/ Name(r) \/ Request(r) \/ TimesOut(r) \/ Stop(r) \/ Remove(r)
       \/ WritesPID(r) \/ SandboxDies(r) \/ ReconcileStage(r)
  \/ StopUI \/ UIEnds \/ StartUI \/ AgentDies \/ AgentStarts \/ ReconcileRefuses \/ Serve
  \/ EditDraft

Spec == Init /\ [][Next]_vars

-----------------------------------------------------------------------------
(* Properties.                                                             *)

\* Two requests that both counted room for their run do not both get it.
ActiveIsBounded == ActiveRouteRunCount <= ActiveLimit

\* The list of stages tells the story of the row: it begins queued, ends where the row is, and
\* holds an end at the end only; the row of a run whose goroutine is gone can still be read so.
StagesTellTheRow ==
  \A r \in Runs :
    LET s == stages[r]
    IN  IF row[r].state = NotAsked THEN s = <<>>
        ELSE /\ s # <<>> /\ s[1] = "queued" /\ s[Len(s)] = row[r].state
             /\ \A i \in 1..(Len(s) - 1) : s[i] \notin Terminal

\* A run that is not over has somebody who will end it, while the UI is up: only a failure of the
\* store, and a cancellation recorded while it was running, leave a run to the next start.
RunHasAnOwner ==
  ui = "up" => \A r \in Runs :
    row[r].state \in Active /\ at[r] = "none" => r \in stranded \/ row[r].cancel

\* A success is proven: its sandbox and stage are gone, and it tested the draft the row names.
SuccessIsProven ==
  \A r \in Runs : row[r].state \in {"collecting", "succeeded"} =>
    r \notin process /\ stage[r] = "none" /\ tested[r] = row[r].draft

\* Whatever is left on the disk or running is known: a handler works on it, this Agent said that
\* it kept it, or no file named the process when the stage was removed.
LeftoversAreKnown ==
  agent = "up" => \A r \in Runs :
    /\ stage[r] # "none" => job[r] \in Holding \/ r \in kept
    /\ r \in process => job[r] \in Holding \/ r \in kept \/ r \in missed

\* A sandbox that runs without its handler can be found again from its stage.
SandboxCanBeFound ==
  \A r \in process : job[r] \notin Holding => stage[r] # "none" \/ r \in missed

\* A cancellation of a run that was executing ends it as well.
CancelSettles ==
  ui = "up" => \A r \in Runs :
    row[r].state \in Active /\ row[r].cancel /\ r \notin stranded => at[r] # "none"
=============================================================================
