----------------------------- MODULE TaskStreams -----------------------------
(***************************************************************************)
(* How a browser follows a task.  The server reads the stages of the task  *)
(* and its row again and again and sends what is new as events, whose ids  *)
(* are the numbers of the stages; the browser connects again with the last *)
(* id it has seen whenever a connection ends, and asks for the row of the  *)
(* task whenever an event tells it to.                                     *)
(*                                                                         *)
(* There are five such streams.  Those of releases and route tests read    *)
(* the stages once more when the row says that the task is over; those of  *)
(* restores, restarts and certificates do not.                             *)
(*                                                                         *)
(* In the browser, the stores of releases, route tests and operations make *)
(* one refresh at once; the view of certificates has as many calls as it   *)
(* is told to make.  Besides the refreshes, a page may resume a release or *)
(* a route test, which connects anew, and cancel a route test.  Whatever   *)
(* call answers last is shown.                                             *)
(***************************************************************************)
EXTENDS Naturals, Sequences

CONSTANTS
  Kinds,      \* streams: "release", "route", "restore", "restart", "certificate"
  MaxStages,  \* bound: stages of the task
  MaxCalls,   \* bound: calls of a browser in progress
  Losses      \* bound: connections and answers lost

VARIABLES
  kind,       \* the stream
  count,      \* stages of the task
  ended,      \* the row is terminal, and so is the last stage
  at,         \* where the handler of the stream is
  after,      \* the last stage it has sent
  batch,      \* the stages it has listed, up to this one
  over,       \* whether the row it has read was terminal
  wire,       \* events on their way
  browser,    \* "connecting", "open" or "closed" (it has seen the end)
  last,       \* Last-Event-ID
  calls,      \* calls that return the row: what they are for, and "sent" or the state they bring
  crossed,    \* two calls were in progress at once
  view,       \* what the browser shows: "active" or "ended"
  lost        \* connections and answers lost

task   == <<kind, count, ended>>
stream == <<at, after, batch, over>>
client == <<browser, last, calls, crossed, view>>
vars   == <<task, stream, wire, client, lost>>

Rereads   == {"release", "route"}
Coalesces == {"release", "route", "restore", "restart"}
Resumable == {"release", "route"}
Closed    == [id |-> 0, name |-> "closed"]  \* the end of the response
Events    == [id : 0..MaxStages, name : {"snapshot", "stage", "terminal", "closed"}]

TypeOK ==
  /\ kind \in Kinds /\ count \in 1..MaxStages /\ ended \in BOOLEAN
  /\ at \in {"none", "list", "read", "again", "send", "sleep"}
  /\ {after, batch, last} \subseteq 0..MaxStages /\ over \in BOOLEAN
  /\ wire \in Seq(Events) /\ browser \in {"connecting", "open", "closed"}
  /\ calls \in Seq([by : {"refresh", "resume", "cancel"}, got : {"sent", "active", "ended"}])
  /\ Len(calls) <= MaxCalls /\ crossed \in BOOLEAN
  /\ view \in {"active", "ended"} /\ lost \in 0..Losses

Init ==
  /\ kind \in Kinds /\ count = 1 /\ ended = FALSE
  /\ at = "none" /\ after = 0 /\ batch = 0 /\ over = FALSE /\ wire = <<>>
  /\ browser = "connecting" /\ last = 0 /\ calls = <<>> /\ crossed = FALSE /\ view = "active" /\ lost = 0

NextStage ==
  /\ ~ended /\ count < MaxStages
  /\ count' = count + 1 /\ ended' \in BOOLEAN
  /\ count' = MaxStages => ended'
  /\ UNCHANGED kind

\* The task appends a stage, with its row, in one transaction; the last one ends it.
Advance == NextStage /\ UNCHANGED <<stream, wire, client, lost>>

\* A call is made; it may cross another.
Call(by) ==
  /\ calls' = Append(calls, [by |-> by, got |-> "sent"])
  /\ crossed' = (crossed \/ calls # <<>>)

InProgress(by) == \E i \in DOMAIN calls : calls[i].by = by
Answered(i) == SubSeq(calls, 1, i - 1) \o SubSeq(calls, i + 1, Len(calls))

\* refresh, refreshActive, refreshTask: a call for the row, one at once but for certificates.
Refresh ==
  IF Len(calls) = MaxCalls \/ (kind \in Coalesces /\ InProgress("refresh")) THEN UNCHANGED <<calls, crossed>>
  ELSE Call("refresh")

-----------------------------------------------------------------------------
(* The server.                                                             *)

\* parseLastEventID, the first read of the row, and a snapshot for a browser that has seen nothing.
Accept ==
  /\ browser = "connecting" /\ at = "none"
  /\ browser' = "open" /\ at' = "list" /\ after' = last
  /\ wire' = IF last = 0 THEN <<[id |-> 0, name |-> "snapshot"]>> ELSE <<>>
  /\ IF kind \in Coalesces THEN UNCHANGED <<calls, crossed>> ELSE Refresh
  /\ UNCHANGED <<task, batch, over, last, view, lost>>

\* Stages after the last one sent.
List ==
  /\ at = "list" /\ at' = "read" /\ batch' = count
  /\ UNCHANGED <<task, after, over, wire, client, lost>>

\* The row.
ReadRow(next) ==
  /\ at = "read" /\ over' = ended
  /\ at' = IF ended THEN next ELSE "send"
  /\ UNCHANGED <<task, after, batch, wire, client, lost>>

\* The stages once more, now that there will be none after them.
ListAgain ==
  /\ at = "again" /\ at' = "send" /\ batch' = count
  /\ UNCHANGED <<task, after, over, wire, client, lost>>

\* A stage is the terminal one if it is the stage of a terminal row.
NameOf(id) == IF over /\ id = count THEN "terminal" ELSE "stage"

\* (Mutant: go on after the stages there are now.)
SendAndSkip ==
  /\ at = "send" /\ after < batch
  /\ after' = count
  /\ wire' = Append(wire, [id |-> after + 1, name |-> NameOf(after + 1)])
  /\ UNCHANGED <<task, at, batch, over, client, lost>>

\* writeReleaseSSEEvent.
Send ==
  /\ at = "send" /\ after < batch
  /\ after' = after + 1
  /\ wire' = Append(wire, [id |-> after + 1, name |-> NameOf(after + 1)])
  /\ UNCHANGED <<task, at, batch, over, client, lost>>

\* Every event of the list is sent: the response ends with the task, or waits.
Sent ==
  /\ at = "send" /\ after >= batch
  /\ IF over THEN at' = "none" /\ wire' = Append(wire, Closed)
             ELSE at' = "sleep" /\ UNCHANGED wire
  /\ after' = (IF over THEN 0 ELSE after) /\ batch' = 0 /\ over' = FALSE
  /\ UNCHANGED <<task, client, lost>>

Wake ==
  /\ at = "sleep" /\ at' = "list"
  /\ UNCHANGED <<task, after, batch, over, wire, client, lost>>

Loop(next) == List \/ ReadRow(next) \/ ListAgain \/ Send \/ Sent \/ Wake

\* The five handlers.
ReleaseEvents     == kind = "release" /\ Loop("again")
RouteEvents       == kind = "route" /\ Loop("again")
RestoreEvents     == kind = "restore" /\ Loop("send")
RestartEvents     == kind = "restart" /\ Loop("send")
CertificateEvents == kind = "certificate" /\ Loop("send")

-----------------------------------------------------------------------------
(* The browser.                                                            *)

\* An event arrives.  The view of certificates is not told of named events, and asks for the row
\* when a connection opens or ends; the others do when an event tells them to.
Receive ==
  /\ browser = "open" /\ wire # <<>> /\ wire' = Tail(wire)
  /\ LET event == Head(wire)
     IN  IF event = Closed
         THEN /\ browser' = "connecting" /\ UNCHANGED last
              /\ IF kind \in Coalesces THEN UNCHANGED <<calls, crossed>> ELSE Refresh
         ELSE /\ last' = event.id /\ UNCHANGED browser
              /\ IF kind \in Coalesces THEN Refresh ELSE UNCHANGED <<calls, crossed>>
  /\ UNCHANGED <<task, stream, view, lost>>

\* resume: the page of a release or of a route test is entered again.
Resume ==
  /\ kind \in Resumable /\ Len(calls) < MaxCalls /\ Call("resume")
  /\ UNCHANGED <<task, stream, wire, browser, last, view, lost>>

\* cancel: of a route test that is not shown as over, one at once.
Cancel ==
  /\ kind = "route" /\ view = "active" /\ ~InProgress("cancel") /\ Len(calls) < MaxCalls /\ Call("cancel")
  /\ UNCHANGED <<task, stream, wire, browser, last, view, lost>>

Bring(i) == calls' = [calls EXCEPT ![i].got = IF ended' THEN "ended" ELSE "active"]

\* The server answers a call with the row as it is.
AnswerCall(i) ==
  /\ i \in DOMAIN calls /\ calls[i].got = "sent" /\ calls[i].by # "cancel"
  /\ UNCHANGED task /\ Bring(i)
  /\ UNCHANGED <<stream, wire, browser, last, crossed, view, lost>>

\* RequestRouteRunCancellation: a stage of its own, which ends a task that was queued; nothing if it
\* had been asked before; an error if the task is over.
AnswerCancel(i) ==
  /\ i \in DOMAIN calls /\ calls[i].got = "sent" /\ calls[i].by = "cancel"
  /\ \/ ~ended /\ (NextStage \/ UNCHANGED task) /\ Bring(i)
     \/ ended /\ UNCHANGED task /\ calls' = Answered(i)
  /\ UNCHANGED <<stream, wire, browser, last, crossed, view, lost>>

Disconnected == at' = "none" /\ after' = 0 /\ batch' = 0 /\ over' = FALSE /\ wire' = <<>>

\* The answer arrives, in any order: an end closes the stream, resume opens one that begins anew.
TakeAnswer(i) ==
  /\ i \in DOMAIN calls /\ calls[i].got # "sent"
  /\ view' = calls[i].got
  /\ calls' = Answered(i)
  /\ \/ calls[i].got = "ended" /\ browser' = "closed" /\ Disconnected /\ UNCHANGED last
     \/ calls[i].got = "active" /\ calls[i].by = "resume" /\ browser' = "connecting" /\ Disconnected /\ last' = 0
     \/ calls[i].got = "active" /\ calls[i].by # "resume" /\ UNCHANGED <<browser, stream, wire, last>>
  /\ UNCHANGED <<task, crossed, lost>>

\* A connection breaks with what is on its way, or a call does.
Break ==
  /\ browser = "open" /\ lost < Losses /\ lost' = lost + 1
  /\ browser' = "connecting" /\ Disconnected
  /\ IF kind \in Coalesces THEN UNCHANGED <<calls, crossed>> ELSE Refresh
  /\ UNCHANGED <<task, last, view>>

LoseCall(i) ==
  /\ i \in DOMAIN calls /\ lost < Losses /\ lost' = lost + 1
  /\ calls' = Answered(i)
  /\ UNCHANGED <<task, stream, wire, browser, last, crossed, view>>

Next ==
  \/ Advance \/ Accept
  \/ ReleaseEvents \/ RouteEvents \/ RestoreEvents \/ RestartEvents \/ CertificateEvents
  \/ Receive \/ Break \/ Resume \/ Cancel
  \/ \E i \in 1..MaxCalls : AnswerCall(i) \/ AnswerCancel(i) \/ TakeAnswer(i) \/ LoseCall(i)

Spec == Init /\ [][Next]_vars

-----------------------------------------------------------------------------
(* Properties.                                                             *)

\* The stages on their way continue what the browser has heard, each once and in order, over any number
\* of connections: none is skipped and none is sent again (Last-Event-ID, the after of the handlers).
StagesInOrder ==
  LET stages == SelectSeq(wire, LAMBDA e : e.name \in {"stage", "terminal"})
  IN \A i \in DOMAIN stages : stages[i].id = last + i

\* An event is called terminal if and only if the task ends with its stage and the server knew it:
\* the one that ends the stream of a release or a route test always is.
TerminalIsLast ==
  \A i \in DOMAIN wire :
    /\ wire[i].name = "terminal" => ended /\ wire[i].id = count
    /\ wire[i] = Closed /\ kind \in Rereads =>
         IF i = 1 THEN last = count ELSE wire[i - 1].id = count

\* An end that is shown is taken back only where two calls were in progress at once: a refresh alone,
\* of which the stores make one at a time, never undoes what the one before it has shown, and never
\* leaves a task shown as active whose stream was closed (refreshPromise).
EndStays == [][view = "ended" /\ ~crossed => view' = "ended"]_vars
ClosedShowsTheEnd == browser = "closed" /\ ~crossed => view = "ended" /\ ended
=============================================================================
