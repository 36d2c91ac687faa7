------------------------------ MODULE UILifecycle ------------------------------
(***************************************************************************)
(* The life of the UI process: the order in which it reconciles what the   *)
(* process before it left and begins to serve, and the order in which it   *)
(* drains the requests, stops the owners of its tasks and closes the       *)
(* stores (runUI).  What a task does is in the modules of the services;    *)
(* here it has a row in the database, a goroutine, and one end.            *)
(***************************************************************************)
EXTENDS Naturals, Sequences, FiniteSets

CONSTANTS
  Tasks, \* the tasks that can be in the database at once
  KindsOf, \* task -> the kinds it may be of (bound)
  Slots, \* certificate tasks that run at once (certificateTaskConcurrency)
  Limit  \* certificate tasks the owner takes, those that wait included (certificateTaskOwnerLimit)

VARIABLES
  phase,     \* "down", "starting", "serving", "draining", "stopping", "closed"
  position,  \* how far the start-up or the shutdown is
  open,      \* the stores that are open
  owner,     \* kind of task -> "absent", "taking", "stopping", "stopped"
  scheduler, \* of renewals: "absent", "polling", "cancelled", "ended"
  cleaner,   \* of sessions: "absent", "waiting", "working", "ended"
  expired,   \* the window the shutdown gives its tasks is over
  gaveUp,    \* what the shutdown did not wait for any longer
  task       \* task -> its kind, where it is, the process that queued it, and why it is left

vars == <<phase, position, open, owner, scheduler, cleaner, expired, gaveUp, task>>

Kinds == {"release", "recovery", "route", "certificate"}

NoTask == [kind |-> "none", at |-> "none", born |-> "none", why |-> "none"]
NewTask(k, where) == [NoTask EXCEPT !.kind = k, !.at = where, !.born = "now"]

At(where)       == {t \in Tasks : task[t].at \in where}
OfKind(k)       == {t \in Tasks : task[t].kind = k}
Running(k)      == OfKind(k) \cap At({"running", "cancelled"})
Held(k)         == OfKind(k) \cap At({"waiting", "withdrawn", "running", "cancelled"})
Row             == {"created", "scheduled", "waiting", "withdrawn", "running", "cancelled", "left"}
InFlight        == At({"asked", "created"})
Move(set, where) == [t \in Tasks |-> IF t \in set THEN [task[t] EXCEPT !.at = where] ELSE task[t]]
Leave(t, why)   == [task EXCEPT ![t].at = "left", ![t].why = why]
EndContext(t, by) ==
  CASE task[t].at = "waiting" -> [task[t] EXCEPT !.at = "withdrawn", !.why = by]
    [] task[t].at = "running" -> [task[t] EXCEPT !.at = "cancelled"]
    [] OTHER -> task[t]
EndContexts(k)  == [t \in Tasks |-> IF t \in OfKind(k) THEN EndContext(t, "shutdown") ELSE task[t]]
Drop(set)       == [t \in Tasks |-> IF t \in set THEN NoTask ELSE task[t]]

Init ==
  /\ phase = "down" /\ position = 0 /\ open = {}
  /\ owner = [k \in Kinds |-> "absent"]
  /\ scheduler = "absent" /\ cleaner = "absent"
  /\ expired = FALSE /\ gaveUp = {}
  /\ task = [t \in Tasks |-> NoTask]

-------------------------------------------------------------------------------
(* Start-up. *)

StartUp ==
  <<"sessions", "release", "recovery", "route", "workspaces", "vault", "certificate", "scheduler", "server">>

Turn(step) == phase = "starting" /\ StartUp[position] = step

OpenDatabase ==
  /\ phase = "down"
  /\ phase' = "starting" /\ position' = 1 /\ open' = {"database"}
  /\ UNCHANGED <<owner, scheduler, cleaner, expired, gaveUp, task>>

\* The administrator is created; later also the workspaces are repaired. Neither is about tasks.
Bootstrap ==
  /\ Turn("sessions")
  /\ position' = position + 1
  /\ UNCHANGED <<phase, open, owner, scheduler, cleaner, expired, gaveUp, task>>

\* Settle the rows the last process left, then be ready to own new ones.
Settle(k) ==
  /\ position' = position + 1
  /\ task' = Drop(OfKind(k) \cap At({"left"}))
  /\ owner' = [owner EXCEPT ![k] = "taking"]
  /\ UNCHANGED <<phase, open, scheduler, cleaner, expired, gaveUp>>

ReconcileReleases == Turn("release") /\ Settle("release")
ReconcileRecovery == Turn("recovery") /\ Settle("recovery")
ReconcileRoutes   == Turn("route") /\ Settle("route")

ReconcileWorkspaces ==
  /\ Turn("workspaces")
  /\ position' = position + 1
  /\ UNCHANGED <<phase, open, owner, scheduler, cleaner, expired, gaveUp, task>>

OpenVault ==
  /\ Turn("vault")
  /\ position' = position + 1 /\ open' = open \union {"vault"}
  /\ UNCHANGED <<phase, owner, scheduler, cleaner, expired, gaveUp, task>>

ReconcileCertificates == Turn("certificate") /\ Settle("certificate")

\* The scheduler polls at once, before the server listens.
StartScheduler ==
  /\ Turn("scheduler")
  /\ position' = position + 1 /\ scheduler' = "polling"
  /\ UNCHANGED <<phase, open, owner, cleaner, expired, gaveUp, task>>

Serve ==
  /\ Turn("server")
  /\ phase' = "serving" /\ cleaner' = "working"
  /\ UNCHANGED <<position, open, owner, scheduler, expired, gaveUp, task>>

\* Any step up to the scheduler may fail, also because the process is told to end: everything is
\* closed again and the process exits.
FailToStart ==
  /\ phase = "starting" /\ scheduler = "absent"
  /\ phase' = "down" /\ position' = 0 /\ open' = {}
  /\ owner' = [k \in Kinds |-> "absent"]
  /\ UNCHANGED <<scheduler, cleaner, expired, gaveUp, task>>

-------------------------------------------------------------------------------
(* Requests and tasks. *)

\* A request for a task of kind k arrives while the server listens.
Ask(t, k) ==
  /\ phase = "serving"
  /\ task[t] = NoTask /\ k \in KindsOf[t]
  /\ task' = [task EXCEPT ![t] = NewTask(k, "asked")]
  /\ UNCHANGED <<phase, position, open, owner, scheduler, cleaner, expired, gaveUp>>

\* Its handler stores the row, or answers with an error.
Create(t) ==
  /\ t \in At({"asked"})
  /\ \/ "database" \in open /\ task' = Move({t}, "created")
     \/ task' = Drop({t})
  /\ UNCHANGED <<phase, position, open, owner, scheduler, cleaner, expired, gaveUp>>

\* The scheduler queues a renewal and will then hand it to its owner, also if it is cancelled in between.
Poll(t) ==
  /\ scheduler = "polling"
  /\ "database" \in open
  /\ task[t] = NoTask /\ "certificate" \in KindsOf[t]
  /\ task' = [task EXCEPT ![t] = NewTask("certificate", "scheduled")]
  /\ UNCHANGED <<phase, position, open, owner, scheduler, cleaner, expired, gaveUp>>

\* The task is handed to its owner, which takes it unless it is stopping, or holds as many
\* certificate tasks as it may. A refused route test is cancelled in the database, if that can be
\* written; of a certificate task only the wish is, and its row stays as it is, as every other.
Start(t) ==
  /\ t \in At({"created", "scheduled"})
  /\ LET k == task[t].kind
         full == k = "certificate" /\ Cardinality(Held(k)) >= Limit
     IN  \/ /\ owner[k] = "taking" /\ ~full
            /\ task' = Move({t}, IF k = "certificate" THEN "waiting" ELSE "running")
         \/ owner[k] = "taking" /\ full /\ task' = Leave(t, "full")
         \/ owner[k] # "taking" /\ task' = Leave(t, "refused")
         \/ owner[k] # "taking" /\ k = "route" /\ "database" \in open /\ task' = Drop({t})
  /\ UNCHANGED <<phase, position, open, owner, scheduler, cleaner, expired, gaveUp>>

\* A certificate task that waits finds a free slot.
TakeSlot(t) ==
  /\ t \in At({"waiting"})
  /\ Cardinality(Running("certificate")) < Slots
  /\ task' = Move({t}, "running")
  /\ UNCHANGED <<phase, position, open, owner, scheduler, cleaner, expired, gaveUp>>

\* Its client cancels a task; the owner cancels its context.
Cancel(t) ==
  /\ phase \in {"serving", "draining"}
  /\ task[t].kind \in {"certificate", "route"} /\ t \in At({"waiting", "running"})
  /\ task' = [task EXCEPT ![t] = EndContext(t, "client")]
  /\ UNCHANGED <<phase, position, open, owner, scheduler, cleaner, expired, gaveUp>>

\* A certificate task that was cancelled while it waited is dropped: nobody ends its row.
Withdraw(t) ==
  /\ t \in At({"withdrawn"})
  /\ task' = Leave(t, task[t].why)
  /\ UNCHANGED <<phase, position, open, owner, scheduler, cleaner, expired, gaveUp>>

\* A task ends with its row; or without it, because the end could not be written or was refused.
Finish(t) ==
  /\ t \in At({"running", "cancelled"})
  /\ \/ "database" \in open /\ task' = Drop({t})
     \/ "database" \in open /\ task' = Leave(t, "unwritten")
     \/ "database" \notin open /\ task' = Leave(t, "late")
  /\ UNCHANGED <<phase, position, open, owner, scheduler, cleaner, expired, gaveUp>>

\* A release or a recovery whose context ends may leave its row to the next start.
Abandon(t) ==
  /\ t \in At({"cancelled"}) /\ task[t].kind \in {"release", "recovery"}
  /\ task' = Leave(t, "late")
  /\ UNCHANGED <<phase, position, open, owner, scheduler, cleaner, expired, gaveUp>>

\* The worker that deletes expired sessions rests after each attempt and is cancelled in its rest.
Clean ==
  /\ \/ cleaner = "waiting" /\ phase \in {"serving", "draining"} /\ cleaner' = "working"
     \/ cleaner = "working" /\ phase \in {"serving", "draining"} /\ cleaner' = "waiting"
     \/ cleaner \in {"waiting", "working"} /\ phase \in {"draining", "stopping"} /\ cleaner' = "ended"
  /\ UNCHANGED <<phase, position, open, owner, scheduler, expired, gaveUp, task>>

-------------------------------------------------------------------------------
(* Shutdown. *)

Stops == <<"cleaner", "recovery", "scheduler", "certificate", "route", "release", "stores">>

Stopping(what) == phase = "stopping" /\ Stops[position] = what

\* The process is told to end: the server accepts no more requests.
Terminate ==
  /\ phase = "serving"
  /\ phase' = "draining"
  /\ UNCHANGED <<position, open, owner, scheduler, cleaner, expired, gaveUp, task>>

\* It waits for the requests in flight, as long as the timeout; or the listener failed.
Drain ==
  /\ \/ phase = "draining" /\ InFlight = {} /\ gaveUp' = gaveUp
     \/ phase = "draining" /\ gaveUp' = gaveUp \union {"server"}
     \/ phase = "serving" /\ gaveUp' = gaveUp \union {"server"}
  /\ phase' = "stopping" /\ position' = 1
  /\ UNCHANGED <<open, owner, scheduler, cleaner, expired, task>>

\* The worker of the sessions is awaited without a limit, then the scheduler is cancelled.
CleanerEnds ==
  /\ Stopping("cleaner") /\ cleaner = "ended"
  /\ position' = position + 1
  /\ scheduler' = "cancelled"
  /\ UNCHANGED <<phase, open, owner, cleaner, expired, gaveUp, task>>

\* One window for all owners.
Expire ==
  /\ phase = "stopping" /\ position > 1 /\ ~expired
  /\ expired' = TRUE
  /\ UNCHANGED <<phase, position, open, owner, scheduler, cleaner, gaveUp, task>>

\* The scheduler ends when it is not between the row and the owner of a renewal.
SchedulerEnds ==
  /\ scheduler = "cancelled" /\ At({"scheduled"}) = {}
  /\ scheduler' = "ended"
  /\ UNCHANGED <<phase, position, open, owner, cleaner, expired, gaveUp, task>>

SchedulerStops ==
  /\ Stopping("scheduler")
  /\ \/ scheduler = "ended" /\ gaveUp' = gaveUp
     \/ expired /\ gaveUp' = gaveUp \union {"scheduler"}
  /\ position' = position + 1
  /\ UNCHANGED <<phase, open, owner, scheduler, cleaner, expired, task>>

\* Certificates and route tests are cancelled when their owner stops, the others when the window
\* is over.
Stop(k) ==
  /\ Stopping(k) /\ owner[k] = "taking"
  /\ owner' = [owner EXCEPT ![k] = "stopping"]
  /\ task' = IF k \in {"certificate", "route"} THEN EndContexts(k) ELSE task
  /\ UNCHANGED <<phase, position, open, scheduler, cleaner, expired, gaveUp>>

\* (Mutant: Stop does not wait for its tasks.)
StoppedAtOnce(k) ==
  /\ Stopping(k) /\ owner[k] = "stopping"
  /\ owner' = [owner EXCEPT ![k] = "stopped"] /\ position' = position + 1
  /\ UNCHANGED <<phase, open, scheduler, cleaner, expired, gaveUp, task>>

Stopped(k) ==
  /\ Stopping(k) /\ owner[k] = "stopping"
  /\ \/ Held(k) = {} /\ UNCHANGED <<gaveUp, task>>
     \/ expired /\ gaveUp' = gaveUp \union {k} /\ task' = EndContexts(k)
  /\ owner' = [owner EXCEPT ![k] = "stopped"] /\ position' = position + 1
  /\ UNCHANGED <<phase, open, scheduler, cleaner, expired>>

CloseStores ==
  /\ Stopping("stores")
  /\ phase' = "closed" /\ open' = {}
  /\ UNCHANGED <<position, owner, scheduler, cleaner, expired, gaveUp, task>>

\* The process is gone, at the end or at any moment; what has a row is left to the next one.
Exit ==
  /\ phase # "down"
  /\ phase' = "down" /\ position' = 0 /\ open' = {}
  /\ owner' = [k \in Kinds |-> "absent"]
  /\ scheduler' = "absent" /\ cleaner' = "absent"
  /\ expired' = FALSE /\ gaveUp' = {}
  /\ task' = [t \in Tasks |-> IF task[t].at \in Row
                              THEN [NewTask(task[t].kind, "left") EXCEPT !.born = "before"]
                              ELSE NoTask]

Next ==
  \/ OpenDatabase \/ Bootstrap \/ ReconcileReleases \/ ReconcileRecovery \/ ReconcileRoutes
  \/ ReconcileWorkspaces \/ OpenVault \/ ReconcileCertificates \/ StartScheduler \/ Serve
  \/ FailToStart \/ Clean \/ Terminate \/ Drain \/ CleanerEnds \/ Expire \/ SchedulerEnds
  \/ SchedulerStops \/ CloseStores \/ Exit
  \/ \E k \in Kinds : Stop(k) \/ Stopped(k) \/ \E t \in Tasks : Ask(t, k)
  \/ \E t \in Tasks : \/ Create(t) \/ Poll(t) \/ Start(t) \/ TakeSlot(t) \/ Cancel(t) \/ Withdraw(t)
                      \/ Finish(t) \/ Abandon(t)

Spec == Init /\ [][Next]_vars

-------------------------------------------------------------------------------
(* Properties. *)

\* The variables have their types.
TypeOK ==
  /\ phase \in {"down", "starting", "serving", "draining", "stopping", "closed"}
  /\ position \in 0 .. Len(StartUp) /\ open \subseteq {"database", "vault"}
  /\ owner \in [Kinds -> {"absent", "taking", "stopping", "stopped"}]
  /\ scheduler \in {"absent", "polling", "cancelled", "ended"}
  /\ cleaner \in {"absent", "waiting", "working", "ended"}
  /\ expired \in BOOLEAN /\ gaveUp \subseteq {"server", "scheduler"} \union Kinds
  /\ task \in [Tasks -> [kind : Kinds \union {"none"},
                        at : Row \union {"none", "asked"}, born : {"none", "now", "before"},
                        why : {"none", "full", "refused", "client", "shutdown", "unwritten", "late"}]]

\* No request is answered and no renewal queued while a row an earlier process left is not
\* settled (runUI, the reconciliations before the scheduler and the server).
LeftoversAreSettledFirst ==
  (\E t \in Tasks : task[t].at = "left" /\ task[t].born = "before")
    => phase \in {"down", "starting"} /\ scheduler = "absent"

\* A shutdown that waited for everything leaves no goroutine that could use the database or the
\* vault after they are closed, and no handler (the Stop of each owner, Server.Shutdown).
StoresOutliveTheirUsers ==
  open = {} /\ phase = "closed" /\ gaveUp = {}
    => /\ At({"asked"} \union (Row \ {"left"})) = {}
       /\ scheduler = "ended" /\ cleaner = "ended"

\* A row has an owner as long as the process lives, with these exceptions only: the shutdown ran out
\* of time, its end could not be written, the owner was full, or it is a certificate task that
\* waited for a slot when its client, or the shutdown, cancelled it. In particular no owner refuses
\* a task because it is stopping, and no task outlives the database, in a shutdown that waited for
\* everything (Start and Stop of each owner, the order of runUI).
AcceptedWorkIsOwned ==
  \A t \in At({"left"}) : task[t].born = "now" =>
    \/ gaveUp # {}
    \/ task[t].why \in {"unwritten", "full", "client"}
    \/ task[t].why = "shutdown" /\ owner["certificate"] # "taking"
===============================================================================
