----------------------------- MODULE Certificates -----------------------------
(***************************************************************************)
(* Certificates of the UI: tasks that order, renew and bind them, and what *)
(* a task leaves in four places that no transaction spans: the database    *)
(* (tasks, certificates, bindings, challenge artifacts), the vault         *)
(* (immutable versions), the configuration nginx serves (the bound version *)
(* and the HTTP challenges) and the DNS (TXT records).                     *)
(*                                                                         *)
(* A task is run by one goroutine of the task owner, which advances the    *)
(* row by compare and swap before every stage, so the row always says at   *)
(* least how far the task got.  Its context ends when a user cancels, when *)
(* thirty minutes are over or when the UI stops.  A configuration is       *)
(* published with the release transaction of the UI, of which only the     *)
(* outcome is kept: published, refused or taken back, or uncertain.        *)
(*                                                                         *)
(* The version a task makes is named by the task, the version a            *)
(* certificate has at the start by the certificate.  "expiring" is         *)
(* "active" here: no step tells them apart.  There is no clock: what time  *)
(* can make true (a renewal is due, a certificate has expired) may be true *)
(* at any moment.                                                          *)
(***************************************************************************)
EXTENDS Naturals, FiniteSets

CONSTANTS
  Certs,       \* certificates
  Tasks,       \* tasks that may be created
  NoVersion,
  Slots,       \* tasks that run at once (certificateTaskConcurrency)
  OwnerLimit,  \* tasks the owner takes (certificateTaskOwnerLimit)
  Faults,      \* what may fail: "store", "vault", "acme", "dns", "reply", "release", "doubt",
               \* "death", "stop", "timeout", "damage"
  Edits,       \* bound: releases of others
  Budget       \* bound: faults, releases of others, and requests other than the first task and cancellations

ASSUME CertificateAssumption ==
  /\ Certs \cap Tasks = {} /\ NoVersion \notin Certs \cup Tasks
  /\ Edits \in Nat /\ Budget \in Nat

VARIABLES
  \* the database
  row,       \* certificate_tasks, with the part of the plan that matters
  item,      \* certificates, with the version their bindings name
  artifact,  \* certificate_challenge_artifacts, at most one a task
  \* the vault
  vault,     \* versions whose directory is whole
  \* production and the world
  served,    \* the version the bound servers use
  include,   \* tasks whose HTTP challenge is in production
  txt,       \* tasks whose TXT record is in the DNS
  edits,     \* releases by others
  \* the UI process
  ui,        \* "down", "tasks" (ReconcileInterrupted), "up", "stopping"
  at,        \* where the goroutine of each task is
  gone,      \* tasks whose context has ended
  inquiry,   \* requests for a task, with what they have read so far
  asked,     \* cancellations recorded whose signal is still to be sent
  unbinding, \* Unbind has published, and not yet committed
  removal,   \* Delete: "none", "checked" or "committed"
  \* history, for the properties
  drift,     \* certificates whose rows and production a fault, or a stale plan, has separated
  orphan,    \* tasks whose TXT record the UI never learned of
  damaged,   \* versions lost from the vault by damage
  left       \* what is left of Budget

rows == <<row, item, artifact>>
world == <<served, include, txt, edits>>
requests == <<inquiry, asked, unbinding, removal>>
history == <<drift, orphan, damaged>>
vars == <<rows, vault, world, ui, at, gone, requests, history, left>>

Versions == Tasks \cup Certs
TaskStates == {"queued", "running", "succeeded", "failed", "cancelled", "needs_attention"}
Active == {"queued", "running"}
TaskKinds == {"issue", "staging", "renew", "bind"}
Stages == {"queued", "preparing", "ordering", "provisioning", "propagating", "authorizing", "cleaning",
           "finalizing", "validating", "deploying", "completed", "failed", "cancelled", "needs_attention"}
CertificateStates == {"none", "unbound", "active", "expired", "needs_attention", "deleted"}
Renewable == {"active", "expired", "unbound"}

\* The production digest: what the plan was reviewed against.
Content == [served |-> served, include |-> include, edits |-> edits]
Contents == [served : [Certs -> Versions \cup {NoVersion}], include : SUBSET Tasks, edits : 0..Edits]

NoTask == [kind |-> "issue", cert |-> NoVersion, challenge |-> "http", bound |-> FALSE,
           plan |-> [served |-> [c \in Certs |-> NoVersion], include |-> {}, edits |-> 0],
           state |-> "none", stage |-> "queued", cancel |-> FALSE]
IsTask(r) ==
  /\ r.kind \in TaskKinds /\ r.cert \in Certs \cup (IF r.state = "none" THEN {NoVersion} ELSE {}) /\ r.challenge \in {"http", "dns"} /\ r.bound \in BOOLEAN
  /\ r.plan \in Contents /\ r.state \in TaskStates \cup {"none"} /\ r.stage \in Stages /\ r.cancel \in BOOLEAN

Items == [state : CertificateStates, version : Versions \cup {NoVersion}, bound : Versions \cup {NoVersion},
          challenge : {"http", "dns"}, auto : BOOLEAN]
NoItem == [state |-> "none", version |-> NoVersion, bound |-> NoVersion, challenge |-> "http",
           auto |-> FALSE]

\* A request for a task: what it has read so far, and what the task will be told.
Steps == {"none", "due", "planned", "certificate", "bindings", "reviewed"}
NoInquiry == [step |-> "none", kind |-> "issue", cert |-> NoVersion, automatic |-> FALSE,
              version |-> NoVersion, bound |-> FALSE, plan |-> NoTask.plan]
Inquiries == [step : Steps, kind : {"issue", "renew", "bind"}, cert : Certs \cup {NoVersion}, automatic : BOOLEAN,
              version : Versions \cup {NoVersion}, bound : BOOLEAN, plan : Contents]

Points == {"none", "pending", "read", "begin", "prepared", "ordering", "provisioning", "provision", "recorded",
           "retract", "claimed", "provisioned", "authorizing", "cleaning", "cleaned", "finalizing", "validating",
           "stored", "deploying", "deployed", "binding", "bound", "undo", "discard", "abandon", "failing", "quitting", "doubt"}

TypeOK ==
  /\ \A t \in Tasks : IsTask(row[t])
  /\ item \in [Certs -> Items]
  /\ artifact \in [Tasks -> {"none", "created", "cleaned", "needs_attention"}]
  /\ vault \subseteq Versions /\ served \in [Certs -> Versions \cup {NoVersion}]
  /\ include \subseteq Tasks /\ txt \subseteq Tasks /\ edits \in 0..Edits
  /\ ui \in {"down", "tasks", "up", "stopping"}
  /\ at \in [Tasks -> Points] /\ gone \subseteq Tasks /\ asked \subseteq Tasks
  /\ inquiry \in [Tasks -> Inquiries] /\ \A t \in Tasks : inquiry[t].step # "none" => inquiry[t].cert \in Certs
  /\ unbinding \subseteq Certs /\ removal \in [Certs -> {"none", "checked", "committed"}]
  /\ drift \subseteq Certs /\ orphan \subseteq Tasks /\ damaged \subseteq Versions
  /\ left \in 0..Budget

\* A certificate that is there at the start: its material is stored, and production uses it if it is bound.
Issued(state, challenge) ==
  \* state: "none", "unbound" or "active"
  [c \in Certs |->
    IF state[c] = "none" THEN NoItem
    ELSE [state |-> state[c], version |-> c, bound |-> IF state[c] = "active" THEN c ELSE NoVersion,
          challenge |-> challenge, auto |-> TRUE]]

Init ==
  /\ row = [t \in Tasks |-> NoTask] /\ artifact = [t \in Tasks |-> "none"]
  /\ \E state \in [Certs -> {"none", "unbound", "active"}], challenge \in {"http", "dns"} :
        item = Issued(state, challenge)
  /\ vault = {c \in Certs : item[c].state # "none"} /\ served = [c \in Certs |-> item[c].bound]
  /\ include = {} /\ txt = {} /\ edits = 0
  /\ ui = "up" /\ at = [t \in Tasks |-> "none"] /\ gone = {} /\ asked = {} /\ unbinding = {}
  /\ removal = [c \in Certs |-> "none"] /\ inquiry = [t \in Tasks |-> NoInquiry]
  /\ drift = {} /\ orphan = {} /\ damaged = {} /\ left = Budget

-------------------------------------------------------------------------------
(* What the handlers share. *)

Fails(what) == what \in Faults /\ left > 0 /\ left' = left - 1
Works == UNCHANGED left
CertOf(t) == row[t].cert
\* The bound: the first task takes none of Budget, every other request one, a task two.
Counts(cost) == left >= cost /\ left' = left - cost
CountsAfterFirst == Counts(IF \A t \in Tasks : row[t].state = "none" /\ inquiry[t] = NoInquiry THEN 0 ELSE 2)
ActiveTasks(c) == {t \in Tasks : row[t].state \in Active /\ CertOf(t) = c}
Owned == {t \in Tasks : at[t] # "none"}
Running == {t \in Owned : at[t] # "pending"}

\* The version that a task deploys: a binding uses the active one.
VersionOf(t) == IF row[t].kind = "bind" THEN item[CertOf(t)].version ELSE t
\* The directory of a certificate in the vault.
VersionsOf(c) == {c} \cup {t \in Tasks : row[t].state # "none" /\ CertOf(t) = c /\ row[t].kind # "bind"}

GoTo(t, point) == at' = [at EXCEPT ![t] = point]
\* The goroutine returns; its context goes with it.
Returns(t) == GoTo(t, "none") /\ gone' = gone \ {t}
Keeps(t, point) == GoTo(t, point) /\ UNCHANGED gone

\* Of a task that is over only kind, certificate and state are read again.
TransitionCertificateTask(t, state, stage) ==
  /\ row[t].state \in Active
  /\ row' = [row EXCEPT ![t] =
       IF state \in Active THEN [@ EXCEPT !.state = state, !.stage = stage]
       ELSE [NoTask EXCEPT !.kind = row[t].kind, !.cert = CertOf(t), !.state = state, !.stage = stage]]

\* A call that takes the task's context fails once that has ended, and any call to the outside may.
CallFails(t, what) == (t \in gone /\ Works) \/ Fails(what)
CallWorks(t) == t \notin gone /\ Works

\* ConfigPublicationService.Publish: a workspace is made, changed, checked and released, for a task.
Publication(t, outcome) ==
  CASE outcome = "published" -> CallWorks(t)
    [] outcome = "refused" -> CallFails(t, "release")
    [] outcome = "doubt" -> Fails("doubt")

\* advance: the row moves first.  If it cannot, the goroutine returns and leaves the task as it is:
\* running in the database, with nobody to run it, until the UI starts again.
AdvanceAs(t, stage, point) ==
  /\ CallWorks(t) /\ TransitionCertificateTask(t, "running", stage) /\ Keeps(t, point)
Strands(t) == CallFails(t, "store") /\ Returns(t) /\ UNCHANGED row
Advance(t, from, stage, point) ==
  /\ at[t] = from /\ (AdvanceAs(t, stage, point) \/ Strands(t))
  /\ UNCHANGED <<item, artifact, vault, world, ui, requests, history>>

\* A call before the next advance fails.
Breaks(t, from, what, point) ==
  /\ at[t] = from /\ CallFails(t, what) /\ Keeps(t, point)
  /\ UNCHANGED <<rows, vault, world, ui, requests, history>>

-------------------------------------------------------------------------------
(* The task owner. *)

\* insertCertificateTaskRecord, whose unique index keeps one active task for a certificate.  A request
\* that was under way when the UI was told to stop may still come that far.
Free(t, c) == ui \in {"up", "stopping"} /\ row[t].state = "none" /\ ActiveTasks(c) = {}
\* A place in the owner: the goroutine waits for a slot.  A task the owner refuses stays queued.
\* If a user has asked for it the handler records a cancellation, the scheduler does not.
Start(t, requested, cancels) ==
  IF ui = "up" /\ Cardinality(Owned) < OwnerLimit
  THEN GoTo(t, "pending") /\ row' = [row EXCEPT ![t] = requested]
  ELSE UNCHANGED at /\ row' = [row EXCEPT ![t] = [requested EXCEPT !.cancel = cancels]]

Take(t) ==
  /\ at[t] = "pending" /\ t \notin gone /\ Cardinality(Running) < Slots
  /\ Keeps(t, "read") /\ Works
  /\ UNCHANGED <<rows, vault, world, ui, requests, history>>

\* A task cancelled before it has a slot leaves the owner; nobody tells the database.
RemovePending(t) ==
  /\ at[t] = "pending" /\ t \in gone
  /\ Returns(t) /\ Works
  /\ UNCHANGED <<rows, vault, world, ui, requests, history>>

\* Run and BindingService.Run begin with the row: a cancellation recorded by now is the end.
Read(t) ==
  /\ at[t] = "read"
  /\ \/ CallFails(t, "store") /\ Returns(t)
     \/ CallWorks(t) /\ Keeps(t, IF row[t].cancel THEN "quitting" ELSE "begin")
  /\ UNCHANGED <<rows, vault, world, ui, requests, history>>

-------------------------------------------------------------------------------
(* OrderService.Run. *)

IsOrder(t) == row[t].kind # "bind"

\* Plan and account; then the key, the client and the identifiers; then the order itself.
Prepare(t) ==
  IsOrder(t) /\ (Advance(t, "begin", "preparing", "prepared") \/ Breaks(t, "begin", "acme", "failing"))
Order(t) ==
  IsOrder(t) /\ (Advance(t, "prepared", "ordering", "ordering") \/ Breaks(t, "prepared", "vault", "failing"))
CreateOrder(t) ==
  \/ Advance(t, "ordering", "provisioning", IF row[t].challenge = "dns" THEN "provisioning" ELSE "provision")
  \/ Breaks(t, "ordering", "acme", "failing")
Propagate(t) == Advance(t, "provisioning", "propagating", "provision")

\* Every authorization is valid already, or there is nothing to answer the challenge with.
ProvisionNothing(t) ==
  /\ at[t] = "provision"
  /\ \/ Works /\ Keeps(t, "provisioned")
     \/ row[t].challenge = "http" /\ ~row[t].bound /\ Works /\ Keeps(t, "failing")
     \/ row[t].challenge = "dns" /\ CallFails(t, "vault") /\ Keeps(t, "failing")
  /\ UNCHANGED <<rows, vault, world, ui, requests, history>>

\* DNS-01: the record is made before anything says that it is there to be cleaned.
CreateTXT(t) ==
  /\ at[t] = "provision" /\ row[t].challenge = "dns"
  /\ \/ CallWorks(t) /\ txt' = txt \cup {t} /\ Keeps(t, "recorded") /\ UNCHANGED orphan
     \/ CallFails(t, "dns") /\ Keeps(t, "undo") /\ UNCHANGED <<txt, orphan>>
     \/ Fails("reply") /\ txt' = txt \cup {t} /\ orphan' = orphan \cup {t} /\ Keeps(t, "undo")
  /\ UNCHANGED <<rows, vault, served, include, edits, ui, requests, drift, damaged>>
OwnTXT(t) ==
  /\ at[t] = "recorded"
  /\ \/ CallWorks(t) /\ artifact' = [artifact EXCEPT ![t] = "created"] /\ Keeps(t, "provisioned")
     \/ CallFails(t, "store") /\ UNCHANGED artifact /\ Keeps(t, "retract")
  /\ UNCHANGED <<row, item, vault, world, ui, requests, history>>
RetractTXT(t) ==
  /\ at[t] = "retract"
  /\ \/ Works /\ txt' = txt \ {t} /\ Keeps(t, "undo")
     \/ Fails("dns") /\ UNCHANGED txt /\ Keeps(t, "doubt")
  /\ UNCHANGED <<rows, vault, served, include, edits, ui, requests, history>>

\* HTTP-01: the artifact first, then the release that makes it true.
OwnInclude(t) ==
  /\ at[t] = "provision" /\ row[t].challenge = "http" /\ row[t].bound
  /\ \/ CallWorks(t) /\ artifact' = [artifact EXCEPT ![t] = "created"] /\ Keeps(t, "claimed")
     \/ CallFails(t, "store") /\ UNCHANGED artifact /\ Keeps(t, "undo")
  /\ UNCHANGED <<row, item, vault, world, ui, requests, history>>
PublishInclude(t) ==
  /\ at[t] = "claimed"
  /\ \/ Publication(t, "published") /\ include' = include \cup {t} /\ Keeps(t, "provisioned")
     \/ Publication(t, "refused") /\ UNCHANGED include /\ Keeps(t, "undo")
     \/ Publication(t, "doubt") /\ include' \in {include, include \cup {t}} /\ Keeps(t, "undo")
  /\ UNCHANGED <<rows, vault, served, txt, edits, ui, requests, history>>

\* The record is read back and waited for; then the authority is asked to look.
AwaitTXT(t) == row[t].challenge = "dns" /\ Breaks(t, "provisioned", "dns", "undo")
Authorize(t) == Advance(t, "provisioned", "authorizing", "authorizing")
Clean(t) == Advance(t, "authorizing", "cleaning", "cleaning") \/ Breaks(t, "authorizing", "acme", "undo")

RemoveChallenge(t) ==
  IF row[t].challenge = "http" THEN include' = include \ {t} /\ UNCHANGED txt
  ELSE txt' = txt \ {t} /\ UNCHANGED include

\* (Mutant: a cleanup that knows HTTP challenges only.)
CleansUpHttpOnly(t) ==
  /\ Works /\ artifact[t] # "needs_attention"
  /\ IF artifact[t] = "created" /\ row[t].challenge = "http"
     THEN RemoveChallenge(t) /\ artifact' = [artifact EXCEPT ![t] = "cleaned"]
     ELSE UNCHANGED <<artifact, include, txt>>
\* Cleanup removes what the artifact names, and the artifact then says so.  Its context is its own.
CleansUp(t) ==
  /\ Works /\ artifact[t] # "needs_attention"
  /\ IF artifact[t] = "created" THEN RemoveChallenge(t) /\ artifact' = [artifact EXCEPT ![t] = "cleaned"]
     ELSE UNCHANGED <<artifact, include, txt>>
CleanupDNSBreaks(t) ==
  /\ row[t].challenge = "dns" /\ artifact[t] = "created"
  /\ \/ Fails("dns") /\ UNCHANGED <<artifact, include, txt>>
     \/ Fails("store") /\ RemoveChallenge(t) /\ UNCHANGED artifact
CleanupHTTPBreaks(t) ==
  /\ row[t].challenge = "http"
  /\ \/ artifact[t] = "needs_attention" /\ Works /\ UNCHANGED <<artifact, include, txt>>
     \/ /\ artifact[t] = "created"
        /\ \/ Fails("release") /\ UNCHANGED <<artifact, include, txt>>
           \/ Fails("store") /\ RemoveChallenge(t) /\ UNCHANGED artifact
           \/ /\ Fails("doubt") /\ include' \in {include, include \ {t}} /\ UNCHANGED txt
              /\ artifact' = [artifact EXCEPT ![t] = "needs_attention"]
CleanupBreaks(t) == CleanupDNSBreaks(t) \/ CleanupHTTPBreaks(t)

\* The challenge is cleaned up: because it has served, or because the task fails.
CleanUp(t) ==
  /\ at[t] \in {"undo", "cleaning"}
  /\ \/ CleansUp(t) /\ Keeps(t, IF at[t] = "undo" THEN "failing" ELSE "cleaned")
     \/ CleanupBreaks(t) /\ Keeps(t, "doubt")
  /\ UNCHANGED <<row, item, vault, served, edits, ui, requests, history>>

Finalize(t) == Advance(t, "cleaned", "finalizing", "finalizing")
Validate(t) ==
  Advance(t, "finalizing", "validating", "validating") \/ Breaks(t, "finalizing", "acme", "failing")
Reject(t) == Breaks(t, "validating", "acme", "failing")

SucceedStaging(t) ==
  /\ at[t] = "validating" /\ row[t].kind = "staging"
  /\ \/ CallWorks(t) /\ TransitionCertificateTask(t, "succeeded", "completed") /\ Returns(t)
     \/ Strands(t)
  /\ UNCHANGED <<item, artifact, vault, world, ui, requests, history>>
StoreCertificateVersion(t) ==
  /\ at[t] = "validating" /\ row[t].kind \in {"issue", "renew"} /\ CallWorks(t)
  /\ vault' = vault \cup {t} /\ Keeps(t, "stored")
  /\ UNCHANGED <<rows, world, ui, requests, history>>

\* deployStoredCertificate: without the stage there is no deployment, and the material goes again.
Deploy(t) ==
  /\ at[t] = "stored"
  /\ \/ AdvanceAs(t, "deploying", "deploying")
     \/ CallFails(t, "store") /\ Keeps(t, "abandon") /\ UNCHANGED row
  /\ UNCHANGED <<item, artifact, vault, world, ui, requests, history>>
Abandon(t) ==
  /\ at[t] = "abandon" /\ Returns(t)
  /\ \/ Works /\ vault' = vault \ {t}
     \/ Fails("vault") /\ UNCHANGED vault
  /\ UNCHANGED <<rows, world, ui, requests, history>>

PlanHolds(t) == row[t].plan = Content

\* (Mutant: an uncertain release is taken for a refused one.)
PublishVersionBoldly(t) ==
  /\ at[t] = "deploying"
  /\ \/ ~row[t].bound /\ Works /\ Keeps(t, "deployed") /\ UNCHANGED <<served, drift>>
     \/ /\ row[t].bound /\ PlanHolds(t) /\ CallWorks(t) /\ Keeps(t, "deployed")
        /\ served' = [served EXCEPT ![CertOf(t)] = t] /\ UNCHANGED drift
     \/ /\ row[t].bound /\ PlanHolds(t) /\ Fails("doubt") /\ Keeps(t, "discard")
        /\ served' \in {served, [served EXCEPT ![CertOf(t)] = t]} /\ drift' = drift \cup {CertOf(t)}
  /\ UNCHANGED <<rows, vault, include, txt, edits, ui, requests, orphan, damaged>>
PublishVersion(t) ==
  /\ at[t] = "deploying"
  /\ \/ ~row[t].bound /\ Works /\ Keeps(t, "deployed") /\ UNCHANGED <<served, drift>>
     \/ /\ row[t].bound /\ PlanHolds(t) /\ Publication(t, "published") /\ Keeps(t, "deployed")
        /\ served' = [served EXCEPT ![CertOf(t)] = t] /\ UNCHANGED drift
     \/ /\ row[t].bound /\ Keeps(t, "discard") /\ UNCHANGED <<served, drift>>
        /\ (~PlanHolds(t) /\ Works) \/ Publication(t, "refused")
     \/ /\ row[t].bound /\ PlanHolds(t) /\ Publication(t, "doubt") /\ Keeps(t, "doubt")
        /\ served' \in {served, [served EXCEPT ![CertOf(t)] = t]} /\ drift' = drift \cup {CertOf(t)}
  /\ UNCHANGED <<rows, vault, include, txt, edits, ui, requests, orphan, damaged>>
\* The version that production has refused is deleted: nothing refers to it.
Discard(t) ==
  /\ at[t] = "discard"
  /\ \/ Works /\ vault' = vault \ {t} /\ Keeps(t, "failing")
     \/ Fails("vault") /\ UNCHANGED vault /\ Keeps(t, "doubt")
  /\ UNCHANGED <<rows, world, ui, requests, history>>

-------------------------------------------------------------------------------
(* How a task ends. *)

Completed(t) ==
  [state |-> IF row[t].bound THEN "active" ELSE "unbound", version |-> t,
   bound |-> IF row[t].bound THEN t ELSE NoVersion, challenge |-> row[t].challenge,
   auto |-> row[t].kind = "renew" => item[CertOf(t)].auto]
CompleteIssuedCertificateTask(t) ==
  /\ row[t].kind = "issue" /\ item[CertOf(t)].state = "none"
  /\ TransitionCertificateTask(t, "succeeded", "completed") /\ item' = [item EXCEPT ![CertOf(t)] = Completed(t)]
CompleteRenewedCertificateTask(t) ==
  /\ row[t].kind = "renew" /\ item[CertOf(t)].version \notin {NoVersion, t}
  /\ TransitionCertificateTask(t, "succeeded", "completed") /\ item' = [item EXCEPT ![CertOf(t)] = Completed(t)]
\* A renewal planned while its certificate had no servers: the bindings it has got since go with the
\* old version, and the servers keep it.
Overtaken(t) == ~row[t].bound /\ item[CertOf(t)].bound # NoVersion
CompleteProduction(t) ==
  /\ at[t] = "deployed"
  /\ \/ /\ CallWorks(t) /\ Returns(t)
        /\ CompleteIssuedCertificateTask(t) \/ CompleteRenewedCertificateTask(t)
        /\ drift' = IF Overtaken(t) THEN drift \cup {CertOf(t)} ELSE drift
     \/ /\ CallFails(t, "store") /\ Keeps(t, "doubt") /\ UNCHANGED <<row, item>>
        /\ drift' = IF row[t].bound THEN drift \cup {CertOf(t)} ELSE drift
  /\ UNCHANGED <<artifact, vault, world, ui, requests, orphan, damaged>>

\* fail: a context that a recorded cancellation has ended makes it cancelled.  A renewal is due
\* again later, and its certificate is expired if that is what the clock says.
Backoff(c) == {[item EXCEPT ![c].state = state] : state \in {item[c].state, "expired"}}
FailTask(t) ==
  LET end == IF t \in gone /\ (row[t].cancel \/ ~IsOrder(t)) THEN "cancelled" ELSE "failed"
  IN /\ at[t] = "failing" /\ Returns(t)
     /\ \/ /\ Works /\ TransitionCertificateTask(t, end, end)
           /\ IF row[t].kind = "renew" /\ end = "failed" THEN item' \in Backoff(CertOf(t)) ELSE UNCHANGED item
        \/ Fails("store") /\ UNCHANGED <<row, item>>
     /\ UNCHANGED <<artifact, vault, world, ui, requests, history>>
CancelTask(t) ==
  /\ at[t] = "quitting" /\ Returns(t)
  /\ \/ Works /\ TransitionCertificateTask(t, "cancelled", "cancelled")
     \/ Fails("store") /\ UNCHANGED row
  /\ UNCHANGED <<item, artifact, vault, world, ui, requests, history>>
\* needsAttention, except that finishBindingTask calls whatever has ended with its context cancelled.
Doubt(t) ==
  LET end == IF ~IsOrder(t) /\ t \in gone THEN "cancelled" ELSE "needs_attention"
  IN /\ at[t] = "doubt" /\ Returns(t)
     /\ \/ Works /\ TransitionCertificateTask(t, end, end) /\ UNCHANGED orphan
        \/ /\ Fails("store") /\ UNCHANGED row
           /\ orphan' = IF t \in txt /\ artifact[t] = "none" THEN orphan \cup {t} ELSE orphan
     /\ UNCHANGED <<item, artifact, vault, world, ui, requests, drift, damaged>>

-------------------------------------------------------------------------------
(* BindingService.Run: the active version to servers that have none. *)

PrepareBinding(t) ==
  ~IsOrder(t) /\ (Advance(t, "begin", "preparing", "prepared") \/ Breaks(t, "begin", "store", "failing"))
StageBinding(t) == ~IsOrder(t) /\ Advance(t, "prepared", "deploying", "binding")
PublishBinding(t) ==
  LET bound == [served EXCEPT ![CertOf(t)] = VersionOf(t)]
  IN /\ at[t] = "binding"
     /\ \/ /\ PlanHolds(t) /\ served # bound /\ Publication(t, "published") /\ Keeps(t, "bound") /\ served' = bound /\ UNCHANGED drift
        \/ /\ PlanHolds(t) /\ served = bound /\ Publication(t, "published") /\ Keeps(t, "doubt") /\ UNCHANGED <<served, drift>>
        \/ /\ (~PlanHolds(t) /\ Works) \/ Publication(t, "refused")
           /\ Keeps(t, "failing") /\ UNCHANGED <<served, drift>>
        \/ /\ PlanHolds(t) /\ Publication(t, "doubt") /\ Keeps(t, "doubt")
           /\ served' \in {served, bound} /\ drift' = drift \cup {CertOf(t)}
     /\ UNCHANGED <<rows, vault, include, txt, edits, ui, requests, orphan, damaged>>
\* A server has one binding.
Bindable(t) == item[CertOf(t)].state \in Renewable /\ item[CertOf(t)].bound = NoVersion
CompleteCertificateBindingTask(t) ==
  /\ TransitionCertificateTask(t, "succeeded", "completed") /\ Bindable(t)
  /\ \E state \in {"active", "expired"} :
       item' = [item EXCEPT ![CertOf(t)].bound = VersionOf(t), ![CertOf(t)].state = state]
CompleteBinding(t) ==
  /\ at[t] = "bound"
  /\ \/ Works /\ CompleteCertificateBindingTask(t) /\ Returns(t) /\ UNCHANGED drift
     \/ /\ (~Bindable(t) /\ Works) \/ Fails("store")
        /\ Keeps(t, "doubt") /\ UNCHANGED <<row, item>> /\ drift' = drift \cup {CertOf(t)}
  /\ UNCHANGED <<artifact, vault, world, ui, requests, orphan, damaged>>

-------------------------------------------------------------------------------
(* Requests and the scheduler. *)

Inquires(t, reads) ==
  /\ inquiry' = [inquiry EXCEPT ![t] = reads]
  /\ UNCHANGED <<rows, vault, world, ui, at, gone, asked, unbinding, removal, history>>
Unasked(t) == ui = "up" /\ row[t].state = "none" /\ inquiry[t] = NoInquiry
Opens(t, reads) == Unasked(t) /\ CountsAfterFirst /\ Inquires(t, reads)

\* QueueService.Execute up to its review: the plan has named a certificate that no plan before it has.
New(c) == item[c].state = "none" /\ \A t \in Tasks : row[t].state # "none" => CertOf(t) # c
ReviewOrder(t, c) ==
  New(c) /\ Opens(t, [NoInquiry EXCEPT !.step = "reviewed", !.cert = c, !.plan = Content])
\* BindingService.CreatePlan: the version, servers nobody owns and production as it is.
CreatePlan(t, c) ==
  /\ item[c].state \in Renewable /\ item[c].bound = NoVersion
  /\ Opens(t, [NoInquiry EXCEPT !.step = "planned", !.kind = "bind", !.cert = c,
                                 !.version = item[c].version, !.plan = Content])
\* The scheduler lists what is due.
Due(c) == item[c].auto /\ item[c].state \in {"active", "unbound"} /\ ActiveTasks(c) = {}
ListDue(t, c) ==
  Due(c) /\ Opens(t, [NoInquiry EXCEPT !.step = "due", !.kind = "renew", !.cert = c, !.automatic = TRUE])
RequestRenewal(t, c) ==
  /\ item[c].state \in Renewable
  /\ Opens(t, [NoInquiry EXCEPT !.step = "certificate", !.kind = "renew", !.cert = c, !.version = item[c].version])

\* queue and ExecutePlan read the certificate, then its bindings, then production.
ReadCertificate(t) ==
  LET ask == inquiry[t]
      current == item[ask.cert]
  IN /\ ask.step \in {"due", "planned"} /\ current.state \in Renewable
     /\ ask.kind = "bind" => ask.version = current.version
     /\ Works /\ Inquires(t, [ask EXCEPT !.step = "certificate", !.version = current.version])
\* renewalServerRefs wants bindings of the version read, rejectManagedBindingOwners none at all.
ReadBindings(t) ==
  LET ask == inquiry[t]
      current == item[ask.cert].bound
  IN /\ ask.step = "certificate"
     /\ current \in {NoVersion} \cup (IF ask.kind = "renew" THEN {ask.version} ELSE {})
     /\ Works /\ Inquires(t, [ask EXCEPT !.step = "bindings", !.bound = ask.kind = "bind" \/ current # NoVersion])
ReviewProduction(t) ==
  LET ask == inquiry[t]
  IN /\ ask.step = "bindings" /\ (ask.kind = "bind" => ask.plan = Content)
     /\ Works /\ Inquires(t, [ask EXCEPT !.step = "reviewed", !.plan = Content])
\* A request is refused, breaks, or is given up.
Refuse(t) == inquiry[t] # NoInquiry /\ Works /\ Inquires(t, NoInquiry)

Reviewed(t, kind) == inquiry[t].step = "reviewed" /\ inquiry[t].kind = kind
Requested(t, kind, challenge, bound) ==
  [kind |-> kind, cert |-> inquiry[t].cert, challenge |-> challenge, bound |-> bound, plan |-> inquiry[t].plan,
   state |-> "queued", stage |-> "queued", cancel |-> FALSE]
\* What the transaction that queues a task checks again is less than what was read.
Queues(t, requested, cancels) ==
  /\ Free(t, inquiry[t].cert) /\ Start(t, requested, cancels)
  /\ inquiry' = [inquiry EXCEPT ![t] = NoInquiry]
  /\ Works /\ UNCHANGED <<item, artifact, vault, world, ui, gone, asked, unbinding, removal, history>>
QueueIssue(t) ==
  /\ Reviewed(t, "issue") /\ New(inquiry[t].cert)
  /\ \E kind \in {"issue", "staging"}, challenge \in {"http", "dns"}, bound \in BOOLEAN :
        (challenge = "http" => bound) /\ Queues(t, Requested(t, kind, challenge, bound), TRUE)
QueueRenewal(t) ==
  LET current == item[inquiry[t].cert]
  IN /\ Reviewed(t, "renew") /\ current.state \in Renewable /\ current.version \notin {NoVersion, t}
     /\ Queues(t, Requested(t, "renew", current.challenge, inquiry[t].bound), ~inquiry[t].automatic)
QueueBinding(t) ==
  LET current == item[inquiry[t].cert]
  IN /\ Reviewed(t, "bind") /\ current.state \in Renewable /\ current.version = inquiry[t].version
     /\ Queues(t, Requested(t, "bind", current.challenge, TRUE), TRUE)

\* A cancellation is recorded, and the owner is told after that.  Asking again changes nothing.
RequestCancellation(t) ==
  /\ ui = "up" /\ row[t].state \in Active /\ ~(row[t].cancel /\ t \in gone \cup asked)
  /\ row' = [row EXCEPT ![t].cancel = TRUE]
  /\ asked' = asked \cup {t}
  /\ Works /\ UNCHANGED <<item, artifact, vault, world, ui, at, gone, inquiry, unbinding, removal, history>>
Signal(t) ==
  /\ t \in asked /\ asked' = asked \ {t} /\ gone' = gone \cup ({t} \cap Owned)
  /\ Works /\ UNCHANGED <<rows, vault, world, ui, at, inquiry, unbinding, removal, history>>
TimesOut(t) ==
  /\ t \in Running \ gone /\ Fails("timeout") /\ gone' = gone \cup {t}
  /\ UNCHANGED <<rows, vault, world, ui, at, requests, history>>

Unbindable(c) == item[c].state # "deleted" /\ item[c].version # NoVersion /\ ActiveTasks(c) = {}
CompleteCertificateUnbinding(c) ==
  Unbindable(c) /\ item' = [item EXCEPT ![c].bound = NoVersion, ![c].state = "unbound"]
\* Unbind has no task: it publishes, and then the rows follow unless a task has begun meanwhile.
PublishUnbinding(c) ==
  /\ ui = "up" /\ c \notin unbinding /\ item[c].bound # NoVersion /\ item[c].state # "deleted"
  /\ served[c] = item[c].version
  /\ \/ /\ Counts(1) /\ served' = [served EXCEPT ![c] = NoVersion] /\ unbinding' = unbinding \cup {c} /\ UNCHANGED drift
     \/ /\ Fails("doubt") /\ served' \in {served, [served EXCEPT ![c] = NoVersion]}
        /\ UNCHANGED unbinding /\ drift' = drift \cup {c}
  /\ UNCHANGED <<rows, vault, include, txt, edits, ui, at, gone, inquiry, asked, removal, orphan, damaged>>
CompleteUnbinding(c) ==
  /\ c \in unbinding /\ unbinding' = unbinding \ {c}
  /\ \/ /\ Works /\ CompleteCertificateUnbinding(c)
        /\ drift' = IF served[c] = NoVersion THEN drift ELSE drift \cup {c}
     \/ /\ (~Unbindable(c) /\ Works) \/ Fails("store")
        /\ UNCHANGED item /\ drift' = drift \cup {c}
  /\ UNCHANGED <<row, artifact, vault, world, ui, at, gone, inquiry, asked, removal, orphan, damaged>>

\* Delete: no binding and nothing in production; then the row; then the material.
Unused(c) == item[c].state = "unbound" /\ item[c].bound = NoVersion
\* (Mutant: the check that no task is active is missing.)
DeletableAtOnce(c) == Unused(c)
Deletable(c) == Unused(c) /\ ActiveTasks(c) = {}
CheckDeletion(c) ==
  /\ ui = "up" /\ removal[c] = "none" /\ Unused(c) /\ served[c] = NoVersion
  /\ removal' = [removal EXCEPT ![c] = "checked"]
  /\ Counts(1) /\ UNCHANGED <<rows, vault, world, ui, at, gone, inquiry, asked, unbinding, history>>
CommitDeletion(c) ==
  /\ removal[c] = "checked"
  /\ \/ /\ Works /\ Deletable(c) /\ removal' = [removal EXCEPT ![c] = "committed"]
        /\ item' = [item EXCEPT ![c].state = "deleted", ![c].version = NoVersion, ![c].auto = FALSE]
     \/ /\ (~Deletable(c) /\ Works) \/ Fails("store")
        /\ removal' = [removal EXCEPT ![c] = "none"] /\ UNCHANGED item
  /\ UNCHANGED <<row, artifact, vault, world, ui, at, gone, inquiry, asked, unbinding, history>>
PurgeMaterial(c) ==
  /\ removal[c] = "committed" /\ removal' = [removal EXCEPT ![c] = "none"]
  /\ \/ Works /\ vault' = vault \ VersionsOf(c)
     \/ Fails("vault") /\ UNCHANGED vault
  /\ UNCHANGED <<rows, world, ui, at, gone, inquiry, asked, unbinding, history>>

UpdateRenewalPolicy(c) ==
  /\ ui = "up" /\ item[c].state \in Renewable /\ ActiveTasks(c) = {}
  /\ item' = [item EXCEPT ![c].auto = ~@]
  /\ Counts(1) /\ UNCHANGED <<row, artifact, vault, world, ui, at, gone, requests, history>>

-------------------------------------------------------------------------------
(* Others, and the process. *)

OtherRelease ==
  /\ edits < Edits /\ edits' = edits + 1
  /\ Counts(1) /\ UNCHANGED <<rows, vault, served, include, txt, ui, at, gone, requests, history>>
Damage(v) ==
  /\ v \in vault /\ Fails("damage") /\ vault' = vault \ {v} /\ damaged' = damaged \cup {v}
  /\ UNCHANGED <<rows, world, ui, at, gone, requests, drift, orphan>>

\* The process is gone, and with it every goroutine and request.
Ends ==
  /\ ui' = "down" /\ at' = [t \in Tasks |-> "none"] /\ gone' = {} /\ asked' = {} /\ unbinding' = {}
  /\ inquiry' = [t \in Tasks |-> NoInquiry]
  /\ removal' = [c \in Certs |-> "none"]
  /\ drift' = drift \cup unbinding \cup {CertOf(t) : t \in {u \in Owned : at[u] \in {"deployed", "bound"} /\ row[u].bound}}
  /\ orphan' = orphan \cup {t \in Owned \cap txt : artifact[t] = "none"}
  /\ UNCHANGED <<rows, vault, world, damaged>>
Die == ui # "down" /\ Fails("death") /\ Ends
Stop ==
  /\ ui = "up" /\ Fails("stop") /\ ui' = "stopping" /\ gone' = Owned
  /\ UNCHANGED <<rows, vault, world, at, requests, history>>
Stopped == ui = "stopping" /\ Owned = {} /\ Works /\ Ends

Readable(c) == item[c].version \in vault \cup {NoVersion}
\* ReconcileMaterial reads every active version again; then every task left active is settled.
ReconcileMaterial ==
  /\ ui = "down" /\ ui' = "tasks"
  /\ item' = [c \in Certs |-> IF Readable(c) THEN item[c] ELSE [item[c] EXCEPT !.state = "needs_attention"]]
  /\ Works /\ UNCHANGED <<row, artifact, vault, world, at, gone, requests, history>>
\* (Mutant: a state of its own that the schema does not have.)
SettledAsInterrupted(t) == IF row[t].kind = "bind" THEN "needs_attention" ELSE "interrupted"
\* What nobody knows about a binding is asked of the operator; an order is failed.
Settled(t) == IF row[t].kind = "bind" THEN "needs_attention" ELSE "failed"
ReconcileTask(t) ==
  /\ ui = "tasks" /\ row[t].state \in Active
  /\ \/ CleansUp(t) /\ TransitionCertificateTask(t, Settled(t), Settled(t)) /\ UNCHANGED ui
     \/ CleanupBreaks(t) /\ TransitionCertificateTask(t, "needs_attention", "needs_attention") /\ UNCHANGED ui
     \/ Fails("store") /\ ui' = "down" /\ UNCHANGED <<row, artifact, include, txt>>
  /\ UNCHANGED <<item, vault, served, edits, at, gone, requests, history>>
Serve ==
  /\ ui = "tasks" /\ ui' = "up" /\ \A t \in Tasks : row[t].state \notin Active
  /\ Works /\ UNCHANGED <<rows, vault, world, at, gone, requests, history>>

-------------------------------------------------------------------------------
TaskStep(t) ==
  \/ Take(t) \/ RemovePending(t) \/ Read(t)
  \/ Prepare(t) \/ Order(t) \/ CreateOrder(t) \/ Propagate(t)
  \/ ProvisionNothing(t) \/ CreateTXT(t) \/ OwnTXT(t) \/ RetractTXT(t) \/ OwnInclude(t) \/ PublishInclude(t)
  \/ AwaitTXT(t) \/ Authorize(t) \/ Clean(t) \/ CleanUp(t) \/ Finalize(t) \/ Validate(t) \/ Reject(t)
  \/ SucceedStaging(t) \/ StoreCertificateVersion(t) \/ Deploy(t) \/ Abandon(t) \/ PublishVersion(t) \/ Discard(t)
  \/ CompleteProduction(t) \/ FailTask(t) \/ CancelTask(t) \/ Doubt(t)
  \/ PrepareBinding(t) \/ StageBinding(t) \/ PublishBinding(t) \/ CompleteBinding(t)

RequestStep(t) ==
  \/ ReadCertificate(t) \/ ReadBindings(t) \/ ReviewProduction(t) \/ Refuse(t)
  \/ QueueIssue(t) \/ QueueRenewal(t) \/ QueueBinding(t)

CertificateStep(c) ==
  \/ \E t \in Tasks : ReviewOrder(t, c) \/ CreatePlan(t, c) \/ ListDue(t, c) \/ RequestRenewal(t, c)
  \/ PublishUnbinding(c) \/ CompleteUnbinding(c)
  \/ CheckDeletion(c) \/ CommitDeletion(c) \/ PurgeMaterial(c) \/ UpdateRenewalPolicy(c)

Next ==
  \/ \E t \in Tasks : TaskStep(t) \/ RequestStep(t) \/ RequestCancellation(t) \/ Signal(t) \/ TimesOut(t) \/ ReconcileTask(t)
  \/ \E c \in Certs : CertificateStep(c)
  \/ OtherRelease \/ (\E v \in Versions : Damage(v))
  \/ Die \/ Stop \/ Stopped \/ ReconcileMaterial \/ Serve

Spec == Init /\ [][Next]_vars

-------------------------------------------------------------------------------
(* Properties. *)

\* A task that ends with a verdict has cleaned up after itself: its artifact is none or cleaned, its HTTP
\* challenge is out of production and its TXT record out of the DNS, unless the UI never learned of it.
ChallengesAreCleaned ==
  \A t \in Tasks : row[t].state \in {"succeeded", "failed", "cancelled"} =>
    /\ artifact[t] \in {"none", "cleaned"} /\ t \notin include
    /\ t \in txt => t \in orphan

\* What nginx is told to serve is in the vault: no refusal, deletion or abandoned deployment
\* takes away a version that production still names.  Only a deletion may, whose check of production
\* came before the release of a binding that ended in doubt, or that a stale renewal took from the rows.
ServedIsStored ==
  \A c \in Certs : served[c] # NoVersion =>
    served[c] \in vault \cup damaged \/ (item[c].state = "deleted" /\ c \in drift)

\* The bindings say what production serves, except between a release and the transaction that follows it,
\* after a fault has fallen between the two, or after a renewal whose plan is older than the binding.
DriftHasCause ==
  \A c \in Certs : item[c].bound # served[c] =>
    \/ c \in drift \cup unbinding
    \/ \E t \in Tasks : CertOf(t) = c /\ at[t] \in {"deployed", "bound"}

\* A certificate in use is never lost to its own deletion: a deleted one is neither served nor
\* about to be, and has no task that could bind it again.
DeletedIsGone ==
  \A c \in Certs : item[c].state = "deleted" =>
    (served[c] = NoVersion \/ c \in drift) /\ ActiveTasks(c) = {}

\* What nginx serves is in the vault and in the bindings, and what was deleted is not served, unless a
\* fault between a release and its rows, or a renewal planned before a binding, has set the two apart:
\* whatever request, fault or death comes in between (the lifecycle, binding and order services).
InUseIsKept == ServedIsStored /\ DriftHasCause /\ DeletedIsGone

\* A verdict of failed or cancelled that the goroutine of an order gives is true: the version it made
\* is not in production.  Of its material nothing is left, unless deleting it is what has failed.
VerdictIsTrue ==
  [][\A t \in Tasks :
       (ui # "tasks" /\ IsOrder(t) /\ row[t].state \in Active /\ row'[t].state \in {"failed", "cancelled"})
       => served[CertOf(t)] # t /\ t \notin vault]_vars

\* The rows follow production and never lead: a version becomes the bound one only when it is served.
RowsFollowProduction ==
  [][\A c \in Certs : (item'[c].bound # item[c].bound /\ item'[c].bound # NoVersion)
                        => served[c] = item'[c].bound]_vars

\* What the rows of tasks and certificates say happened has happened (the end of an order, the
\* Complete* transactions after a release).
RowsTellTheTruth == VerdictIsTrue /\ RowsFollowProduction
===============================================================================
