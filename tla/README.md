# nginx-uix in TLA+

Formal models of nginx-uix, the container that edits, publishes and recovers the configuration of an
nginx it supervises. The models are translated from the Go source under `src/internal` (and, where a
component ends there, from `src/web` and `src/deploy`); the configurations check them with TLC on
small instances, and the theorems are checked with TLAPS for every value of the constants.
`PROJECT.json` lists the components, the runs, the hazards, and for every definition the source lines
it stands for.

## 1. The system

One container, three processes under s6:

| process | privilege | keeps | does |
|---|---|---|---|
| `nginx-uix` (UI) | unprivileged | SQLite database, workspace directories, vault | HTTP API, drafts, checks; queues, runs and mirrors releases, restores, restarts, certificate tasks, route tests |
| `nginx-uix-agent` (Agent) | owner of `/etc/nginx` | evidence of releases, restores and restarts, backups, sandboxes | writes production, runs `nginx -t`, signals nginx, observes its processes |
| `nginx` | master is root | its workers | serves what it last loaded |

The UI calls the Agent over a Unix socket, one request per connection; the client waits up to five
minutes, the server stops writing an answer after 65 seconds. The Agent never calls back. What the UI
knows about a running task comes from polling the Agent's event log, and what either of them knows
after a restart comes from disk. At startup the UI reconciles in a fixed order (`app/ui.go`):
releases, then restores, restarts and retention, then route tests, then workspaces, then certificates;
an error in any of them ends the process, and only after all of them does it serve requests.

### Components

| component (source) | state | operations | what is hard | what makes it correct |
|---|---|---|---|---|
| Release transaction (`runtime/release*.go`) | production, `state.json`, `events.ndjson`, backup, master and workers | ExecuteRelease, RecoverRelease | a crash between any two writes, an asynchronous reload, a journal ahead of its event log | verdicts agree with files and workers; evidence before writes; calls return |
| Restore transaction (`runtime/restore.go`) | the same, with whole trees | ExecuteRestore, RecoverRestore | the digest does not see key files; a safety backup of its own | as for releases, key files included |
| Restart transaction (`runtime/restart.go`) | journal, marker, master process | ExecuteRestart, RecoverRestart | a marker without an owner; a command that may have been sent | sent at most once; verdicts agree with masters |
| Container (`runtime/initialize.go`, `startup_state.go`, `deploy/docker/rootfs`) | `/etc/nginx`, startup record | init, validate-startup, finish | killed half way; a clock that is set | foreign files survive; the record can be read |
| Release service (`config/release_service.go`) | checks, releases, stages, lease, backup index | Check, Queue, Run, Reconcile | lost and late answers, half-mirrored stages, death of the UI | the database never says what the Agent did not do |
| Recovery service (`config/recovery_*.go`, `store/recovery_*.go`) | restores, restarts, attention cases, retention plans and runs, production lease | queue, run, reconcile, verify, retain | one lease for four kinds of work; deletions half done | a backup that is needed survives; every doubt has a case |
| Workspaces and drafts (`config/service.go`, `files.go`, `journal.go`, `reconcile.go`) | row and directory of each | create, edit, get, list, delete, reconcile | two records without a common transaction; readers without the lock | an edit happens wholly or not at all; nothing is served that is not committed |
| Scoped files (`config/root.go`) | entries, contents, what is synced | replace, create, remove, read | power failure between any two system calls | the old content or the new one |
| Structured edits (`structuredconfig/`, `upstream/`, `location/`, `nginxast/`) | a draft and a preview | preview, apply | node ids are positions; references by name | references survive; what is applied was reviewed |
| Groups (`config/groups.go`) | one collection, audit | list, create, replace, delete | the checks are made before the transaction | names are unique, no update is lost |
| Certificates (`certificate/`) | tasks, certificates, bindings, artifacts, vault | issue, renew, bind, unbind, delete, cancel | four places and no transaction; the last release decides | nothing in use is lost; challenges are cleaned |
| Accounts and credentials (`certificate/`) | rows, secrets, registrations | create, verify, deactivate, delete | an authority that answers and an answer that is lost | a task keeps its secrets; rows follow the authority |
| Route Lab (`routelab/`, `runtime/route_lab*.go`) | runs, stages, sandboxes | queue, execute, cancel, clean up | cancellation racing the result, sandboxes that outlive the Agent | every test has an owner, no sandbox is forgotten |
| Route analysis (`routelab/analyzer.go`) | none | Analyze | what Go cannot decide | a prediction is what nginx does |
| Sessions (`auth/`) | users, sessions, throttles | log in, use, log out, clean up | decisions from rows and clocks that are old | a session that ended stays ended; blocks hold |
| Streams (`httpapi/release.go`, `recovery.go`, `route_lab.go`, `certificate.go`, `web/src`) | connection, what the browser shows | stream, reconnect, refresh | stages between two reads; answers out of order | every stage once, in order, the end last |
| Life of the UI (`app/ui.go`) | phase, owners, stores | start, serve, stop | one window for a shutdown of four owners | order of start and stop |

The rest (decoding of requests, presentation, packaging, parsing of text) keeps no state the above
rely on; `PROJECT.json` says of each component whether it is modelled, partly modelled or not, and why.

## 2. The modules

```
ReleaseStages ─┬─ ReleaseAgent ── MCReleaseAgent                                        (TLC)
               │     │ │ └─ ReleaseAgentInvariant ── ReleaseAgentProofs                  (TLAPS)
               │     │ └─ implements ─► PublishOutcome
               │     └─── implements ─► AgentService
               └─ AgentService ── ReleaseCoordinator ─┬─ MCReleaseCoordinator            (TLC)
                                                      └─ ReleaseCoordinatorProofs        (TLAPS)

TaskStages ─┬─ RecoveryCoordinator ── RecoveryCoordinatorProofs                         (TLAPS)
            ├─ RestartAgent ────────────────────────────┬─ AgentTaskProofs              (TLAPS)
            └─ RestoreAgent ── RestoreAgentInvariant ───┤
                                    ContainerStartup ───┘

BackupRetention ── MCBackups (TLC), BackupRetentionInvariant ── BackupRetentionProofs  (TLAPS)

MCLiveness     = RestartAgent | RecoveryCoordinator | BackupRetention | WorkspaceDraft (TLC)
MCRecovery     = RecoveryCoordinator | RestoreAgent | ContainerStartup | RetentionPlan (TLC)
MCEditing      = WorkspaceDraft | StructuredEdits | Groups | ScopedFiles                (TLC)
MCCertificates = Certificates                                                          (TLC)
MCUIServices   = RouteLab | Sessions | CertificateSecrets | TaskStreams | UILifecycle
                 | RouteAnalysis                                                       (TLC)

Groups ── GroupsProofs,  Sessions ── SessionsProofs,  Certificates ── CertificatesProofs  (TLAPS)
```

A bar in an MC module separates components that share no state. Such a module has a variable `which`
that picks one of them initially and forever; the others stay where they begin. Its states are the
sum of the states of its parts, never their product, and a property of a part is stated for the
behaviours of that part. The first part of MCRecovery (RecoveryCoordinator), of MCLiveness (RestartAgent),
of MCEditing (Groups) and of MCUIServices (Sessions) is extended and keeps its names, so that what the run checks of it and what TLAPS
proves of it is the same formula; the sums are called `AnyInit`, `AnyNext`, `AnySpec` and `AnyTypeOK`
there. The other parts are instances, `R!Next` of MCRecovery for example.

**ReleaseStages** — the stages of a release and their order, shared by Agent and UI as in the code.

**ReleaseAgent** — one release from its first call to its last recovery. A call is a control point `pc`
and what the Go function keeps in local variables; a crash forgets both. `journal` is `state.json`,
`events` and `torn` are `events.ndjson`. A configuration is a function from paths to contents, and its own
digest, which assumes that SHA-256 does not collide. `Log` and `LogError` are `appendStage`: journal,
event, memory, each of which can fail or be cut by a crash. `appendReleaseEvent` may also fail after the whole event is
in the file (it is synced and closed after it is written); then the log has a stage the call does not know, and the next
event the call appends takes its number again, after which no reader accepts the log (`AppendEvent`). nginx is a process: `SendReload` only raises
`hup`, `NginxReload` acts on it whenever it likes with the files it then finds. One action per step of
the code between two points where a crash would leave a different disk.

**PublishOutcome** and **AgentService** — two abstract views of it: the promise (one verdict, true when
given, afterwards changed only into doubt) and the service the UI relies on: a log that grows by known
steps, a call that knows the log but for one stage it was told it failed to write, an answer that tells what the call
knows, a log that is past reading once such a call has gone on (`spoiled`). `ReleaseAgent` implements both, so the UI is
checked against an abstraction that is itself checked and proved against the Agent, edits by others included.

**ReleaseCoordinator** — the UI around one release: `Check`, `Queue`, `Run` with its polling and mirroring, doubt,
the outcome for the workspace, `Reconcile`, and beside it edits under the lock and listings without. `Ticks` says whether the
ticker polls while the Agent works, and the fault `"log"` whether the Agent may write a stage and be told that it did not.

**RestoreAgent** — the transaction of a restore. Unlike a release it writes whole trees, and the digest by
which it decides covers managed text only: `SeenByDigest` is what a digest tells of a tree.

**RestartAgent** — several restarts one after the other, because the marker file has no owner but its
existence and the finish script acts on whatever marker it finds.

**TaskStages** — the coarser stages in which the UI's model tells the log of a restore or restart, and which of
them may follow each other in a call (`Following`). `LogIsKnown` says of both transactions that what they log, told
in these stages, is what RecoveryCoordinator lets its Agent log, so that the UI is reasoned about with a log that
the Agent really keeps. Stating it showed that an earlier version of RecoveryCoordinator knew fewer
ends of a recovery than `RecoverRestore` has: a recovery that finds the target in place succeeds straight from
`safety_backup_verified`, and a rollback whose first stage cannot be logged is left for doubt.

**ContainerStartup** — the init service that fills an empty `/etc/nginx` as a transaction, and the startup
record that `validate-startup` and `finish` keep: `finish` records the exit of a refused configuration as well.

**RecoveryCoordinator** — restores, restarts and verifications of the UI over one lease. A call is a message
that may be taken up after its sender has died. The Agent is a log of the coarser stages of TaskStages.

**RetentionPlan** — the pure part of `PlanRetention`: what is protected, what eligible, and the walk over it,
oldest first. `OldestFirst` and `MeetsTargets` say what the walk is for without walking.

**BackupRetention** — the life of the backups: `index` in the database, `body` at the Agent, the runs that
delete, the operations that add and use, and the deaths of both processes. Which backups a plan names is left
open here (any that RetentionPlan might name), so policy and age need no clock.

**WorkspaceDraft** — one workspace: its row, and its directory with draft, manifests, control state, mutation journal
and recovery copies. `Edit` is the mutation protocol all edits share; a client is let through by the digest of
the draft it has seen (`HasETag`), the row is swapped by its revision. `Reconcile` classifies every directory a death can
leave, and the tombstone of a deletion.

**ScopedFiles** — what the drafts, journals and production files are written with, down to what a failure of power
keeps: a prefix of the directory's changes and perhaps a part of what was not synced.

**StructuredEdits** — catalogues of upstreams and locations, operations planned as edits of statements, previews that
are stored nowhere and computed again. The identity of a node is its place, as in the code.

**Groups** — the collection of groups behind its ETag: a handler compares, compares again and decides, and commits in
a transaction that compares the revision only.

**Certificates** — tasks of issue, renewal and binding with their compare-and-swap on the row, unbinding, deletion,
scheduler, cancellation, timeout, startup; vault, production and DNS as places a task changes one after another. A request
for a task is an `inquiry`: it reads the certificate, then its bindings, then production, one after the other, and the
transaction that queues the task checks again only the version and the state of the certificate (`QueueRenewal`,
`QueueBinding`). So the plan of a renewal may be older than a binding (`Overtaken`), and a completion may find that it
cannot bind (`Bindable`, the unique fingerprint of a server).
**CertificateSecrets** — the accounts and credentials those tasks use. Storing and erasing a secret may report an error
after the change has happened, as when only the sync of the directory has failed.

**RouteLab** — both halves of a route test, the UI's rows and stages, the Agent's stages on disk and its
sandbox processes, with the deaths of either and of a sandbox.

**RouteAnalysis** — the analysis, and nginx's own choice as its reference. The reference shares nothing with the
analyzer but the two questions whether a name matches a host and a listener has a port: nginx builds the tables of its names
(`Register`, `KeptNames`; a dotted name takes the place of the exact one as well, and what is registered twice is ignored),
then looks for the exact name, the longest leading and trailing wildcards, and the first expression.

**Sessions** — logins, throttles, sessions, cleanup: one action per statement, each with the clock reading the code uses.

**TaskStreams** — the five event streams, their reconnection, and the stores of the browser: refreshes, of which a store
makes one at a time, and beside them the calls of `resume` and `cancel`, whose answers arrive in any order.

**UILifecycle** — the order of `runUI`: stores, reconciliations, owners, scheduler, server, and back in one window of time.
A task is a row and a goroutine of one of four kinds; those of certificates wait for a slot, are refused when the
owner is full, and are dropped when they are cancelled in their wait; any goroutine may end without its row.

Conventions. `Faults` names what may fail in an instance, `Budget` and `left` bound how often, `Fails(what)` and
`Works` are the two outcomes of a fallible step. Operators introduced by "(Mutant: ...)" are wrong variants of the
operator they precede; no specification uses them. `PROJECT.json` names, for every property, one such variant
that breaks it.

## 3. What the runs check

| run | question | distinct states |
|---|---|---|
| `release_agent` | do verdicts, evidence and promise hold through every failure and crash of one publication? | 521,718 |
| `release_coordinator` | does the database agree with the Agent whatever fails, dies, edits or lists, and does the task end? | 909,712 |
| `backups` | do the recovery points that are needed survive two runs, every fault and two deaths? | 2,512,742 |
| `liveness` | do retention runs, restores and restarts end, is nginx restarted once, and does the UI come back? | 207,907 |
| `recovery` | are restores, what the UI tells of them and of restarts, the start of the container and the plans of retention true, final and safe? | 2,391,493 |
| `editing` | does a draft survive its editors, readers, deaths and failures of power? | 1,215,623 |
| `certificates` | is what is in use kept, and does what rows say hold of production? | 1,255,022 |
| `ui_services` | are tests owned, sessions ended, secrets kept, streams in order, predictions right? | 1,974,518 |
| `release_agent_rollback` | does `rolled_back` mean that nginx serves the old configuration? (no) | violation |
| `release_coordinator_outcome` | is every succeeded release a published workspace? (no) | violation |
| `ui_services_cancel` | does a cancellation that was accepted end its run? (no) | violation |
| `ui_services_default` | is a predicted default server the one nginx takes? (no) | violation |

Every property is stated, with the code it is about, in the module of its component; the MC modules only
conjoin them. The less obvious ones:

* `PublishIsSafe`, `RestoresAreTrue`, `RestartsOnce` tie each verdict on disk to files, workers and masters,
  and order the evidence before the first write. `EvidenceEndures` lets a caller ask again after a crash.
* `RecordsAreTrue`, `RecoveryIsTold`: the stages in SQLite are a prefix of the Agent's log, plus at most one stage
  of doubt of the UI's own; verdicts are the Agent's; a doubt has a case and a case is closed by evidence.
  `SettledStaysSettled`: a verdict, a resolved case, and nginx given up are final.
* `RetentionIsSafe`: what was given up has `MinimumComplete` newer complete backups and is needed by nobody, over all
  runs together; what the index offers is whole on disk. `PlanIsRight` compares the walk with its purpose.
* `DraftEndures`: a draft that differs from its row is covered by a journal and copies to go back to; `NoEditIsLost`:
  whoever changes a draft or the groups has seen what it replaces: the content of the draft, for an ETag says no more
  of it and a change that was taken back goes unseen; the revision too of the groups. `FilesAreAsMeant` is about power.
* `InUseIsKept`, `RowsTellTheTruth`, `ChallengesAreCleaned`: what nginx is told to serve is in the vault and in the
  bindings, unless a fault came between a release and its rows or a renewal was planned before the certificate was
  bound (`drift` names the certificates this has happened to, `DriftHasCause`); no row leads production.
* `TestsAreOwned`: a run that is not over has somebody who will end it; whatever a sandbox left is known.
* `PredictionHolds`: what is predicted is what nginx chooses under every outcome of what is indeterminate. Two things the
  analysis is not told of are excepted, each by a predicate that names it: a name with a leading dot that meets the same
  name, exact or with a leading wildcard, in another place (`DotsClash`, `analyzer.go` 443–463), and servers that differ in
  having listeners the analysis skips, an unsupported option or another protocol (`ListenersAreAlike`, 311–315).
* `StreamsTell`: what is on its way to a browser continues what it has heard, no stage twice. An end that is shown
  stays (`EndStays`) where no two calls crossed: the code does not keep a late answer to `cancel` or `resume` from taking it
  back (`web/src/route_lab.ts` 259), so nothing is said of that.
* `ShutdownIsOrderly`: a row is left without an owner for five reasons only, which `AcceptedWorkIsOwned` names: the
  shutdown ran out of time, the end of the task could not be written, the owner was full, or a certificate task was
  cancelled, by its client or by the shutdown, while it waited for a slot.

### Bounds

* *release_agent*: three file names, two contents. The draft rewrites one, removes one, creates one, so each kind of
  write happens and the configurations in the middle are invalid. One release: releases are serialised by the lease.
  Somebody else edits production just before the first write (`EditPoints`); the theorems allow edits everywhere.
* *release_coordinator*: failures and deaths are not bounded, every step can fail every time. Four instances: in the first
  store, calls and processes fail; in the second the draft is edited and the workspace listed, with deaths; in the last two
  the Agent is told that stages it has written were not, while the UI polls and calls fail, or while processes die and
  the log is read again. In the second and the last the ticker does not poll: what polls find is the subject of the others.
  Production is edited by the release only. `TaskEnds` is checked of the first instance.
* *backups*: three backups, two there at the start, `MinimumComplete` = 1: one may be deleted, one is the last that must
  stay, one is added. Two runs may name the same backup, in either order; two deaths. The theorems bound none of it.
* *liveness*: two restarts and three starts of nginx, so that a marker can be found by the wrong exit; one retention
  run; two pieces of work, the second perhaps to settle the first; a workspace with one edit;
  two faults. A task that hangs needs one fault that is not answered, and a second one when it is resumed.
* *recovery*: two files of which the digest covers one; four faults around two pieces of work; four backups of sizes 0, 1 and 4 with `MaxInt64` = 11, so that
  both targets bind and the sum of three large ones overflows; at most two recorded exits and a clock that is set back.
* *editing*: two faults, two edits: one edit to die in and one that finds what it left. Two clients are enough for a lost
  update, two groups for a name taken twice. Three inodes: the file, its replacement, and one that is still open.
* *certificates*: two tasks over two certificates, two faults: one to leave something behind and one in its clean-up. Both
  tasks may run at once and both requests may be half way, which is what it takes for a plan to be overtaken; a release by
  somebody else costs one of the two faults. A second request that begins does so at the price of the whole budget
  (`CountsAfterFirst`), so races of two requests are explored without faults and one request with two.
* *ui_services*: two runs and one slot, two requests per session, a few stages, calls and losses per stream, two servers with
  three names, three locations. Two locations show priority, the third shows nesting. The owner of certificates in UILifecycle has
  one slot and room for two (the code: four and a hundred): one task that runs, one that waits, one that is refused.
* Symmetry is used where the members of a set are interchangeable, and never with liveness. Deadlock checking is off where
  bounded faults, edits or clocks let an instance really come to an end.

### Fairness

* `release_agent`: `WF(AgentStep)` — a call in progress goes on, because every command, probe and write runs under a
  timeout. Nothing is assumed of nginx, of the Agent's restart, or of a new call.
* `release_coordinator`: `WF` of the task, of `Reconcile` and of `UIStarts` — the task waits for the Agent five minutes at
  most and for SQLite for its busy timeout; s6 restarts the UI. Stated for the instance in which a call may end by its
  deadline. Nothing is assumed of the Agent answering.
* `liveness`: the same for retention (`Execution`, `Startup`, the Agent's `Removal`, and `EndOperation`, because releases
  and restores end), for restores and restarts (each task, `Reconcile`, `UIStarts`, and a call the Agent has taken up), and
  for the startup of a workspace. A behaviour is of one part only, so each conjunct joins steps of different parts. The
  live instance of retention has no failing index: if the last transaction of a run fails, the run stays executing, with
  the lease, until the UI is restarted (a hazard, `recovery_service.go` 291).

No other run has fairness, and none of its properties needs it. The cancellation that is lost (`ui_services_cancel`) is
a violated invariant: the goroutine that would end the run is gone.

## 4. Where the code and its documents disagree

1. **`rolled_back` without a reload** (`release_agent_rollback`). nginx is signalled before the journal says so
   (`release.go` 225, 230). If the Agent dies in between, the recovery believes that no reload happened, restores the
   files without one, and confirms; `docs/operations/troubleshooting.md:12` promises confirmed health of the
   restored state, while nginx serves the draft.
2. **A succeeded release with an unpublished workspace** (`release_coordinator_outcome`). Listing workspaces during a
   release marks the workspace stale, and the outcome then conflicts (`release_service.go` 705). `PLAN.md:329` asks for
   configuration, database and history to agree.
3. **A cancelled route test that stays running** (`ui_services_cancel`). The cancellation takes the number of the stage
   the goroutine would end the run with (`route_lab_repository.go` 258, `routelab/service.go` 250); the run holds its place
   until the UI is restarted. `routelab/service.go:184` says that Execute owns the run until its terminal transition.
4. **The default server of another port** (`ui_services_default`). `defaultServerIndex` accepts a default server of any
   port (`analyzer.go` 518). `analyzer.go:58` calls the explanation conservative.

The models show more, which no document contradicts in so many words or no property of a run is spent on:

* An edit of production noticed before the first write is answered by a rollback that restores the whole backup and so
  overwrites it (`release.go` 213).
* A crash between row and control file of a workspace that became stale is passed over by every later reconciliation
  (`service.go` 523, `reconcile.go` 154).
* A release that ends in `needs_attention` opens no attention case, so it blocks nothing (`release_repository.go` 178).
* A half-removed backup may be verified as "missing" or as "error", whichever entry of a map comes first; "missing" is
  taken for "gone" (`backup.go` 410).
* When `AbortRetentionDeletion` fails the run is finished all the same and the backup stays `deleting`
  (`recovery_service.go` 257).
* A certificate task that is cancelled while it waits for a slot, or refused because the owner is full, stays queued
  until the UI is restarted (`certificate_tasks.go` 61, 86).
* A renewal that is asked for while a binding of its certificate completes is queued with no server to change
  (`renewal_service.go` 124, `certificate_repository.go` 702–729). Its completion deletes the binding (1139), and production
  goes on to serve the old version, which no binding names.
* A client that has seen draft A may change it after others made it B and A again: the ETag is the digest of the draft, the
  revision is not compared with it (`files.go` 556, `service.go` 102).
* The answer to `cancel` or `resume` of a route test may arrive after a refresh has shown the end; the page then shows the run as
  active again, with its stream closed (`web/src/route_lab.ts` 259).
* The analysis of names does not know that nginx takes `.name` for the exact `name` too and ignores what it has already.
* A TXT record is created before the row that would clean it, so a death in between leaves one nobody knows; challenge
  artifacts that need attention are not retried; certificates that have expired are not among those due; an unbinding
  publishes before it can be refused; the verification of a case takes no lease; and one window of time serves the
  shutdown of all task owners.

## 5. What is proved

TLAPS checks all of the following for every value of the constants; none is bounded by an instance.

### The release transaction

Assumptions: `ConfigurationAssumption` (production and draft differ, `nginx -t` accepts some set of
configurations), `EnvironmentAssumption` (types). Nothing is assumed of the number of files, of which configurations
are valid, or of when others edit.

| theorem | module | says |
|---|---|---|
| `TypeCorrect`, `Invariance` | ReleaseAgentProofs | `Spec => []TypeOK`, `Spec => []IInv` |
| `PublicationIsSafe` | ReleaseAgentProofs | `Spec => []PublishIsSafe`, from the four below |
| `CommittedIsServed`, `FailedIsHarmless`, `RolledBackIsRestored`, `EvidenceComesFirst` | ReleaseAgentProofs | its conjuncts |
| `PromiseKept` | ReleaseAgentProofs | `Spec => KeepsPromise` |
| `EvidenceInvariance`, `EvidenceLasts` | ReleaseAgentProofs | `Spec => []EvidenceInv`, `Spec => []EvidenceEndures` |
| `UIIsServed` | ReleaseAgentProofs | `Spec => ServesUI` |

None of the safety properties is inductive: that a committed release is served depends on what the journal
guaranteed before, at a control point that no longer exists after a crash. `IInv` (ReleaseAgentInvariant) adds what
every control point may rely on: `JournalAtPc` and `StagesInMemory`, `Untouched`, `PartlyApplied`, `StageAndFiles` and
`StageAndWorkers`, `FailedAnswer`. Its centre is `StageAndWorkers`: workers that replace the recorded ones under the
recorded master serve the draft until a rollback begins. The proof has one lemma per group of actions that touches a
part and one step per action; the refinement adds that each action is a step of `PublishOutcome` or stutters.

What the UI is told needs more than what is true of the files. `EvidenceInv` says how the three records of a
release are related at every control point. Until the log is past reading (`torn`), the events are in order, the journal is at
their end or one known step ahead, and so is the log of what the call knows: a call may have been told that it did not
write its last stage although it did (`EvidenceAgrees`, `OneUnseen`). Such a call can no longer go forward; it rolls back or
ends, and the next event it appends makes the log unreadable, so it restores no file under a log that says something
else (`LogAtPc`, `MemoryIsLog`). An answer that was given, with the identity and the backup in it, can be read again
(`AnswerStands`, `IdentityRecorded`, `BackupInAnswer`).
`UIIsServed` is the theorem that lets ReleaseCoordinator be checked and proved against AgentService in place
of the Agent, for every set of points at which others may edit production. Edits weaken only what they must: once
production was edited, a verdict says nothing of it (`Agrees`), and a recovery may take an attempt that never wrote for one
that did (`Successors`). The run `release_agent` checks `ServesUI` with one such edit, just before the first write.

### The release service of the UI

Assumption: `BoundsAssumption` (types). How many edits there are, whether anybody lists workspaces beside the release, and
which of store, calls and process may fail are arbitrary; how often they fail is not bounded.

| theorem of ReleaseCoordinatorProofs | says |
|---|---|
| `Invariance`, `TypeCorrect` | `Spec => []IInv`, `Spec => []TypeOK` |
| `RecordsTrue` | `Spec => []RecordsAreTrue` |
| `StartupIsSettled` | `Spec => []StartupSettles` |
| `WorkspaceFollows` | `Spec => []WorkspaceFollowsRelease` |

The three properties speak of rows that were written from answers which are no longer there. `IInv` says, for every
point of the task, what the rows may hold given the Agent's log: the Agent works for an active release only
(`AgentIsAsked`), the history is the log, or what the last call knew of it, up to where it was mirrored, then perhaps one
stage of the UI's own doubt (`HistoryIsTheAgents`, `TaskAtRelease`), an answer that is being mirrored is what its call knew
of the log and its backup is indexed before its verdict (`ResultIsTheLog`), and a row that was read is the stored one exactly as long as its revision is (`ReadIsRow`,
`ApartByOutcome`). `ServiceIsTrue` is what AgentService itself keeps. With that each mirrored stage is the next of the log,
and the outcome reaches the workspace only while its revision is the one the task read.

### Restarts

Assumption: `BoundAssumption` (two numbers). The numbers of restarts and of starts of nginx are arbitrary.

| theorem of AgentTaskProofs | says |
|---|---|
| `Invariance`, `TypeCorrect` | `Spec => []IInv`, `Spec => []TypeOK` |
| `LogInvariance` | `Spec => []KnownInv`: what the call knows of its log, and `LogIsKnown` |
| `RestartsAreRight` | `Spec => []RestartsOnce` |

A verdict speaks of a command that a dead call sent and of a master that is gone; after a crash the Agent knows of either
only by the journal. `IInv` says what the journal tells: the stage of a call in progress (`CallInv`); the command is sent
once, not before it was announced, and nothing calls it off (`SentOnce`, `SentIsLogged`); a confirmed restart has a master
younger than the recorded one (`MasterInv`); the marker is that of the restart in hand or of one that ended in doubt
(`MarkerHasOwner`), and each restart creates one at most (`MarkerCount`). `LogIsKnown` is decided elsewhere: a stage is
appended after what the call knows of the log (`MemoryInv`, one stage for each control point), and an event log that is
not what the call knows does not parse any more (`AppendedIsKnown`).

### Restores

Hypothesis: `Configurations` — a tree is a function on a set of paths that is not empty, production and the backups hold
such trees. Nothing is assumed of the number of paths, of what the digest covers, of which trees are valid, of how long
the log gets, or of what fails. The hypothesis stands in each theorem, `R!Configurations => (R!Spec => ...)`; `R` is
RestoreAgentInvariant, which the module of the proofs takes as an instance because it shares its names with RestartAgent.

| theorem of AgentTaskProofs | says, of `R!Spec` |
|---|---|
| `RestoreInvariance` | `[]IInv`, types included |
| `RestoreKeepsItsWord` | `[](SafetyBeforeWrite /\ SucceededServesTarget /\ RolledBackServesSource /\ FailedLeavesManagedText /\ AnswerIsDurable)` |
| `RestoreLogIsKnown` | `[]LogIsKnown`; with the five above, all of `RestoresAreTrue` |
| `RestoreVerdictIsFinal` | `VerdictIsFinal`, an action property, a part of `SettledStaysSettled` |

A recovery has nothing but the journal and the events, and both were left by a call that was cut off anywhere. The
journal can be one stage ahead of what that call knew, because it is written first: `JournalAtPc` and `MemoryAtPc` say
for each control point what the one holds and the other knows. What may be concluded from a stage is in three further parts:
`SavedInv` (from `safety_backup_verified` on there is a safety backup and it is the tree that was found; a failure may have
one or not), `FilesInv` (until that stage production is untouched; from `rollback_files_restored` on it is the source again; after a
success, and at the points that lead to one, it has the target's digest), and `WorkersInv` (before a reload the workers of
the recorded master are the old ones, and replaced workers serve what is on disk until a rollback begins). Most
steps of the proof that are not obvious are in the rollback: `Reached` decides by the stages in memory, not by the
journal, so a recovery may repeat a stage it does not know to be done, and the invariant has to say that repeating it is
harmless. TLC found `IInv` to hold of two paths before it was proved.

### The start of the container

No hypothesis: the files, the clock, the window, the number of deaths and of exits are arbitrary. `C` is ContainerStartup, an
instance in the same module as the proofs about the Agent's tasks.

| theorem of AgentTaskProofs | says, of `C!Spec` |
|---|---|
| `StartupInvariance` | `[]StartupInv` |
| `RootIsSafe` | `[](ForeignFilesSurvive /\ FilledRootIsWhole)`, two of the three parts of `StartsSafely` |
| `GivenUpStays` | `PermanentStays`, an action property, a part of `SettledStaysSettled` |

A failed attempt takes files back by name, so what it takes must be its own: while an attempt is under way the files it
created are in the root and none of them is anybody else's (`AttemptIsApart`), whoever puts files there at the same time. An
attempt that found an empty root reaches the directories with all files whole (`FilledInv`), and nothing takes
a file away after that but its own failure. The third part, `RecordStaysReadable`, is about what `SelectSeq` keeps of the recorded exits; that operator is
defined by recursion over the sequence, so this part is only checked.

### The recovery service of the UI

Assumption: `CoordinatorAssumption` (types). How many restores and restarts there are, which of them follows which case,
whose clocks agree, and what fails and how often are arbitrary.

| theorem of RecoveryCoordinatorProofs | says |
|---|---|
| `RecoveryIsConsistent` | `Spec => []IInv`, types included |
| `RecoveryTellsTheTruth` | `Spec => []RecoveryIsTold` |
| `ResolvedForever` | `Spec => CaseStaysResolved`, a part of `SettledStaysSettled` |

The UI's row and stages are copies of a log in another process, made by a run that may die, and the calls it leaves behind
are taken up later, in any order, beside those of the run that follows it. `IInv` says where everything is: for each piece
of work what the rows hold of the log (`DataAt`: a history is the stages the log begins with, then at most one stage of
doubt of the UI's own; a log begins with its first stage and ends with its verdict; a restore that has written has an
indexed safety backup), what its run knows at each point (`RunAt`: how far it has mirrored, that the result it holds is the
log, that a run that waits waits for the one call it has sent), for each case whether it may be closed (`ClosedAt`), and of
the calls: `execute`, and `recover` of a restore, stand for an indexed safety backup whoever sent them (`CallsOK`), and an
answer with stages tells a log that cannot grow any more (`AnswerOK`). The last two are what makes a late call harmless and a
lost answer no loss.

### Certificates

Assumption: `CertificateAssumption` (certificates, tasks and `NoVersion` are different; two numbers). The numbers of
certificates, tasks and slots, what may fail and how often are arbitrary.

| theorem of CertificatesProofs | says |
|---|---|
| `Invariance`, `TypeCorrect` | `Spec => []IInv`, `Spec => []TypeOK` |
| `ChallengesClean` | `Spec => []ChallengesAreCleaned` |
| `UsedIsKept` | `Spec => []InUseIsKept` |
| `RowsTrue` | `Spec => RowsTellTheTruth` |

A task changes four places one after the other, and its row says only how far it got. `IInv` says for each class of
control points what the task has in each place: its challenge (`ChallengeAtPoint`: in the artifact, or in the hands of the
goroutine, or nothing), its version (`VersionAtPoint`: not stored yet, stored, or served only between publication and
completion) and its publication (`PublishedIsServed`). What makes the parts hold together is that a certificate has one
active task (`OneActive`, the unique index): so a completion binds what is served, and the deletion of a version or of a
directory takes nothing that a row or production names (`ItemsNameTheirOwn`, `ServedIsOwn`, `RequestsHold`). It does not
rely on what a request read before its task was queued: bindings may have changed since, and a renewal whose plan
binds nothing then takes the binding away while production keeps what it has. `InUseIsKept` says so: rows and production
agree, or a request is between the two, or `drift` has the certificate because a fault or such a plan has come between
them, and a certificate without `drift` is never deleted while it is served (`DriftHasTask`, `DeletedIsGone`). For a task whose goroutine is gone only what the rows still tell is left, and `ReconcileTask` starts from
that. The lemmas are one per action; `MoveKeeps`, `PublishesKeeps` and `EndKeeps` carry what actions of a kind have in
common. `RowsTrue` needs no more than the invariant: at the points that lead to a verdict of failed or cancelled the
version is neither stored nor served.

### Retention

Assumption: `RetentionAssumption` (types; a run is not called "none" or "operation").

| theorem of BackupRetentionProofs | says |
|---|---|
| `Invariance`, `TypeCorrect` | `Spec => []IInv`, `Spec => []TypeOK` |
| `RetentionSafe` | `Spec => []RetentionIsSafe` |
| `NewestAreKept`, `NeededAreKept`, `OfferedAreWhole` | its conjuncts |
| `LeaseHasItsOwner` | `Spec => []LeaseIsTheOwners` |

`IInv` (BackupRetentionInvariant) adds what connects the parties of a deletion: `TaskOwnsLease`, `TaskAtItem` (what the
item a task is at has been told), `OneIntent` (an intent is in index and item at once, and of one run only), `AgentAtBody`
(the Agent verifies only for a task that waits, and removes only what is no longer whole), `BodyOfCreated`,
`RestoreHasTarget`. `CompleteIsWhole` rests on `AgentAtBody`; `NewestSurvive` on a counting argument (`MoreIsEnough`): when b is
given up, the newer backups of an older c that was given up before include those of b.

### Groups

No assumption. `IInv` (GroupsProofs) says of a handler that decided that the collection it read is what its client saw,
that the change is allowed there, and that this collection is the stored one if its revision still is; the last
holds because every commit takes the next revision. From it: `UniqueNames` (`Spec => []NamesAreUnique`), `CompleteAudit`
(`Spec => []AuditIsAChain`), `NothingIsLost` (`Spec => ChangesAreOfWhatWasSeen`), and of the first two
`GroupsStayRight` (`Spec => []GroupsAgree`, what the run `editing` checks).

### Sessions

Under `Lifetimes` (the lifetimes are numbers, `Idle <= Absolute`, as in the code). `IInv` (SessionsProofs) says what a request may
still rely on of the row and the time it read: its reading of the clock is not in the future, its token was issued, the row
that makes it remove a session had ended. From it: `LogoutIsFinal`, `EndIsAbsolute`, `SessionsEndInTime`, `BlocksLast`, which
are the four parts of `SessionsHold`, and so `SessionsAreHeld` (`Spec => SessionsHold`, what the run `ui_services` checks).

### Only model-checked

Liveness under fairness and ENABLED are outside TLAPS: `CallsReturn`, `FailingTaskEnds`, `TasksEnd`, `ServesAgain`. What a recursive
function computes for every input needs induction over data, which the provers at hand cannot instantiate: `PlanIsRight`,
`PredictionHolds`, `StructureIsKept`. The conjunctions a run states over several modules
are proved by their parts, each named above: all parts of `RestoresAreTrue` and of `SettledStaysSettled`, and of `StartsSafely`
all but `RecordStaysReadable`. The sums of type invariants are proved for the parts that have a proof module. That the log of
RestoreAgent and RestartAgent is one of RecoveryCoordinator is proved (`LogIsKnown`) for a log that parses; that the calls
of the two models begin and end alike is read from the code, not proved. The components without a proof module are
checked on their instances.

## 6. What the models leave out

* Digests stand for configurations. The text of files, modes, owners, symbolic links and path safety are left
  out, and so is the construction of the isolated candidate tree. Parsing, formatting and the rewriting of a
  configuration under test are matters of text, which the repository's tests and fuzzers reach better.
* Reading a file or a row either succeeds or makes the operation fail; it never returns wrong data. A transaction of
  SQLite that fails has not happened, except where the code itself expects a commit of unknown fate (WorkspaceDraft).
  Migrations run once, before anything else.
* nginx respawning a worker that died, between the baseline and the confirmation, would be taken by the code for a
  reload (hazard at `release.go` 650); in the models workers change only by reload or restart.
* In ReleaseCoordinator production is edited by the release alone, and in RestoreAgent nobody else edits.
* An event that is cut exactly before its newline is counted as torn. The code would read it as a whole one, and find the
  log unreadable only after the next event; that case of one byte is left out.
* `DeleteBackup` looks at its context for the last time just before it changes the first mode (`backup.go` 389); the model
  takes the two for one step.
* The cleanup of release artifacts at the start of the Agent removes candidate directories and touches nothing else.
* The clients of ACME and of the DNS provider are environment: they answer, refuse, or do so without being heard.
  Passwords, tokens and encryption are abstract.
* Ports and URIs of `proxy_pass`, several of one location, and the limits of a patch (StructuredEdits); redirects
  and the reasons shown (RouteAnalysis); decoding, authorization and presentation (HTTP API, web interface).

## 7. What comes next

1. The whole of RestoreAgent and RestartAgent as implementations of the Agent in RecoveryCoordinator, calls and answers
   included, as ReleaseAgent is of AgentService; `LogIsKnown` is its part about the log.
2. RestoreAgent as an implementation of PublishOutcome, with `SeenByDigest` in its refinement mapping.
3. The atomic draft: an abstract specification WorkspaceDraft implements, to replace `DraftEndures` by a refinement.
