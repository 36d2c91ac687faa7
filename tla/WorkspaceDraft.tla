---------------------------- MODULE WorkspaceDraft ----------------------------
(***************************************************************************)
(* One workspace of the UI: a row of the database and a directory with the *)
(* draft, its manifests, the control state, a journal and recovery copies. *)
(* No transaction spans the two.  An edit journals its intent, applies its *)
(* writes to the draft, commits the row (compare and swap on the revision) *)
(* and then brings the control files up to date; Reconcile, before the UI  *)
(* serves, decides by row, journal and draft what a dead process left.     *)
(*                                                                         *)
(* Edits, Create, Delete and Reconcile hold the exclusive file lock.  Get  *)
(* holds none: it marks the row stale, and rewrites the control state, in  *)
(* between.  Delete reads the row before it has the lock.                  *)
(*                                                                         *)
(* A tree (draft, manifest) is a function from files to contents, and is   *)
(* its own digest.  A file whose write was cut off is Torn.                *)
(***************************************************************************)
EXTENDS Naturals, Sequences, SequencesExt

CONSTANTS
  Clients,   \* who edits and deletes
  Entry,     \* nginx.conf, the file production has
  Other,     \* another path
  Asked,     \* bound: the kinds of edit the clients ask for, all of EditKinds or some
  Faults,    \* what may fail: "disk", "store", "death", "loss"
  MaxEdits,  \* bound: how many edits and deletions begin
  Budget     \* bound: how many of Faults happen

VARIABLES
  \* the database
  row,           \* the workspace in config_workspaces, or NoRow
  deletedBy,     \* the operation whose deletion is in the audit, 0 if none
  \* the workspace directory
  dir,           \* "none", "place" or "tomb" (renamed to .delete-<id>-<op>)
  tombOp,        \* the operation in the name of the tombstone
  draft, manifest, baseManifest, prepared,   \* trees, or NoTree
  control,       \* control/state.json, or NoControl
  journal,       \* control/journal.json, or NoJournal
  recovery,      \* files under control/recovery: <<operation, name>>
  \* the UI process
  up,            \* "down", "starting" (Reconcile), "serving"
  task,          \* the holder of the exclusive lock
  deleter,       \* a Delete that has read the row and waits for the lock
  getter,        \* a Get that has found production changed
  \* the world
  changed,       \* production is no longer what the workspace was taken from
  seen,          \* the draft whose ETag each client holds: the tag is its digest alone
  disturbed,     \* a Delete has replaced the journal of a failed edit, or someone the files
  edits, left    \* edits and deletions begun; what is left of Budget

databaseVars == <<row, deletedBy>>
trees == <<draft, manifest, baseManifest, prepared>>
diskVars == <<dir, tombOp, trees, control, journal, recovery>>
bounds == <<edits, left>>
vars == <<databaseVars, diskVars, up, task, deleter, getter, changed, seen, disturbed, bounds>>

Files == {Entry, Other}
Gone == "gone"
Torn == "torn"
Texts == {"old", "new"}
Trees == [Files -> Texts \cup {Gone, Torn}]
Base == [f \in Files |-> IF f = Entry THEN "old" ELSE Gone]

NoTree == [f \in Files |-> "no file"]
NoControl == [state |-> "none", rev |-> 0]
NoRow == [state |-> "none", rev |-> 0, draft |-> Base]
RowStates == {"ready", "stale", "needs_attention"}
EditKinds == {"create", "replace", "copy", "rename", "delete", "replace_batch"}
Phases == {"prepared", "files_applied", "sql_committed", "control_committed"}

\* The revisions that the bounds allow.
Revisions == 0..(2 * MaxEdits + 4)
Operations == 0..MaxEdits
ControlStates == [state : RowStates \cup {"preparing"}, rev : Revisions]
Writes == Files \X (Texts \cup {Gone})
IsJournal(j) ==
  /\ DOMAIN j = {"op", "kind", "phase", "rev", "before", "after", "writes"}
  /\ j.op \in Operations /\ j.kind \in EditKinds \cup {"workspace_delete"} /\ j.phase \in Phases
  /\ j.rev \in Revisions /\ {j.before, j.after} \subseteq Trees /\ j.writes \in Seq(Writes)

EvidenceNames == <<"before.bin", "manifest.bin", "before-manifest.bin", "base-manifest.bin", "before-000000.bin">>

NoJournal == [op |-> 0, kind |-> "workspace_delete", phase |-> "prepared", rev |-> 0,
              before |-> Base, after |-> Base, writes |-> <<>>]
Idle == [job |-> "none", at |-> "none", by |-> "none", j |-> NoJournal, base |-> FALSE, i |-> 0]
Nobody == [at |-> "none", by |-> "none", row |-> NoRow]

Points ==
  {"none", "made", "preparing", "staged", "inserted", "manifested", "controlled", "recovery", "journal", "apply",
   "verify", "commit", "committed", "base", "manifest", "control", "done", "cleanup", "answer", "attention",
   "move", "moved", "restore", "restored", "clear", "cleared", "look", "orphans", "plain", "undo", "final"}

TypeOK ==
  /\ row \in [state : RowStates \cup {"none"}, rev : Revisions, draft : Trees] /\ deletedBy \in Operations
  /\ dir \in {"none", "place", "tomb"} /\ tombOp \in Operations
  /\ \A t \in {draft, manifest, baseManifest, prepared} : t # NoTree => t \in Trees
  /\ control # NoControl => control \in ControlStates
  /\ journal # NoJournal => IsJournal(journal)
  /\ recovery \subseteq Operations \X ToSet(EvidenceNames)
  /\ up \in {"down", "starting", "serving"}
  /\ task.job \in {"none", "create", "edit", "delete", "reconcile"} /\ task.at \in Points
  /\ IsJournal(task.j) /\ task.base \in BOOLEAN /\ task.i \in 0..3
  /\ deleter.at \in {"none", "read"} /\ getter.at \in {"none", "asked", "control"}
  /\ changed \in BOOLEAN /\ \A c \in Clients : seen[c] # NoTree => seen[c] \in Trees /\ disturbed \in BOOLEAN
  /\ edits \in Operations /\ left \in 0..Budget

Init ==
  /\ row = NoRow /\ deletedBy = 0 /\ dir = "none" /\ tombOp = 0
  /\ draft = NoTree /\ manifest = NoTree /\ baseManifest = NoTree /\ prepared = NoTree
  /\ control = NoControl /\ journal = NoJournal /\ recovery = {}
  /\ up = "serving" /\ task = Idle /\ deleter = Nobody /\ getter = Nobody
  /\ changed = FALSE /\ seen = [c \in Clients |-> NoTree] /\ disturbed = FALSE /\ edits = 0 /\ left = Budget

-------------------------------------------------------------------------------
(* Shared by the handlers. *)

Fails(what) == what \in Faults /\ left > 0 /\ left' = left - 1
Works == UNCHANGED left
others == <<deleter, getter, changed, seen, disturbed, edits>>

At(job, at) == task.job = job /\ task.at = at
GoTo(at) == task' = [task EXCEPT !.at = at]

\* Whatever the holder was doing, it returns: the deferred Close of the lock.
Release == task' = Idle /\ up' = "serving"

ControlOf(r) == [state |-> r.state, rev |-> r.rev]

\* UPDATE ... WHERE revision = ?, or nothing if the revision is another.
UpdateWorkspace(expected, next) == row.rev = expected /\ row # NoRow /\ row' = next

Marked == [row EXCEPT !.state = "needs_attention", !.rev = @ + 1]

\* markNeedsAttention: the row first, then the control state if there is one to write.
MarkNeedsAttention(writeControl) ==
  IF row.state = "needs_attention" THEN Release /\ UNCHANGED row
  ELSE /\ row' = Marked
       /\ IF writeControl THEN GoTo("attention") /\ UNCHANGED up ELSE Release

\* The control state is written, or cannot be: the row is the authority.
MarkControl ==
  /\ task.at = "attention" /\ Release
  /\ \/ Works /\ control' = ControlOf(row)
     \/ Fails("disk") /\ UNCHANGED control
  /\ UNCHANGED <<databaseVars, dir, tombOp, trees, journal, recovery, others>>

\* An edit, Create or Delete stops where it is, for an I/O error or a cancelled request.
Stops(what) ==
  /\ task.job \in {"edit", "create", "delete"} /\ Fails(what) /\ Release
  /\ UNCHANGED <<databaseVars, diskVars, others>>

-------------------------------------------------------------------------------
(* Create. *)

CreateDirectory ==
  /\ up = "serving" /\ task = Idle /\ dir = "none" /\ row = NoRow /\ edits = 0
  /\ dir' = "place" /\ task' = [Idle EXCEPT !.job = "create", !.at = "made"]
  /\ UNCHANGED <<databaseVars, tombOp, trees, control, journal, recovery, up, others, left>>

WritePreparing ==
  /\ At("create", "made") /\ GoTo("preparing") /\ control' = [state |-> "preparing", rev |-> 1]
  /\ UNCHANGED <<databaseVars, dir, tombOp, trees, journal, recovery, up, others, left>>

\* The base from the Agent, its copy as the draft, the manifest of both set aside.
Stage ==
  /\ At("create", "preparing") /\ GoTo("staged")
  /\ draft' = Base /\ prepared' = Base
  /\ UNCHANGED <<databaseVars, dir, tombOp, manifest, baseManifest, control, journal, recovery, up, others, left>>

CleanupUnregistered ==
  /\ task.job = "create" /\ task.at \in {"made", "preparing", "staged"} /\ (Fails("disk") \/ Fails("store")) /\ Release
  /\ dir' = "none" /\ draft' = NoTree /\ prepared' = NoTree /\ control' = NoControl
  /\ UNCHANGED <<databaseVars, tombOp, manifest, baseManifest, journal, recovery, others>>

\* (Mutant: registered before it is ready.)
InsertPreparing ==
  /\ At("create", "staged") /\ GoTo("inserted")
  /\ row' = [state |-> "preparing", rev |-> 1, draft |-> draft]
  /\ UNCHANGED <<deletedBy, diskVars, up, others, left>>

InsertRow ==
  /\ At("create", "staged") /\ GoTo("inserted")
  /\ row' = [state |-> "ready", rev |-> 1, draft |-> draft]
  /\ UNCHANGED <<deletedBy, diskVars, up, others, left>>

PublishManifest ==
  /\ At("create", "inserted") /\ GoTo("manifested") /\ manifest' = prepared
  /\ UNCHANGED <<databaseVars, dir, tombOp, draft, baseManifest, prepared, control, journal, recovery, up, others, left>>

PublishControl ==
  /\ At("create", "manifested") /\ GoTo("controlled") /\ control' = [state |-> "ready", rev |-> 1]
  /\ UNCHANGED <<databaseVars, dir, tombOp, trees, journal, recovery, up, others, left>>

\* The last step; the answer is a conflict if Get has changed the row meanwhile.
DropPrepared ==
  /\ At("create", "controlled") /\ Release /\ prepared' = NoTree
  /\ UNCHANGED <<databaseVars, dir, tombOp, draft, manifest, baseManifest, control, journal, recovery, others, left>>

Create ==
  \/ CreateDirectory \/ WritePreparing \/ Stage \/ CleanupUnregistered \/ InsertRow
  \/ PublishManifest \/ PublishControl \/ DropPrepared

-------------------------------------------------------------------------------
(* Edits of the draft: one file (mutateFile) or several (ReplaceFiles). *)

\* What a workspace must satisfy to be read or edited; verifiedWorkspaceUnderLock.
Usable ==
  /\ dir = "place" /\ row.state = "ready" /\ control = ControlOf(row)
  /\ journal = NoJournal /\ manifest = row.draft
BaseIsKnown == baseManifest = Base \/ (baseManifest = NoTree /\ row.rev = 1)

Present(tree, f) == tree[f] # Gone
Write(tree, w) == [tree EXCEPT ![w[1]] = w[2]]
Applied(tree, writes) == FoldLeft(Write, tree, writes)

\* The writes of a proposal, in the order in which they are applied.
Proposals(tree) ==
  {[kind |-> "create", writes |-> <<<<f, t>>>>] : f \in {g \in Files : ~Present(tree, g)}, t \in Texts}
  \cup {[kind |-> "replace", writes |-> <<<<f, t>>>>] : f \in {g \in Files : Present(tree, g)}, t \in Texts}
  \cup {[kind |-> "copy", writes |-> <<<<p[2], tree[p[1]]>>>>] :
          p \in {q \in Files \X Files : Present(tree, q[1]) /\ ~Present(tree, q[2])}}
  \cup {[kind |-> "rename", writes |-> <<<<p[2], tree[p[1]]>>, <<p[1], Gone>>>>] :
          p \in {q \in Files \X Files : Present(tree, q[1]) /\ ~Present(tree, q[2]) /\ q[1] # Entry}}
  \cup {[kind |-> "delete", writes |-> <<<<f, Gone>>>>] : f \in {g \in Files \ {Entry} : Present(tree, g)}}

\* ReplaceFiles: sorted by path, each another text than before.
Replacements(tree) ==
  {[kind |-> "replace_batch", writes |-> <<<<Entry, s>>, <<Other, t>>>>] :
     s \in {u \in Texts : Present(tree, Entry) /\ u # tree[Entry]},
     t \in {u \in Texts : Present(tree, Other) /\ u # tree[Other]}}

\* Edit c: the lock, the checks, and the proposal turned into a journal.
Begin(c, p) ==
  /\ task' = [job |-> "edit", at |-> "recovery", by |-> c, base |-> baseManifest = NoTree, i |-> 0,
              j |-> [op |-> edits + 1, kind |-> p.kind, phase |-> "prepared", rev |-> row.rev,
                     before |-> row.draft, after |-> Applied(row.draft, p.writes), writes |-> p.writes]]
  /\ edits' = edits + 1
  /\ UNCHANGED <<databaseVars, diskVars, up, deleter, getter, changed, seen, disturbed, left>>

CanBegin == up = "serving" /\ task = Idle /\ edits < MaxEdits /\ Usable

\* (Mutant: whatever ETag the client holds.)
EditAnyDraft(c) ==
  /\ CanBegin /\ BaseIsKnown /\ draft = row.draft /\ ~changed
  /\ \E p \in Proposals(draft) : p.kind \in Asked /\ Begin(c, p)

\* requireWorkspaceETag: the tag says what the draft is, not how often it has changed since.
HasETag(c) == seen[c] = row.draft

MayEdit(c) == CanBegin /\ BaseIsKnown /\ draft = row.draft /\ HasETag(c) /\ ~changed

Edit(c) == MayEdit(c) /\ \E p \in Proposals(draft) : p.kind \in Asked /\ Begin(c, p)
EditBatch(c) == MayEdit(c) /\ \E p \in Replacements(draft) : p.kind \in Asked /\ Begin(c, p)

\* The files are not the ones of the row: nothing but attention.
EditDoubted ==
  /\ CanBegin /\ (~BaseIsKnown \/ draft # row.draft) /\ edits' = edits + 1
  /\ row' = Marked /\ task' = [Idle EXCEPT !.job = "edit", !.at = "attention"]
  /\ UNCHANGED <<deletedBy, diskVars, up, deleter, getter, changed, seen, disturbed, left>>

\* verifyProductionForMutation: production has moved on, the row becomes stale.
EditStale(c) ==
  /\ CanBegin /\ BaseIsKnown /\ draft = row.draft /\ HasETag(c) /\ changed
  /\ row' = [row EXCEPT !.state = "stale", !.rev = @ + 1] /\ edits' = edits + 1
  /\ task' = [Idle EXCEPT !.job = "edit", !.at = "attention"]
  /\ UNCHANGED <<deletedBy, diskVars, up, deleter, getter, changed, seen, disturbed, left>>

Named(op, names) == {<<op, n>> : n \in names}

\* What writeRecovery and writeReplacementRecovery lay down beside the manifests.
CopyNames(kind) == IF kind \in {"replace", "rename", "delete"} THEN {"before.bin"} ELSE {}
BatchCopyNames(kind) == IF kind = "replace_batch" THEN {"before-000000.bin"} ELSE {}

Evidence(j, base) ==
  Named(j.op, {"manifest.bin", "before-manifest.bin"} \cup CopyNames(j.kind) \cup BatchCopyNames(j.kind)
              \cup (IF base THEN {"base-manifest.bin"} ELSE {}))

\* (Mutant: the journal first, the copies after it.)
WriteRecoveryLater ==
  /\ At("edit", "recovery") /\ GoTo("apply") /\ journal' = task.j
  /\ UNCHANGED <<databaseVars, dir, tombOp, trees, control, recovery, up, others, left>>

WriteRecovery ==
  /\ At("edit", "recovery")
  /\ \/ Works /\ GoTo("journal") /\ UNCHANGED up /\ recovery' = recovery \cup Evidence(task.j, task.base)
     \/ /\ Fails("disk") /\ Release
        /\ \E part \in SUBSET Evidence(task.j, task.base) : recovery' = recovery \cup part
  /\ UNCHANGED <<databaseVars, dir, tombOp, trees, control, journal, others>>

WriteJournal(phase) == journal' = [task.j EXCEPT !.phase = phase]

Prepare ==
  /\ At("edit", "journal") /\ GoTo("apply") /\ WriteJournal("prepared")
  /\ UNCHANGED <<databaseVars, dir, tombOp, trees, control, recovery, up, others, left>>

\* One write, of applyFileProposal or of applyReplacements.
ApplyNext ==
  /\ At("edit", "apply") /\ task.i < Len(task.j.writes)
  /\ task' = [task EXCEPT !.i = @ + 1] /\ draft' = Write(draft, task.j.writes[task.i + 1])
  /\ UNCHANGED <<databaseVars, dir, tombOp, manifest, baseManifest, prepared, control, journal, recovery, up, others, left>>

Apply == task.j.kind # "replace_batch" /\ ApplyNext
ApplyBatch == task.j.kind = "replace_batch" /\ ApplyNext

VerifyApplied ==
  /\ At("edit", "apply") /\ task.i = Len(task.j.writes)
  /\ IF draft = task.j.after THEN GoTo("commit") /\ WriteJournal("files_applied") /\ UNCHANGED up
     ELSE Release /\ UNCHANGED journal
  /\ UNCHANGED <<databaseVars, dir, tombOp, trees, control, recovery, others, left>>

Edited(j) == [row EXCEPT !.draft = j.after, !.state = "ready", !.rev = j.rev + 1]

Commit ==
  /\ At("edit", "commit")
  /\ \/ UpdateWorkspace(task.j.rev, Edited(task.j)) /\ GoTo("committed") /\ UNCHANGED up
     \/ row.rev # task.j.rev /\ Release /\ UNCHANGED row
  /\ UNCHANGED <<deletedBy, diskVars, others, left>>

Committed ==
  /\ At("edit", "committed") /\ GoTo("base") /\ WriteJournal("sql_committed")
  /\ UNCHANGED <<databaseVars, dir, tombOp, trees, control, recovery, up, others, left>>

WriteBase ==
  /\ At("edit", "base") /\ GoTo("manifest")
  /\ baseManifest' = IF task.base THEN Base ELSE baseManifest
  /\ UNCHANGED <<databaseVars, dir, tombOp, draft, manifest, prepared, control, journal, recovery, up, others, left>>

WriteControlManifest ==
  /\ At("edit", "manifest") /\ GoTo("control") /\ manifest' = task.j.after
  /\ UNCHANGED <<databaseVars, dir, tombOp, draft, baseManifest, prepared, control, journal, recovery, up, others, left>>

WriteControlState ==
  /\ At("edit", "control") /\ GoTo("done") /\ control' = [state |-> "ready", rev |-> task.j.rev + 1]
  /\ UNCHANGED <<databaseVars, dir, tombOp, trees, journal, recovery, up, others, left>>

ControlCommitted ==
  /\ At("edit", "done") /\ GoTo("cleanup") /\ WriteJournal("control_committed")
  /\ UNCHANGED <<databaseVars, dir, tombOp, trees, control, recovery, up, others, left>>

\* removeRecovery: one file after another; also the end of a reconciled edit.
RemoveRecovery ==
  /\ task.at = "cleanup"
  /\ LET there == SelectSeq(EvidenceNames, LAMBDA n : <<task.j.op, n>> \in recovery)
     IN IF there = <<>> THEN GoTo("answer") /\ UNCHANGED recovery
        ELSE recovery' = recovery \ Named(task.j.op, {Head(there)}) /\ UNCHANGED task
  /\ UNCHANGED <<databaseVars, dir, tombOp, trees, control, journal, up, others, left>>

\* RemoveJournal, and the answer to the client, who learns the new ETag.
RemoveJournal ==
  /\ task.at = "answer" /\ journal' = NoJournal /\ Release
  /\ seen' = IF task.job = "edit" THEN [seen EXCEPT ![task.by] = task.j.after] ELSE seen
  /\ UNCHANGED <<databaseVars, dir, tombOp, trees, control, recovery, deleter, getter, changed, disturbed, bounds>>

EditSteps ==
  \/ \E c \in Clients : Edit(c) \/ EditBatch(c) \/ EditStale(c)
  \/ EditDoubted \/ WriteRecovery \/ Prepare \/ Apply \/ ApplyBatch \/ VerifyApplied \/ Commit \/ Committed
  \/ WriteBase \/ WriteControlManifest \/ WriteControlState \/ ControlCommitted

-------------------------------------------------------------------------------
(* Reading. *)

\* openVerifiedWorkspace under the shared lock: Tree, ReadFile, Diff, DraftSnapshot.
Read(c) ==
  /\ up = "serving" /\ task = Idle /\ Usable /\ BaseIsKnown /\ draft = row.draft
  /\ seen' = [seen EXCEPT ![c] = row.draft]
  /\ UNCHANGED <<databaseVars, diskVars, up, task, deleter, getter, changed, disturbed, bounds>>

\* Get and List answer from the row, and ask for production if it is ready.
Get(c) ==
  /\ up = "serving" /\ row # NoRow /\ getter = Nobody
  /\ IF row.state = "ready" /\ changed
     THEN getter' = [at |-> "asked", by |-> c, row |-> row] /\ UNCHANGED seen
     ELSE seen' = [seen EXCEPT ![c] = row.draft] /\ UNCHANGED getter
  /\ UNCHANGED <<databaseVars, diskVars, up, task, deleter, changed, disturbed, bounds>>

\* refreshReady: the row of the answer becomes stale, without the lock.
GetMarksStale ==
  /\ getter.at = "asked"
  /\ \/ /\ UpdateWorkspace(getter.row.rev, [getter.row EXCEPT !.state = "stale", !.rev = @ + 1])
        /\ getter' = [getter EXCEPT !.at = "control", !.row = row']
     \/ row.rev # getter.row.rev /\ getter' = Nobody /\ UNCHANGED row
  /\ UNCHANGED <<deletedBy, diskVars, up, task, deleter, changed, seen, disturbed, bounds>>

GetWritesControl ==
  /\ getter.at = "control" /\ getter' = Nobody
  /\ IF dir = "place" THEN control' = ControlOf(getter.row) /\ seen' = [seen EXCEPT ![getter.by] = getter.row.draft]
     ELSE UNCHANGED <<control, seen>>
  /\ UNCHANGED <<databaseVars, dir, tombOp, trees, journal, recovery, up, task, deleter, changed, disturbed, bounds>>

-------------------------------------------------------------------------------
(* Delete. *)

\* Row and ETag are read before the lock is there; a published workspace is refused.
ReadForDelete(c) ==
  /\ up = "serving" /\ row # NoRow /\ HasETag(c) /\ dir = "place"
  /\ deleter = Nobody /\ edits < MaxEdits
  /\ deleter' = [at |-> "read", by |-> c, row |-> row]
  /\ UNCHANGED <<databaseVars, diskVars, up, task, getter, changed, seen, disturbed, bounds>>

\* The lock, and the journal: the one of a failed edit is written over.
LockDelete ==
  /\ deleter.at = "read" /\ task = Idle /\ edits < MaxEdits
  /\ IF dir = "none" THEN UNCHANGED <<journal, task, disturbed, edits>>
     ELSE LET j == [op |-> edits + 1, kind |-> "workspace_delete", phase |-> "prepared", rev |-> deleter.row.rev,
                    before |-> deleter.row.draft, after |-> deleter.row.draft, writes |-> <<>>]
          IN /\ journal' = j /\ task' = [Idle EXCEPT !.job = "delete", !.at = "move", !.by = deleter.by, !.j = j]
             /\ edits' = edits + 1
             /\ disturbed' = (disturbed \/ journal # NoJournal)
  /\ deleter' = Nobody
  /\ UNCHANGED <<databaseVars, dir, tombOp, trees, control, recovery, up, getter, changed, seen, left>>

\* Another Delete may have moved it already, and failed.
MoveAside ==
  /\ At("delete", "move")
  /\ IF dir = "place" THEN GoTo("moved") /\ dir' = "tomb" /\ tombOp' = task.j.op /\ UNCHANGED up
     ELSE Release /\ UNCHANGED <<dir, tombOp>>
  /\ UNCHANGED <<databaseVars, trees, control, journal, recovery, others, left>>

Moved ==
  /\ At("delete", "moved") /\ GoTo("commit") /\ WriteJournal("files_applied")
  /\ UNCHANGED <<databaseVars, dir, tombOp, trees, control, recovery, up, others, left>>

DeleteRow ==
  /\ At("delete", "commit")
  /\ \/ row.rev = task.j.rev /\ Works /\ row' = NoRow /\ deletedBy' = task.j.op /\ GoTo("committed")
     \/ row.rev # task.j.rev /\ Works /\ GoTo("restore") /\ UNCHANGED databaseVars
     \/ Fails("store") /\ GoTo("restore") /\ UNCHANGED databaseVars
  /\ UNCHANGED <<diskVars, up, others>>

\* The row is still there: the directory goes back, then the journal goes.
PutBack ==
  /\ At("delete", "restore") /\ GoTo("answer") /\ dir' = "place"
  /\ UNCHANGED <<databaseVars, tombOp, trees, control, journal, recovery, up, others, left>>

DeleteCommitted ==
  /\ At("delete", "committed")
  /\ IF task.i = 0 THEN WriteJournal("sql_committed") /\ task' = [task EXCEPT !.i = 1]
     ELSE WriteJournal("control_committed") /\ GoTo("clear")
  /\ UNCHANGED <<databaseVars, dir, tombOp, trees, control, recovery, up, others, left>>

\* removeOwnedWorkspace clears control, and the journal with it, before draft.
Clear ==
  /\ task.at = "clear" /\ GoTo("cleared")
  /\ journal' = NoJournal /\ recovery' = {} /\ control' = NoControl
  /\ manifest' = NoTree /\ baseManifest' = NoTree /\ prepared' = NoTree
  /\ UNCHANGED <<databaseVars, dir, tombOp, draft, up, others, left>>

RemoveDirectory ==
  /\ task.at = "cleared" /\ Release /\ dir' = "none" /\ draft' = NoTree
  /\ UNCHANGED <<databaseVars, tombOp, manifest, baseManifest, prepared, control, journal, recovery, others, left>>

DeleteSteps ==
  \/ \E c \in Clients : ReadForDelete(c)
  \/ LockDelete \/ MoveAside \/ Moved \/ DeleteRow \/ PutBack \/ DeleteCommitted \/ Clear \/ RemoveDirectory

-------------------------------------------------------------------------------
(* Death, and Reconcile before the next process serves. *)

\* The process dies between two writes, or within one of the draft.
Dies ==
  /\ up # "down" /\ Fails("death") /\ up' = "down"
  /\ task' = Idle /\ deleter' = Nobody /\ getter' = Nobody
  /\ \/ UNCHANGED draft
     \/ /\ task.job \in {"edit", "reconcile"} /\ task.at \in {"apply", "undo"} /\ task.i < Len(task.j.writes)
        /\ draft' = Write(draft, <<task.j.writes[task.i + 1][1], Torn>>)
  /\ UNCHANGED <<databaseVars, dir, tombOp, manifest, baseManifest, prepared, control, journal, recovery,
                 changed, seen, disturbed, edits>>

Starts ==
  /\ up = "down" /\ up' = "starting" /\ task' = [Idle EXCEPT !.job = "reconcile", !.at = "look"]
  /\ UNCHANGED <<databaseVars, diskVars, others, left>>

\* A statement of Reconcile fails: the UI does not start.
StartFails ==
  /\ up = "starting" /\ Fails("store") /\ up' = "down" /\ task' = Idle
  /\ UNCHANGED <<databaseVars, diskVars, others>>

Looking == At("reconcile", "look")
ReconcileRest == UNCHANGED <<databaseVars, diskVars, others, left>>

ReconcileNothing == Looking /\ dir = "none" /\ row = NoRow /\ Release /\ ReconcileRest

\* WORKSPACE_MISSING.
ReconcileMissing ==
  /\ Looking /\ dir = "none" /\ row # NoRow /\ MarkNeedsAttention(FALSE)
  /\ UNCHANGED <<deletedBy, diskVars, others, left>>

IsDelete(j) == j # NoJournal /\ j.kind = "workspace_delete"
OfTombstone == IsDelete(journal) /\ journal.op = tombOp
\* workspaceDeleteCommitted: the audit of the deletion is in the database.
DeleteIsCommitted == deletedBy = journal.op
PhaseBefore(j) == j.phase \in {"prepared", "files_applied"}

\* A tombstone and its row: back to its place, if the journal is about this row.
TombstoneGoesBack ==
  /\ Looking /\ dir = "tomb" /\ row # NoRow /\ OfTombstone /\ ~DeleteIsCommitted
  /\ journal.rev = row.rev /\ journal.before = row.draft /\ PhaseBefore(journal)
  /\ dir' = "place" /\ task' = [task EXCEPT !.at = "answer", !.j = journal]
  /\ UNCHANGED <<databaseVars, tombOp, trees, control, journal, recovery, up, others, left>>

TombstoneDoubted ==
  /\ Looking /\ dir = "tomb" /\ row # NoRow
  /\ ~(OfTombstone /\ ~DeleteIsCommitted /\ journal.rev = row.rev /\ journal.before = row.draft
       /\ PhaseBefore(journal))
  /\ MarkNeedsAttention(FALSE)
  /\ UNCHANGED <<deletedBy, diskVars, others, left>>

\* A tombstone without row whose deletion is committed: the rest is removed.
TombstoneRemoved ==
  /\ Looking /\ dir = "tomb" /\ row = NoRow /\ OfTombstone /\ DeleteIsCommitted
  /\ task' = [task EXCEPT !.at = "clear"]
  /\ UNCHANGED <<databaseVars, diskVars, up, others, left>>

\* markOrphanTombstoneNeedsAttention: it stays, with a control state that says so.
TombstoneStays ==
  /\ Looking /\ dir = "tomb" /\ row = NoRow /\ ~(OfTombstone /\ DeleteIsCommitted)
  /\ Release
  /\ control' = IF control # NoControl /\ control.state = "needs_attention" THEN control
                ELSE [state |-> "needs_attention", rev |-> IF control = NoControl THEN 1 ELSE control.rev + 1]
  /\ UNCHANGED <<databaseVars, dir, tombOp, trees, journal, recovery, others, left>>

\* reconcileOrphan: a directory without row is removed if Create left it.
OrphanRemoved ==
  /\ Looking /\ dir = "place" /\ row = NoRow /\ control # NoControl /\ control.state = "preparing"
  /\ task' = [task EXCEPT !.at = "clear"]
  /\ UNCHANGED <<databaseVars, diskVars, up, others, left>>

\* Otherwise it stays, with a control state that says so.
OrphanMarked ==
  /\ Looking /\ dir = "place" /\ row = NoRow /\ (control = NoControl \/ control.state # "preparing")
  /\ Release
  /\ control' = [state |-> "needs_attention", rev |-> IF control = NoControl THEN 1 ELSE control.rev + 1]
  /\ UNCHANGED <<databaseVars, dir, tombOp, trees, journal, recovery, others, left>>

InPlace == Looking /\ dir = "place" /\ row # NoRow

DeleteMatchesRow ==
  /\ journal.rev = row.rev /\ journal.before = row.draft /\ ~DeleteIsCommitted /\ PhaseBefore(journal)

\* reconcileWorkspaceDeleteOriginal.
DeleteAbandoned ==
  /\ InPlace /\ IsDelete(journal)
  /\ IF DeleteMatchesRow
     THEN task' = [task EXCEPT !.at = "answer", !.j = journal] /\ UNCHANGED <<row, up>>
     ELSE MarkNeedsAttention(TRUE)
  /\ UNCHANGED <<deletedBy, diskVars, others, left>>

IsEdit(j) == j # NoJournal /\ j.kind # "workspace_delete"
Kept(n) == <<journal.op, n>> \in recovery

\* The manifests and copies that the decision needs.
CopiesAreThere(names) == \A n \in names : Kept(n)
BaseIsRecoverable ==
  IF baseManifest = NoTree THEN journal.rev = 1 /\ Kept("base-manifest.bin") ELSE baseManifest = Base
EvidenceIsThere ==
  /\ CopiesAreThere({"manifest.bin", "before-manifest.bin"}) /\ BaseIsRecoverable
  /\ CopiesAreThere(CopyNames(journal.kind) \cup BatchCopyNames(journal.kind))

\* An edit must be applied or not, a batch may be half applied.
DraftIsKnown == draft \in {journal.before, journal.after}
BatchIsKnown == \A f \in Files : draft[f] \in {journal.before[f], journal.after[f]}

IsBefore == row.rev = journal.rev /\ row.draft = journal.before /\ PhaseBefore(journal)
IsAfter == row.rev = journal.rev + 1 /\ row.draft = journal.after /\ draft = journal.after /\ journal.phase # "prepared"

EditIsDecided ==
  /\ EvidenceIsThere /\ (IsBefore \/ IsAfter)
  /\ IF journal.kind = "replace_batch" THEN BatchIsKnown ELSE DraftIsKnown

\* (Mutant: a doubtful edit is an error of the start.)
EditDoubtfulFails ==
  /\ InPlace /\ IsEdit(journal) /\ ~EditIsDecided /\ up' = "down" /\ task' = Idle
  /\ UNCHANGED <<databaseVars, diskVars, others, left>>

EditDoubtful ==
  /\ InPlace /\ IsEdit(journal) /\ ~EditIsDecided /\ MarkNeedsAttention(TRUE)
  /\ UNCHANGED <<deletedBy, diskVars, others, left>>

\* What is written back, in this order; nothing if the edit had not been applied.
WrittenBack(j) == [i \in DOMAIN j.writes |-> <<j.writes[i][1], j.before[j.writes[i][1]]>>]
UndoWrites(j) == IF draft = j.after THEN WrittenBack(j) ELSE <<>>

GoBack(writes) ==
  /\ EditIsDecided /\ IsBefore
  /\ task' = [task EXCEPT !.at = "undo", !.j = [journal EXCEPT !.writes = writes, !.after = journal.before]]
  /\ UNCHANGED <<databaseVars, diskVars, up, others, left>>

\* The row does not have the edit: the draft goes back to it.
EditGoesBack == InPlace /\ IsEdit(journal) /\ journal.kind # "replace_batch" /\ GoBack(UndoWrites(journal))
BatchGoesBack == InPlace /\ journal.kind = "replace_batch" /\ GoBack(WrittenBack(journal))

Undo ==
  /\ At("reconcile", "undo")
  /\ IF task.i < Len(task.j.writes)
     THEN task' = [task EXCEPT !.i = @ + 1] /\ draft' = Write(draft, task.j.writes[task.i + 1])
     ELSE GoTo("manifest") /\ UNCHANGED draft
  /\ UNCHANGED <<databaseVars, dir, tombOp, manifest, baseManifest, prepared, control, journal, recovery, up, others, left>>

\* The row has the edit: what was still to be written of the control files.
EditGoesOn ==
  /\ InPlace /\ IsEdit(journal) /\ EditIsDecided /\ IsAfter
  /\ task' = [task EXCEPT !.at = "base", !.j = journal, !.base = baseManifest = NoTree]
  /\ UNCHANGED <<databaseVars, diskVars, up, others, left>>

ReconcileBase ==
  /\ At("reconcile", "base") /\ GoTo("manifest") /\ baseManifest' = Base
  /\ UNCHANGED <<databaseVars, dir, tombOp, draft, manifest, prepared, control, journal, recovery, up, others, left>>

ReconcileManifest ==
  /\ At("reconcile", "manifest") /\ GoTo("control") /\ manifest' = task.j.after
  /\ UNCHANGED <<databaseVars, dir, tombOp, draft, baseManifest, prepared, control, journal, recovery, up, others, left>>

ReconcileControl ==
  /\ At("reconcile", "control") /\ GoTo("cleanup") /\ control' = ControlOf(row)
  /\ UNCHANGED <<databaseVars, dir, tombOp, trees, journal, recovery, up, others, left>>

\* cleanupOrphanRecovery: copies without a journal are removed.
OrphanRecovery ==
  /\ InPlace /\ journal = NoJournal /\ recovery' = {}
  /\ IF row.state = "ready" THEN GoTo("plain") /\ UNCHANGED up ELSE Release
  /\ UNCHANGED <<databaseVars, dir, tombOp, trees, control, journal, others, left>>

\* reconciliationManifest: the prepared one counts while the state is preparing.
ManifestThere ==
  IF manifest # NoTree THEN manifest ELSE IF control.state = "preparing" THEN prepared ELSE NoTree

PlainIsSound ==
  /\ control # NoControl /\ control.rev <= row.rev /\ control.state \in {"ready", "preparing"}
  /\ ManifestThere = row.draft /\ BaseIsKnown /\ draft = row.draft

PlainDoubtful ==
  /\ At("reconcile", "plain") /\ ~PlainIsSound /\ MarkNeedsAttention(TRUE)
  /\ UNCHANGED <<deletedBy, diskVars, others, left>>

\* A workspace whose row says ready: its control state is brought up to date.
PlainCurrent ==
  /\ At("reconcile", "plain") /\ PlainIsSound /\ control.state = "ready" /\ Release
  /\ control' = ControlOf(row) /\ prepared' = NoTree
  /\ UNCHANGED <<databaseVars, dir, tombOp, draft, manifest, baseManifest, journal, recovery, others, left>>

\* finalizeCommittedWorkspace: Create had inserted the row; a new revision first.
Finalize ==
  /\ At("reconcile", "plain") /\ PlainIsSound /\ control.state = "preparing" /\ GoTo("final")
  /\ row' = IF control.rev = row.rev THEN [row EXCEPT !.rev = @ + 1] ELSE row
  /\ UNCHANGED <<deletedBy, diskVars, up, others, left>>

\* ... then manifest, base manifest and control state, one by one.
FinalizeFiles ==
  /\ At("reconcile", "final")
  /\ IF manifest = NoTree THEN manifest' = prepared /\ UNCHANGED <<baseManifest, prepared, control, task, up>>
     ELSE IF baseManifest = NoTree THEN baseManifest' = manifest /\ UNCHANGED <<manifest, prepared, control, task, up>>
     ELSE control' = ControlOf(row) /\ prepared' = NoTree /\ Release /\ UNCHANGED <<manifest, baseManifest>>
  /\ UNCHANGED <<databaseVars, dir, tombOp, draft, journal, recovery, others, left>>

Reconcile ==
  \/ ReconcileNothing \/ ReconcileMissing \/ TombstoneGoesBack \/ TombstoneDoubted \/ TombstoneRemoved
  \/ TombstoneStays \/ OrphanRemoved \/ OrphanMarked \/ DeleteAbandoned \/ EditDoubtful \/ EditGoesBack \/ BatchGoesBack \/ Undo
  \/ EditGoesOn \/ ReconcileBase \/ ReconcileManifest \/ ReconcileControl \/ OrphanRecovery
  \/ PlainDoubtful \/ PlainCurrent \/ Finalize \/ FinalizeFiles

\* Steps that the holder of the lock shares with Reconcile.
SharedSteps == MarkControl \/ RemoveRecovery \/ RemoveJournal

ProductionChanges ==
  /\ row # NoRow /\ ~changed /\ changed' = TRUE
  /\ UNCHANGED <<databaseVars, diskVars, up, task, deleter, getter, seen, disturbed, bounds>>

\* The files are not the UI's alone: someone edits a draft, or the volume is lost.
FilesTouched ==
  /\ task = Idle /\ dir = "place" /\ Fails("loss") /\ disturbed' = TRUE
  /\ \/ draft # NoTree /\ \E f \in Files : Present(draft, f) /\ draft' = Write(draft, <<f, Torn>>) /\ UNCHANGED dir
     \/ up = "down" /\ dir' = "none" /\ draft' = NoTree
  /\ IF dir' = "none"
     THEN /\ manifest' = NoTree /\ baseManifest' = NoTree /\ prepared' = NoTree
          /\ control' = NoControl /\ journal' = NoJournal /\ recovery' = {}
     ELSE UNCHANGED <<manifest, baseManifest, prepared, control, journal, recovery>>
  /\ UNCHANGED <<databaseVars, tombOp, up, task, deleter, getter, changed, seen, edits>>

Next ==
  \/ Create \/ EditSteps \/ DeleteSteps \/ SharedSteps
  \/ Stops("disk") \/ Stops("store")
  \/ \E c \in Clients : Read(c) \/ Get(c)
  \/ GetMarksStale \/ GetWritesControl
  \/ Dies \/ Starts \/ StartFails \/ Reconcile \/ ProductionChanges \/ FilesTouched

\* What a start does.
StartUp == Reconcile \/ SharedSteps \/ Clear \/ RemoveDirectory

\* s6 starts the UI process again, and what it reconciles does not wait for anybody.
Spec == Init /\ [][Next]_vars /\ WF_vars(Starts) /\ WF_vars(StartUp)

-------------------------------------------------------------------------------
(* What holds. *)

\* Write-ahead: a draft that is not the row's is always covered by a journal and the copies to go back.
DraftIsCovered ==
  row.state = "ready" /\ dir = "place" /\ draft # row.draft /\ ~disturbed =>
    /\ IsEdit(journal) /\ journal.rev = row.rev /\ journal.before = row.draft
    /\ Evidence(journal, baseManifest = NoTree) \subseteq recovery

\* A workspace that will be served has the draft and the manifests of its row.
ServedIsCommitted ==
  up = "serving" /\ task = Idle /\ Usable /\ ~disturbed =>
    draft = row.draft /\ BaseIsKnown

\* The control state never runs ahead of the row.
ControlFollows == dir = "place" /\ row # NoRow /\ control # NoControl => control.rev <= row.rev

\* What an edit replaces, or a deletion removes, is what its client has seen, whatever was written
\* meanwhile and taken back: the tag compares content, the row is compared and swapped by revision.
NoLostUpdate ==
  [][row # NoRow /\ (row' = NoRow \/ row'.draft # row.draft) => seen[task.by] = row.draft]_vars

\* A workspace that has become stale or doubtful is never edited, published or served again.
StaleIsFinal == [][row.state \in {"stale", "needs_attention"} => row'.state # "ready"]_vars

\* The files go after the row, the row after the directory was moved aside, and a deletion stays.
DeletionIsOneWay ==
  [][/\ up # "down" /\ dir # "none" /\ dir' = "none" => row = NoRow
     /\ row # NoRow /\ row' = NoRow => dir = "tomb"
     /\ dir = "tomb" /\ dir' = "place" => row # NoRow]_vars

\* The UI comes back.
ComesBack == up = "down" ~> up = "serving"
================================================================================
