------------------------------ MODULE MCEditing ------------------------------
(***************************************************************************)
(* Editing the configuration, on small instances: a workspace with its     *)
(* draft, the structured edits of one, the groups of files, and the scoped *)
(* writes of files that all of it rests on.  They share no state, so each  *)
(* behaviour picks one of them and leaves the others where they begin.     *)
(* The groups, which GroupsProofs is about, keep the names of Groups. *)
(***************************************************************************)
EXTENDS Groups, TLC

VARIABLES
  which,
  w_row, w_deletedBy, w_dir, w_tombOp, w_draft, w_manifest, w_baseManifest, w_prepared,
  w_control, w_journal, w_recovery, w_up, w_task, w_deleter, w_getter, w_changed, w_seen,
  w_disturbed, w_edits, w_left,
  e_draft, e_revision, e_req,
  f_entry, f_stored, f_changes, f_data, f_synced, f_op, f_meant, f_reader

AllKinds == {"create", "replace", "copy", "rename", "delete", "replace_batch"}

\* One client, whose requests still overlap: a Delete waits for the lock and a Get holds none.
Workspace == INSTANCE WorkspaceDraft WITH
  Clients <- {"client"}, Asked <- AllKinds, Entry <- "nginx.conf", Other <- "site.conf",
  Faults <- {"disk", "store", "death", "loss"}, MaxEdits <- 2, Budget <- 2,
  row <- w_row, deletedBy <- w_deletedBy, dir <- w_dir, tombOp <- w_tombOp, draft <- w_draft,
  manifest <- w_manifest, baseManifest <- w_baseManifest, prepared <- w_prepared,
  control <- w_control, journal <- w_journal, recovery <- w_recovery, up <- w_up,
  task <- w_task, deleter <- w_deleter, getter <- w_getter, changed <- w_changed,
  seen <- w_seen, disturbed <- w_disturbed, edits <- w_edits, left <- w_left

\* Two clients, three replacements and no fault: one takes back what it wrote while the other holds
\* the ETag of before.
Shared == INSTANCE WorkspaceDraft WITH
  Clients <- Clients, Asked <- {"replace"}, Entry <- "nginx.conf", Other <- "site.conf",
  Faults <- {}, MaxEdits <- 3, Budget <- 0,
  row <- w_row, deletedBy <- w_deletedBy, dir <- w_dir, tombOp <- w_tombOp, draft <- w_draft,
  manifest <- w_manifest, baseManifest <- w_baseManifest, prepared <- w_prepared,
  control <- w_control, journal <- w_journal, recovery <- w_recovery, up <- w_up,
  task <- w_task, deleter <- w_deleter, getter <- w_getter, changed <- w_changed,
  seen <- w_seen, disturbed <- w_disturbed, edits <- w_edits, left <- w_left

Named(name, servers) == [name |-> name, once |-> TRUE, servers |-> servers]
Place(type, matcher, proxy, children) ==
  [type |-> type, matcher |-> matcher, proxy |-> proxy, children |-> children]
Draft(upstreams, locations) ==
  [complete |-> TRUE, upstreams |-> upstreams, locations |-> locations]

\* What others make of the draft: references in nested locations, names that two upstreams have or
\* that are hosts too, a proxy_pass that cannot be read, and an include that cannot be followed.
Drafts ==
  {Draft(<<Named("a", <<"up">>)>>, <<>>),
   Draft(<<Named("a", <<"up", "raw">>), Named("b.c", <<"up", "down">>)>>,
         <<Place("prefix", <<"x">>, "b.c",
                 <<Place("exact", <<"x", "y">>, "a", <<>>), Place("regex", <<"r">>, "b.c", <<>>)>>)>>),
   Draft(<<Named("b.c", <<"up", "up">>)>>,
         <<Place("prefix", <<>>, "b.c", <<Place("prefix", <<"x">>, "b.c", <<>>)>>)>>),
   Draft(<<Named("a", <<"up">>), Named("a", <<"down">>)>>,
         <<Place("named", <<"n">>, "a", <<>>), Place("prefix", <<"x">>, "b.c", <<>>)>>),
   Draft(<<Named("a", <<"up">>)>>, <<Place("prefix", <<>>, "dynamic", <<>>)>>),
   [complete |-> FALSE, locations |-> <<>>,
    upstreams |-> <<[name |-> "a", once |-> FALSE, servers |-> <<"up">>]>>]}

\* One client, and anybody else who changes the draft between its preview and its Apply.
Structure == INSTANCE StructuredEdits WITH
  Clients <- {"client"}, Names <- {"a", "b.c"}, Hosts <- {"b.c"}, Drafts <- Drafts,
  Matchers <- {<<"prefix", <<"x">>>>, <<"exact", <<"x", "y">>>>, <<"regex", <<"r">>>>, <<"named", <<"n">>>>},
  MaxRevision <- 3, MaxNodes <- 2,
  draft <- e_draft, revision <- e_revision, req <- e_req

\* Two names of groups differ only in how they are written.
GroupNames == {<<"a", "a">>, <<"a", "A">>, <<"b", "b">>}

\* The contents of a file are two, one like the other, as the clients of the groups are.
Writes == INSTANCE ScopedFiles WITH
  Contents <- Clients, Inodes <- {"i1", "i2", "i3"}, MaxChanges <- 2,
  entry <- f_entry, stored <- f_stored, changes <- f_changes, data <- f_data,
  synced <- f_synced, op <- f_op, meant <- f_meant, reader <- f_reader

w_vars == <<w_row, w_deletedBy, w_dir, w_tombOp, w_draft, w_manifest, w_baseManifest,
            w_prepared, w_control, w_journal, w_recovery, w_up, w_task, w_deleter, w_getter,
            w_changed, w_seen, w_disturbed, w_edits, w_left>>
e_vars == <<e_draft, e_revision, e_req>>
f_vars == <<f_entry, f_stored, f_changes, f_data, f_synced, f_op, f_meant, f_reader>>

AnyInit ==
  /\ which \in {"workspace", "shared", "structure", "groups", "files"}
  /\ IF which = "shared" THEN Shared!Init ELSE Workspace!Init
  /\ /\ Structure!Init /\ Init /\ Writes!Init
  /\ which # "structure" => e_draft = Draft(<<Named("a", <<"up">>)>>, <<>>)

Workspaces == which = "workspace" /\ Workspace!Next /\ UNCHANGED <<which, e_vars, vars, f_vars>>
Sharings   == which = "shared" /\ Shared!Next /\ UNCHANGED <<which, e_vars, vars, f_vars>>
Structures == which = "structure" /\ Structure!Next /\ UNCHANGED <<which, w_vars, vars, f_vars>>
Groupings  == which = "groups" /\ Next /\ UNCHANGED <<which, w_vars, e_vars, f_vars>>
FileWrites == which = "files" /\ Writes!Next /\ UNCHANGED <<which, w_vars, e_vars, vars>>

AnyNext == Workspaces \/ Sharings \/ Structures \/ Groupings \/ FileWrites

AnySpec == AnyInit /\ [][AnyNext]_<<which, w_vars, e_vars, vars, f_vars>>

Symmetry == Permutations(Clients)

-------------------------------------------------------------------------------
(* Properties, made of those the modules state; that of the groups is GroupsAgree. *)

\* The variables of the modules have their types.
AnyTypeOK ==
  /\ which = "workspace" => Workspace!TypeOK
  /\ which = "shared"    => Shared!TypeOK
  /\ which = "structure" => Structure!TypeOK
  /\ which = "groups"    => TypeOK
  /\ which = "files"     => Writes!TypeOK

\* A draft that differs from its row is covered by a journal and the copies to go back, whatever
\* died; a workspace that is served has the draft and the manifests of its row; and its control
\* state is never ahead of the row.
DraftEndures == which \in {"workspace", "shared"} =>
  Workspace!DraftIsCovered /\ Workspace!ServedIsCommitted /\ Workspace!ControlFollows

\* Whoever changes a draft or the groups has seen what they change, and what is written is the
\* operation that was reviewed; a workspace that became stale or was deleted stays so.
NoEditIsLost ==
  /\ Workspace!NoLostUpdate /\ Workspace!StaleIsFinal /\ Workspace!DeletionIsOneWay
  /\ Structure!AppliesWhatWasReviewed
  /\ ChangesAreOfWhatWasSeen

\* A structured edit sends no location to another upstream, and leaves no upstream without a peer.
StructureIsKept == Structure!ReferencesSurvive /\ Structure!PeersRemain

\* A file is what an operation left or tried to write, whole, through any failure of power, and who
\* reads it sees one content.
FilesAreAsMeant == which = "files" => Writes!FileIsAsMeant /\ Writes!ReadersSeeOneContent
=============================================================================
