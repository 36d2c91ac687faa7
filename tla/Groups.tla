-------------------------------- MODULE Groups --------------------------------
(***************************************************************************)
(* The logical groups of configuration files: one collection, changed as a *)
(* whole by requests that name the version their client saw (its strong    *)
(* ETag).  A handler reads the collection twice before the transaction     *)
(* that replaces it, and other handlers run between its steps.             *)
(***************************************************************************)
EXTENDS Naturals, Sequences, FiniteSets

CONSTANTS
  Clients,
  Titles,            \* each a pair: the normalised name, and the name as it is written
  MemberFiles,       \* that may be members of a group
  MaxGroups, MaxTotalMembers,
  MaxRevision        \* bound of the model: at most this many changes

VARIABLES
  collection, \* its revision, and the groups: id, name and members
  audit,      \* the operations recorded: the collections before and after each
  seen,       \* client -> the last collection it was answered with
  req         \* client -> its request: the change asked for and the point its handler is at

vars == <<collection, audit, seen, req>>

Group(id, name, members) == [id |-> id, name |-> name, members |-> members]
NoChange == [action |-> "none", id |-> 0, name |-> <<>>, members |-> {}]
Idle     == [at |-> "idle", change |-> NoChange, match |-> 0, read |-> 0]

\* The ETag is a digest of the revision and of every group, so here the revision and the groups.
ETag(c) == c

Init ==
  /\ collection = [revision |-> 1, groups |-> {}]
  /\ audit = <<>>
  /\ seen = [c \in Clients |-> collection]
  /\ req = [c \in Clients |-> Idle]

-------------------------------------------------------------------------------
(* The changes. *)

Find(groups, id)         == {g \in groups : g.id = id}
NameTaken(groups, name, except) == \E g \in groups : g.id # except /\ g.name[1] = name[1]

Members(groups) == UNION {{<<g.id, f>> : f \in g.members} : g \in groups}

WithinLimits(groups) ==
  /\ Cardinality(groups) <= MaxGroups
  /\ Cardinality(Members(groups)) <= MaxTotalMembers

\* The groups after a change; the id of a new group is random, here the revision it comes with.
CreateGroup(c, change) ==
  c.groups \union {Group(c.revision, change.name, change.members)}
ReplaceGroup(c, change) ==
  (c.groups \ Find(c.groups, change.id)) \union {Group(change.id, change.name, change.members)}
DeleteGroup(c, change) == c.groups \ Find(c.groups, change.id)

After(c, change) ==
  CASE change.action = "create"  -> CreateGroup(c, change)
    [] change.action = "replace" -> ReplaceGroup(c, change)
    [] OTHER                     -> DeleteGroup(c, change)

\* What each operation asks of the collection it read: a free name, a group that is there, the
\* limits, and for a deletion the name as it is written.
Allowed(c, change) ==
  CASE change.action = "create" ->
         ~NameTaken(c.groups, change.name, 0) /\ WithinLimits(CreateGroup(c, change))
    [] change.action = "replace" ->
         /\ Find(c.groups, change.id) # {}
         /\ ~NameTaken(c.groups, change.name, change.id)
         /\ WithinLimits(ReplaceGroup(c, change))
    [] OTHER -> \E g \in Find(c.groups, change.id) : g.name = change.name

-------------------------------------------------------------------------------
(* The requests. *)

\* A client lists the groups.
ListGroups(c) ==
  /\ req[c] = Idle
  /\ seen[c] # collection
  /\ seen' = [seen EXCEPT ![c] = collection]
  /\ UNCHANGED <<collection, audit, req>>

\* It asks for a change of what it saw.
Ask(c, action, name, members) ==
  /\ req[c] = Idle
  /\ \E id \in IF action = "create" THEN {0} ELSE {g.id : g \in seen[c].groups} :
       req' = [req EXCEPT ![c] =
         [at |-> "arrived", match |-> seen[c], read |-> 0,
          change |-> [action |-> action, id |-> id, name |-> name, members |-> members]]]
  /\ UNCHANGED <<collection, audit, seen>>

Refuse(c, shown) ==
  /\ seen' = [seen EXCEPT ![c] = shown] /\ req' = [req EXCEPT ![c] = Idle]
  /\ UNCHANGED <<collection, audit>>

\* The API compares the ETag with that of the collection it lists. A refused client asks for what
\* is there now.
RequireGroupIfMatch(c) ==
  /\ req[c].at = "arrived"
  /\ IF ETag(req[c].match) = ETag(collection)
     THEN req' = [req EXCEPT ![c].at = "matched"] /\ UNCHANGED <<collection, audit, seen>>
     ELSE Refuse(c, collection)

\* The service reads the collection, compares again, and decides on what it read.
Decide(c) ==
  /\ req[c].at = "matched"
  /\ IF ETag(req[c].match) = ETag(collection) /\ Allowed(collection, req[c].change)
     THEN req' = [req EXCEPT ![c].at = "decided", ![c].read = collection]
          /\ UNCHANGED <<collection, audit, seen>>
     ELSE Refuse(c, collection)

Replaced(read, change) == [revision |-> read.revision + 1, groups |-> After(read, change)]

\* (Mutant: the transaction does not compare the revision.)
CommitAlways(c) ==
  /\ req[c].at = "decided"
  /\ collection.revision < MaxRevision
  /\ LET next == Replaced(req[c].read, req[c].change) IN
       /\ collection' = next
       /\ audit' = Append(audit, [before |-> req[c].read, after |-> next])
       /\ seen' = [seen EXCEPT ![c] = next]
  /\ req' = [req EXCEPT ![c] = Idle]

\* One transaction advances the revision if it is the one that was read, replaces all groups and
\* records the operation.
Commit(c) ==
  /\ req[c].at = "decided"
  /\ collection.revision = req[c].read.revision
  /\ collection.revision < MaxRevision
  /\ LET next == Replaced(req[c].read, req[c].change) IN
       /\ collection' = next
       /\ audit' = Append(audit, [before |-> req[c].read, after |-> next])
       /\ \E shown \in {next, seen[c]} : seen' = [seen EXCEPT ![c] = shown] \* or the answer is lost
  /\ req' = [req EXCEPT ![c] = Idle]

\* Otherwise it refuses and the service reads the collection once more for the answer.
Conflict(c) ==
  /\ req[c].at = "decided"
  /\ collection.revision # req[c].read.revision
  /\ Refuse(c, collection)

\* The store fails, or the UI dies: nothing is changed and the client knows nothing new.
Fail(c) ==
  /\ req[c] # Idle
  /\ req' = [req EXCEPT ![c] = Idle]
  /\ UNCHANGED <<collection, audit, seen>>

Next ==
  \E c \in Clients :
    \/ ListGroups(c) \/ RequireGroupIfMatch(c) \/ Decide(c) \/ Commit(c) \/ Conflict(c) \/ Fail(c)
    \/ \E action \in {"create", "replace", "delete"}, name \in Titles, members \in SUBSET MemberFiles :
         Ask(c, action, name, members)

Spec == Init /\ [][Next]_vars

-------------------------------------------------------------------------------
(* Properties. *)

IsCollection(c) ==
  /\ c.revision \in 1 .. MaxRevision
  /\ \A g \in c.groups : g.id \in 1 .. MaxRevision /\ g.name \in Titles /\ g.members \subseteq MemberFiles

\* The variables have their types, and what is stored keeps the limits.
TypeOK ==
  /\ IsCollection(collection) /\ WithinLimits(collection.groups)
  /\ \A i \in DOMAIN audit : IsCollection(audit[i].before) /\ IsCollection(audit[i].after)
  /\ \A c \in Clients : IsCollection(seen[c]) /\ req[c].at \in {"idle", "arrived", "matched", "decided"}

\* A collection is only changed by a client that saw exactly this collection, and becomes what
\* that client asked for: no update is lost and none is applied twice when its answer was lost
\* (requireGroupETag and ChangeGroupCollection).
ChangesAreOfWhatWasSeen ==
  [][ collection' # collection =>
        \E c \in Clients :
          /\ seen[c] = collection
          /\ collection' = Replaced(seen[c], req[c].change) ]_vars

\* No two groups have names that differ only in how they are written (normalizedGroupNameExists;
\* the check is made on a collection read before the transaction).
NamesAreUnique ==
  \A g, h \in collection.groups : g.name[1] = h.name[1] => g = h

\* The recorded operations are a chain: each starts at what the one before it left, and the last
\* left the collection there is (changeGroupCollection, ChangeGroupCollection).
AuditIsAChain ==
  /\ \A i \in 1 .. Len(audit) - 1 : audit[i].after = audit[i + 1].before
  /\ audit # <<>> => audit[Len(audit)].after = collection

\* The groups have different names, and their audit tells how they came to be (changeGroupCollection):
\* the decision on a collection read before the transaction is still right in it.
GroupsAgree == NamesAreUnique /\ AuditIsAChain
===============================================================================
