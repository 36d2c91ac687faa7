------------------------------ MODULE GroupsProofs -----------------------------
(***************************************************************************)
(* What holds of the groups for any number of clients, names, files and    *)
(* limits.  All of it rests on one fact: a collection with the revision of *)
(* the stored one is the stored one, since every change takes the next     *)
(* revision.  So the comparison in the transaction is enough to make the   *)
(* decision, which was taken on a collection read before, still right.     *)
(***************************************************************************)
EXTENDS Groups, TLAPS

Handlers == {"idle", "arrived", "matched", "decided"}
Actions  == {"none", "create", "replace", "delete"}

\* The collections that may be stored: ids are never that of "no group".
Collections ==
  [revision : Nat \ {0},
   groups : SUBSET [id : Nat \ {0}, name : Titles \union {<<>>}, members : SUBSET MemberFiles]]

Changes ==
  [action : Actions, id : Nat, name : Titles \union {<<>>}, members : SUBSET MemberFiles]

Requests ==
  [at : Handlers, change : Changes, match : Collections \union {0}, read : Collections \union {0}]

Typed ==
  /\ collection \in Collections
  /\ audit \in Seq([before : Collections, after : Collections])
  /\ seen \in [Clients -> Collections]
  /\ req \in [Clients -> Requests]

Unique(c) == \A g, h \in c.groups : g.name[1] = h.name[1] => g = h

\* What a handler that is going to commit knows of the collection it read.
Decided(c) ==
  /\ req[c].read \in Collections
  /\ req[c].read = seen[c]
  /\ Unique(req[c].read) /\ Allowed(req[c].read, req[c].change)
  /\ req[c].read.revision <= collection.revision
  /\ req[c].read.revision = collection.revision => req[c].read = collection

\* What every handler knows: the version it was given is the one its client saw.
Matched(c) == req[c].at # "idle" => req[c].match = seen[c]

IInv ==
  /\ Typed
  /\ Unique(collection)
  /\ AuditIsAChain
  /\ \A c \in Clients : Matched(c)
  /\ \A c \in Clients : req[c].at = "decided" => Decided(c)

-------------------------------------------------------------------------------
(* The changes. *)

\* What an allowed change makes of a collection can be stored, and its names are unique
\* (CreateGroup, ReplaceGroup, DeleteGroup).
LEMMA AllowedIsGood ==
  ASSUME NEW c \in Collections, NEW change \in Changes, Unique(c), Allowed(c, change)
  PROVE  /\ Replaced(c, change) \in Collections
         /\ Unique(Replaced(c, change))
         /\ Replaced(c, change).revision = c.revision + 1
<1> DEFINE G == [id : Nat \ {0}, name : Titles \union {<<>>}, members : SUBSET MemberFiles]
<1>1. c.groups \subseteq G /\ c.revision \in Nat \ {0}
  BY DEF Collections
<1>2. /\ change.action \in Actions /\ change.id \in Nat
      /\ change.name \in Titles \union {<<>>} /\ change.members \in SUBSET MemberFiles
  BY DEF Changes
<1>3. Replaced(c, change) = [revision |-> c.revision + 1, groups |-> After(c, change)]
  BY DEF Replaced
<1>4. CASE change.action = "create"
  <2>1. After(c, change) = c.groups \union {Group(c.revision, change.name, change.members)}
    BY <1>4 DEF After, CreateGroup
  <2>2. Group(c.revision, change.name, change.members) \in G
    BY <1>1, <1>2 DEF Group
  <2>3. \A g \in c.groups : g.name[1] # change.name[1]
    BY <1>1, <1>4 DEF Allowed, NameTaken
  <2>4. Group(c.revision, change.name, change.members).name = change.name
    BY DEF Group
  <2>5. \A g, h \in After(c, change) : g.name[1] = h.name[1] => g = h
    BY <2>1, <2>3, <2>4 DEF Unique
  <2> QED
    BY <1>1, <1>3, <2>1, <2>2, <2>5 DEF Collections, Unique
<1>5. CASE change.action = "replace"
  <2> DEFINE new == Group(change.id, change.name, change.members)
  <2>1. After(c, change) = (c.groups \ Find(c.groups, change.id)) \union {new}
    BY <1>5 DEF After, ReplaceGroup
  <2>2. change.id # 0
    BY <1>1, <1>5 DEF Allowed, Find
  <2>3. new \in G
    BY <1>2, <2>2 DEF Group
  <2>4. \A g \in c.groups \ Find(c.groups, change.id) : g.name[1] # change.name[1]
    BY <1>5 DEF Allowed, NameTaken, Find
  <2>5. new.name = change.name
    BY DEF Group
  <2> HIDE DEF new
  <2>6. \A g, h \in After(c, change) : g.name[1] = h.name[1] => g = h
    BY <2>1, <2>4, <2>5 DEF Unique
  <2> QED
    BY <1>1, <1>3, <2>1, <2>3, <2>6 DEF Collections, Unique
<1>6. CASE change.action \notin {"create", "replace"}
  <2>1. After(c, change) \subseteq c.groups
    BY <1>6 DEF After, DeleteGroup
  <2> QED
    BY <1>1, <1>3, <2>1 DEF Collections, Unique
<1> QED
  BY <1>4, <1>5, <1>6

-------------------------------------------------------------------------------
(* The invariant. *)

LEMMA InitIInv == Init => IInv
<1> SUFFICES ASSUME Init PROVE IInv
  OBVIOUS
<1>1. [revision |-> 1, groups |-> {}] \in Collections
  BY DEF Collections
<1>2. collection \in Collections /\ collection.groups = {}
  BY <1>1 DEF Init
<1>3. Idle \in Requests
  BY DEF Idle, NoChange, Requests, Changes, Handlers, Actions
<1>4. \A c \in Clients : req[c] = Idle /\ req[c].at = "idle"
  BY DEF Init, Idle
<1>5. Typed
  BY <1>2, <1>3 DEF Init, Typed
<1>6. AuditIsAChain
  BY DEF Init, AuditIsAChain
<1> QED
  BY <1>2, <1>4, <1>5, <1>6 DEF IInv, Unique, Matched

\* Whatever leaves the collection alone, and ends the request of one client or none, keeps what the
\* others know.
LEMMA OthersKnow ==
  ASSUME IInv, collection' = collection, audit' = audit,
         NEW c \in Clients,
         seen' \in [Clients -> Collections], req' \in [Clients -> Requests],
         \A d \in Clients \ {c} : seen'[d] = seen[d] /\ req'[d] = req[d],
         Matched(c)', req'[c].at = "decided" => Decided(c)'
  PROVE  IInv'
<1>1. Typed' /\ Unique(collection)' /\ AuditIsAChain'
  BY DEF IInv, Typed, Unique, AuditIsAChain
<1>2. ASSUME NEW d \in Clients \ {c}
      PROVE  Matched(d)' /\ (req'[d].at = "decided" => Decided(d)')
  BY <1>2 DEF IInv, Matched, Decided, Unique
<1> QED
  BY <1>1, <1>2 DEF IInv

\* An idle handler knows nothing.
LEMMA IdleKnows == Idle \in Requests /\ Idle.at = "idle"
  BY DEF Idle, NoChange, Requests, Changes, Handlers, Actions

LEMMA ListGroupsIInv ==
  ASSUME IInv, NEW c \in Clients, ListGroups(c) PROVE IInv'
<1>1. /\ collection' = collection /\ audit' = audit
      /\ seen' = [seen EXCEPT ![c] = collection] /\ req' = req /\ req[c] = Idle
  BY DEF ListGroups
<1>2. seen' \in [Clients -> Collections] /\ \A d \in Clients \ {c} : seen'[d] = seen[d]
  BY <1>1 DEF IInv, Typed
<1>3. req'[c].at = "idle"
  BY <1>1, IdleKnows
<1> QED
  BY <1>1, <1>2, <1>3, OthersKnow DEF IInv, Typed, Matched

LEMMA AskIInv ==
  ASSUME IInv, NEW c \in Clients, NEW action \in {"create", "replace", "delete"},
         NEW name \in Titles, NEW members \in SUBSET MemberFiles, Ask(c, action, name, members)
  PROVE  IInv'
<1>1. PICK id \in IF action = "create" THEN {0} ELSE {g.id : g \in seen[c].groups} :
        req' = [req EXCEPT ![c] =
          [at |-> "arrived", match |-> seen[c], read |-> 0,
           change |-> [action |-> action, id |-> id, name |-> name, members |-> members]]]
  BY DEF Ask
<1>2. collection' = collection /\ audit' = audit /\ seen' = seen
  BY DEF Ask
<1>3. seen[c] \in Collections
  BY DEF IInv, Typed
<1>4. id \in Nat
  BY <1>3 DEF Collections
<1>5. [action |-> action, id |-> id, name |-> name, members |-> members] \in Changes
  BY <1>4 DEF Changes, Actions
<1>6. [at |-> "arrived", match |-> seen[c], read |-> 0,
       change |-> [action |-> action, id |-> id, name |-> name, members |-> members]] \in Requests
  BY <1>3, <1>5 DEF Requests, Handlers
<1>7. req' \in [Clients -> Requests] /\ \A d \in Clients \ {c} : req'[d] = req[d]
  BY <1>1, <1>6 DEF IInv, Typed
<1>8. req'[c].at = "arrived" /\ req'[c].match = seen[c]
  BY <1>1 DEF IInv, Typed
<1> QED
  BY <1>2, <1>7, <1>8, OthersKnow DEF IInv, Typed, Matched

LEMMA RefuseIInv ==
  ASSUME IInv, NEW c \in Clients, NEW shown \in Collections, Refuse(c, shown) PROVE IInv'
<1>1. /\ collection' = collection /\ audit' = audit
      /\ seen' = [seen EXCEPT ![c] = shown] /\ req' = [req EXCEPT ![c] = Idle]
  BY DEF Refuse
<1>2. seen' \in [Clients -> Collections] /\ \A d \in Clients \ {c} : seen'[d] = seen[d]
  BY <1>1 DEF IInv, Typed
<1>3. /\ req' \in [Clients -> Requests] /\ req'[c] = Idle
      /\ \A d \in Clients \ {c} : req'[d] = req[d]
  BY <1>1, IdleKnows DEF IInv, Typed
<1> QED
  BY <1>1, <1>2, <1>3, IdleKnows, OthersKnow DEF Matched

LEMMA RequireIInv ==
  ASSUME IInv, NEW c \in Clients, RequireGroupIfMatch(c) PROVE IInv'
<1>1. collection \in Collections
  BY DEF IInv, Typed
<1>2. CASE ETag(req[c].match) = ETag(collection)
  <2>1. /\ req' = [req EXCEPT ![c].at = "matched"] /\ req[c].at = "arrived"
        /\ collection' = collection /\ audit' = audit /\ seen' = seen
    BY <1>2 DEF RequireGroupIfMatch
  <2>2. req[c] \in Requests
    BY DEF IInv, Typed
  <2>3. [req[c] EXCEPT !.at = "matched"] \in Requests
    BY <2>2 DEF Requests, Handlers
  <2>4. /\ req' \in [Clients -> Requests] /\ req'[c] = [req[c] EXCEPT !.at = "matched"]
        /\ \A d \in Clients \ {c} : req'[d] = req[d]
    BY <2>1, <2>3 DEF IInv, Typed
  <2>5. req'[c].at = "matched" /\ req'[c].match = req[c].match
    BY <2>2, <2>4 DEF Requests
  <2>6. req[c].match = seen[c]
    BY <2>1 DEF IInv, Matched
  <2> QED
    BY <2>1, <2>4, <2>5, <2>6, OthersKnow DEF IInv, Typed, Matched
<1>3. CASE ETag(req[c].match) # ETag(collection)
  BY <1>1, <1>3, RefuseIInv DEF RequireGroupIfMatch
<1> QED
  BY <1>2, <1>3

LEMMA DecideIInv ==
  ASSUME IInv, NEW c \in Clients, Decide(c) PROVE IInv'
<1>1. collection \in Collections
  BY DEF IInv, Typed
<1>2. CASE ETag(req[c].match) = ETag(collection) /\ Allowed(collection, req[c].change)
  <2>1. /\ req' = [req EXCEPT ![c].at = "decided", ![c].read = collection]
        /\ req[c].at = "matched"
        /\ collection' = collection /\ audit' = audit /\ seen' = seen
    BY <1>2 DEF Decide
  <2>2. req[c] \in Requests
    BY DEF IInv, Typed
  <2>3. [[req[c] EXCEPT !.at = "decided"] EXCEPT !.read = collection] \in Requests
    BY <1>1, <2>2 DEF Requests, Handlers
  <2>4. /\ req' \in [Clients -> Requests]
        /\ req'[c] = [[req[c] EXCEPT !.at = "decided"] EXCEPT !.read = collection]
        /\ \A d \in Clients \ {c} : req'[d] = req[d]
    BY <2>1, <2>3 DEF IInv, Typed
  <2>5. /\ req'[c].at = "decided" /\ req'[c].match = req[c].match
        /\ req'[c].read = collection /\ req'[c].change = req[c].change
    BY <2>2, <2>4 DEF Requests
  <2>6. req[c].match = seen[c] /\ seen[c] = collection
    BY <1>2, <2>1 DEF IInv, Matched, ETag
  <2>7. Decided(c)'
    <3>1. req'[c].read = collection /\ seen'[c] = collection
      BY <2>1, <2>5, <2>6
    <3>2. Unique(req'[c].read)
      BY <3>1 DEF IInv
    <3>3. Allowed(req'[c].read, req'[c].change)
      BY <1>2, <2>5
    <3>4. collection.revision <= collection.revision
      BY <1>1 DEF Collections
    <3> QED
      BY <1>1, <2>1, <3>1, <3>2, <3>3, <3>4 DEF Decided
  <2> QED
    BY <2>1, <2>4, <2>5, <2>6, <2>7, OthersKnow DEF IInv, Typed, Matched
<1>3. CASE ~(ETag(req[c].match) = ETag(collection) /\ Allowed(collection, req[c].change))
  BY <1>1, <1>3, RefuseIInv DEF Decide
<1> QED
  BY <1>2, <1>3

LEMMA ConflictIInv ==
  ASSUME IInv, NEW c \in Clients, Conflict(c) PROVE IInv'
  BY RefuseIInv DEF Conflict, IInv, Typed

LEMMA FailIInv ==
  ASSUME IInv, NEW c \in Clients, Fail(c) PROVE IInv'
<1>1. /\ collection' = collection /\ audit' = audit /\ seen' = seen
      /\ req' = [req EXCEPT ![c] = Idle]
  BY DEF Fail
<1>2. /\ req' \in [Clients -> Requests] /\ req'[c] = Idle
      /\ \A d \in Clients \ {c} : req'[d] = req[d]
  BY <1>1, IdleKnows DEF IInv, Typed
<1> QED
  BY <1>1, <1>2, IdleKnows, OthersKnow DEF IInv, Typed, Matched

\* What a commit replaces is what its client saw, and what it stores is good.
LEMMA CommitReplaces ==
  ASSUME IInv, NEW c \in Clients, Commit(c)
  PROVE  /\ req[c].read = collection /\ seen[c] = collection
         /\ collection' = Replaced(collection, req[c].change)
         /\ audit' = Append(audit, [before |-> collection, after |-> collection'])
         /\ collection' \in Collections /\ Unique(collection')
         /\ collection'.revision = collection.revision + 1
<1>1. Decided(c) /\ collection.revision = req[c].read.revision
  BY DEF IInv, Commit
<1>2. req[c].read = collection /\ seen[c] = collection
  BY <1>1 DEF Decided
<1>3. /\ collection' = Replaced(collection, req[c].change)
      /\ audit' = Append(audit, [before |-> collection, after |-> collection'])
  BY <1>2 DEF Commit
<1>4. collection \in Collections /\ req[c].change \in Changes
  BY DEF IInv, Typed, Requests
<1>5. Unique(collection) /\ Allowed(collection, req[c].change)
  BY <1>1, <1>2 DEF Decided
<1> QED
  BY <1>2, <1>3, <1>4, <1>5, AllowedIsGood

LEMMA CommitIInv ==
  ASSUME IInv, NEW c \in Clients, Commit(c) PROVE IInv'
<1> DEFINE op == [before |-> collection, after |-> collection']
<1>1. /\ collection' \in Collections /\ Unique(collection')
      /\ collection'.revision = collection.revision + 1
      /\ audit' = Append(audit, op)
  BY CommitReplaces
<1>2. collection \in Collections /\ collection.revision \in Nat
  BY DEF IInv, Typed, Collections
<1>3. op \in [before : Collections, after : Collections]
  BY <1>1, <1>2
<1>4. /\ audit \in Seq([before : Collections, after : Collections])
      /\ audit # <<>> => audit[Len(audit)].after = collection
      /\ \A i \in 1 .. Len(audit) - 1 : audit[i].after = audit[i + 1].before
  BY DEF IInv, Typed, AuditIsAChain
<1>5. op.before = collection /\ op.after = collection'
  OBVIOUS
<1> HIDE DEF op
<1>6. audit' \in Seq([before : Collections, after : Collections])
  BY <1>1, <1>3, <1>4
<1>7. AuditIsAChain'
  <2>1. /\ Len(audit') = Len(audit) + 1 /\ Len(audit) \in Nat
        /\ audit'[Len(audit) + 1] = op
        /\ \A i \in 1 .. Len(audit) : audit'[i] = audit[i]
    BY <1>1, <1>3, <1>4
  <2>2. ASSUME NEW i \in 1 .. Len(audit') - 1 PROVE audit'[i].after = audit'[i + 1].before
    <3>1. CASE i = Len(audit)
      <4>1. audit # <<>>
        BY <2>1, <2>2, <3>1
      <4> QED
        BY <1>4, <1>5, <2>1, <2>2, <3>1, <4>1
    <3>2. CASE i # Len(audit)
      BY <1>4, <2>1, <2>2, <3>2
    <3> QED
      BY <3>1, <3>2
  <2> QED
    BY <1>5, <2>1, <2>2 DEF AuditIsAChain
<1>8. seen' \in [Clients -> Collections] /\ \A d \in Clients \ {c} : seen'[d] = seen[d]
  <2>1. PICK shown \in {collection', seen[c]} : seen' = [seen EXCEPT ![c] = shown]
    BY DEF Commit
  <2> QED
    BY <1>1, <2>1 DEF IInv, Typed
<1>9. /\ req' \in [Clients -> Requests] /\ req'[c] = Idle
      /\ \A d \in Clients \ {c} : req'[d] = req[d]
  BY IdleKnows DEF Commit, IInv, Typed
<1>10. ASSUME NEW d \in Clients PROVE Matched(d)' /\ (req'[d].at = "decided" => Decided(d)')
  <2>1. CASE d = c
    BY <1>9, <2>1, IdleKnows DEF Matched
  <2>2. CASE d # c
    <3>1. req'[d] = req[d] /\ seen'[d] = seen[d]
      BY <1>8, <1>9, <2>2
    <3>2. ASSUME Decided(d) PROVE Decided(d)'
      <4>1. req[d].read.revision \in Nat
        BY <3>2 DEF Decided, Collections
      <4> QED
        BY <1>1, <1>2, <3>1, <3>2, <4>1 DEF Decided, Unique
    <3> QED
      BY <3>1, <3>2 DEF IInv, Matched
  <2> QED
    BY <2>1, <2>2
<1> QED
  BY <1>1, <1>6, <1>7, <1>8, <1>9, <1>10 DEF IInv, Typed, Unique

LEMMA NextIInv == IInv /\ [Next]_vars => IInv'
<1> SUFFICES ASSUME IInv, [Next]_vars PROVE IInv'
  OBVIOUS
<1>1. CASE UNCHANGED vars
  BY <1>1 DEF IInv, Typed, Unique, AuditIsAChain, Matched, Decided, vars
<1>2. ASSUME NEW c \in Clients,
             \/ ListGroups(c) \/ RequireGroupIfMatch(c) \/ Decide(c) \/ Commit(c) \/ Conflict(c) \/ Fail(c)
             \/ \E action \in {"create", "replace", "delete"}, name \in Titles, members \in SUBSET MemberFiles :
                  Ask(c, action, name, members)
      PROVE  IInv'
  BY <1>2, ListGroupsIInv, RequireIInv, DecideIInv, CommitIInv, ConflictIInv, FailIInv, AskIInv
<1> QED
  BY <1>1, <1>2 DEF Next

-------------------------------------------------------------------------------
(* The theorems. *)

\* IInv is inductive: what a handler decided on is what is stored if the revision is (Service of the
\* groups, ChangeGroupCollection).
THEOREM Invariance == Spec => []IInv
  BY InitIInv, NextIInv, PTL DEF Spec

\* No two groups have the same name, for any number of clients at once (normalizedGroupNameExists).
THEOREM UniqueNames == Spec => []NamesAreUnique
<1>1. IInv => NamesAreUnique
  BY DEF IInv, Unique, NamesAreUnique
<1> QED
  BY <1>1, Invariance, PTL

\* The audit tells the whole history of the groups (changeGroupCollection).
THEOREM CompleteAudit == Spec => []AuditIsAChain
<1>1. IInv => AuditIsAChain
  BY DEF IInv
<1> QED
  BY <1>1, Invariance, PTL

\* The groups have different names and their audit tells how they came to be, whatever runs between
\* the reading of a collection and the transaction that replaces it (changeGroupCollection).
THEOREM GroupsStayRight == Spec => []GroupsAgree
BY UniqueNames, CompleteAudit, PTL DEF GroupsAgree

\* No update is lost: whoever changes the groups has seen exactly what it changes, however many
\* handlers run between its checks and its transaction (requireGroupETag).
THEOREM NothingIsLost == Spec => ChangesAreOfWhatWasSeen
<1> DEFINE Seen ==
      collection' # collection =>
        \E c \in Clients :
          /\ seen[c] = collection
          /\ collection' = Replaced(seen[c], req[c].change)
<1>1. IInv /\ [Next]_vars => [Seen]_vars
  <2> SUFFICES ASSUME IInv, Next, collection' # collection
               PROVE  \E c \in Clients :
                        seen[c] = collection /\ collection' = Replaced(seen[c], req[c].change)
    OBVIOUS
  <2>1. PICK c \in Clients : Commit(c)
    BY DEF Next, ListGroups, RequireGroupIfMatch, Decide, Conflict, Fail, Ask, Refuse
  <2> QED
    BY <2>1, CommitReplaces
<1>2. ChangesAreOfWhatWasSeen <=> [][Seen]_vars
  BY DEF ChangesAreOfWhatWasSeen
<1> HIDE DEF Seen
<1> QED
  BY <1>1, <1>2, Invariance, PTL DEF Spec
===============================================================================
