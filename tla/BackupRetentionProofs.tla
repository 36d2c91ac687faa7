----------------------- MODULE BackupRetentionProofs ------------------------
(***************************************************************************)
(* The safety properties of BackupRetention hold for any number of backups *)
(* and runs, any policy, any faults and any number of deaths.              *)
(***************************************************************************)
EXTENDS BackupRetentionInvariant, FiniteSetTheorems, WellFoundedInduction, TLAPS

USE RetentionAssumption DEF RetentionAssumption, None

\* The natural numbers have no infinite descent (NatLessThanWellFounded, as a set).
LEMMA LessThanIsWellFounded == IsWellFoundedOn({p \in Nat \X Nat : p[1] < p[2]}, Nat)
BY NatLessThanWellFounded DEF OpToRel

\* Min finds an element of any set of natural numbers that has one.
LEMMA MinIsElement ==
  ASSUME NEW S \in SUBSET Nat, S # {}
  PROVE  Min(S) \in S
<1> DEFINE R == {p \in Nat \X Nat : p[1] < p[2]}
<1>1. IsWellFoundedOn(R, Nat)
  BY LessThanIsWellFounded
<1> HIDE DEF R
<1>2. \E x \in S : \A y \in S : ~ (<<y, x>> \in R)
  BY <1>1, WFMin
<1>3. ASSUME NEW x \in S, NEW y \in S, ~ (<<y, x>> \in R)
      PROVE  x <= y
  BY <1>3 DEF R
<1>4. \E x \in S : \A y \in S : x <= y
  BY <1>2, <1>3
<1> QED
  BY <1>4 DEF Min

\* The item a task is at is one of the backups it has still to settle.
LEMMA CurrentIsUnsettled ==
  ASSUME Unsettled # {}
  PROVE  Current \in Unsettled /\ Current \in Backups
BY MinIsElement DEF Unsettled, Current, Backups

\* To record the intent leaves the task at the same item.
LEMMA IntentKeepsCurrent ==
  ASSUME TypeOK, lease \in Runs, lease' = lease, Unsettled # {}, SetItem("deleting")
  PROVE  Unsettled' = Unsettled /\ Current' = Current /\ item'[lease][Current] = "deleting"
<1>1. Current \in Backups /\ Current \in Unsettled
  BY CurrentIsUnsettled
<1> DEFINE c == Current
<1>2. c \in Backups /\ c \in Unsettled
  BY <1>1
<1>3. item' = [item EXCEPT ![lease][c] = "deleting"]
  BY DEF SetItem
<1> HIDE DEF c
<1>4. Unsettled' = Unsettled /\ item'[lease][c] = "deleting"
  BY <1>2, <1>3 DEF TypeOK, Unsettled
<1> QED
  BY <1>4 DEF Current, c

\* A step that changes neither the items nor the owner of the lease leaves the task at its item.
LEMMA CurrentKept ==
  ASSUME UNCHANGED <<item, lease>>
  PROVE  Unsettled' = Unsettled /\ Current' = Current
BY DEF Unsettled, Current
ItemStates == {None, "planned", "deleting", "deleted", "skipped_protected", "failed", "needs_attention"}
TaskType == [at : {None, "next", "verified", "delete", "asked", "refused", "removed", "finish"},
             end : {None} \union Terminal]

\* The state of an item, set by the task at it, keeps the type of the items.
LEMMA SetItemTyped ==
  ASSUME TypeOK, lease \in Runs, Unsettled # {}, NEW state \in ItemStates, SetItem(state)
  PROVE  item' \in [Runs -> [Backups -> ItemStates]]
<1>1. Current \in Backups
  BY CurrentIsUnsettled
<1> QED
  BY <1>1 DEF TypeOK, SetItem, ItemStates

\* Where a task goes next, or how it ends, keeps the type of the task.
LEMMA TaskTyped ==
  ASSUME TypeOK
  PROVE  /\ task \in TaskType
         /\ \A point \in {"next", "verified", "delete", "asked", "refused", "removed"} :
              Goto(point) \/ Answer(point) => task' \in TaskType
         /\ \A state \in Terminal : End(state) => task' \in TaskType
BY DEF TypeOK, TaskType, Goto, Answer, End

\* Every outcome of a deletion keeps the types of index, items and task.
LEMMA OutcomeTyped ==
  ASSUME TypeOK, lease \in Runs, Unsettled # {}, Tombstone \/ Uncertain \/ Abort
  PROVE  /\ index' \in [Backups -> {"none", "complete", "deleting", "deleted"}]
         /\ item' \in [Runs -> [Backups -> ItemStates]]
         /\ task' \in TaskType
<1>1. Current \in Backups
  BY CurrentIsUnsettled
<1>2. item \in [Runs -> [Backups -> ItemStates]]
  BY DEF TypeOK, ItemStates
<1>3. CASE Tombstone
  BY <1>1, <1>2, <1>3, SetItemTyped, TaskTyped DEF Tombstone, TypeOK, ItemStates, Terminal
<1>4. CASE Uncertain
  BY <1>1, <1>2, <1>4, SetItemTyped, TaskTyped DEF Uncertain, TypeOK, ItemStates, Terminal
<1>5. CASE Abort
  BY <1>1, <1>2, <1>5, SetItemTyped, TaskTyped DEF Abort, TypeOK, ItemStates, Terminal
<1> QED
  BY <1>3, <1>4, <1>5

\* Where the task is decides which lease and which item it has.
LEMMA TaskFacts ==
  ASSUME IInv, task.at # None
  PROVE  /\ lease \in Runs /\ run[lease] = "executing"
         /\ task.at \in {"verified", "delete", "asked", "refused", "removed"} => Unsettled # {}
         /\ task.at = "finish" => task.end \in Terminal
BY DEF IInv, TaskOwnsLease, TaskAtItem, LeaseIsTheOwners
-----------------------------------------------------------------------------
(* The types. *)

\* What Plan does to the run r, whose items delete names.
PlanOf(r, delete) ==
  /\ run[r] = None
  /\ run' = [run EXCEPT ![r] = "planned"]
  /\ item' = [item EXCEPT ![r] = [b \in Backups |-> IF b \in delete THEN "planned" ELSE None]]

LEMMA PlanNames ==
  ASSUME Plan
  PROVE  \E r \in Runs : \E delete \in SUBSET Backups : PlanOf(r, delete)
<1> DEFINE mayDelete == {b \in Complete : b \notin manual \union cases /\ EnoughNewer(b)}
<1>1. mayDelete \subseteq Backups
  BY DEF Complete
<1>2. \E r \in Runs : \E delete \in SUBSET mayDelete : PlanOf(r, delete)
  BY DEF Plan, PlanOf
<1> QED
  BY <1>1, <1>2

\* Every step keeps the type invariant.
LEMMA TypeStep ==
  ASSUME IInv, [Next]_vars
  PROVE  TypeOK'
<1>1. TypeOK /\ task \in TaskType /\ item \in [Runs -> [Backups -> ItemStates]]
  BY TaskTyped DEF IInv, TypeOK, ItemStates
<1>2. SUFFICES ASSUME Next PROVE TypeOK'
  BY <1>1 DEF TypeOK, vars
<1> USE DEF Complete, NoOperation, NoTask, Idle
<1>3. CASE Protect \/ ResolveCase \/ QueueRelease \/ QueueRestore \/ NewBackup
  BY <1>1, <1>3 DEF TypeOK, Protect, ResolveCase, QueueRelease, QueueRestore, NewBackup
<1>4. CASE EndOperation
  BY <1>1, <1>4 DEF TypeOK, EndOperation, IInv, RestoreHasTarget
<1>5. CASE Plan
  <2>1. PICK r \in Runs, delete \in SUBSET Backups : PlanOf(r, delete)
    BY <1>5, PlanNames
  <2>2. item' \in [Runs -> [Backups -> ItemStates]]
    BY <1>1, <2>1 DEF PlanOf, ItemStates
  <2> QED
    BY <1>1, <1>5, <2>1, <2>2 DEF TypeOK, Plan, PlanOf, ItemStates
<1>6. CASE QueueRetention
  BY <1>1, <1>6 DEF TypeOK, QueueRetention
<1>7. CASE NoItemLeft \/ ItemEndedTheRun
  BY <1>1, <1>7 DEF TypeOK, NoItemLeft, ItemEndedTheRun, End, Terminal
<1>8. CASE CheckItem
  <2>1. lease \in Runs /\ Unsettled # {}
    BY <1>8, TaskFacts DEF CheckItem, AtItem, Working
  <2>2. item' \in [Runs -> [Backups -> ItemStates]]
    BY <1>1, <1>8, <2>1, SetItemTyped DEF CheckItem, ItemStates
  <2>3. task' \in TaskType
    BY <1>1, <1>8, TaskTyped DEF CheckItem, Terminal
  <2> QED
    BY <1>1, <1>8, <2>2, <2>3 DEF TypeOK, CheckItem, ItemStates, TaskType
<1>9. CASE BeginDeletion
  <2>1. lease \in Runs /\ Current \in Backups /\ Unsettled # {}
    BY <1>9, TaskFacts, CurrentIsUnsettled DEF BeginDeletion, Working
  <2>2. item' \in [Runs -> [Backups -> ItemStates]]
    BY <1>1, <1>9, <2>1, SetItemTyped DEF BeginDeletion, ItemStates
  <2>3. task' \in TaskType
    BY <1>1, <1>9, TaskTyped DEF BeginDeletion, Terminal
  <2>4. index' \in [Backups -> {"none", "complete", "deleting", "deleted"}]
    BY <1>1, <1>9, <2>1 DEF TypeOK, BeginDeletion
  <2> QED
    BY <1>1, <1>9, <2>2, <2>3, <2>4 DEF TypeOK, BeginDeletion, ItemStates, TaskType
<1>10. CASE ResumeDeletion
  <2>1. lease \in Runs /\ Unsettled # {}
    BY <1>10, TaskFacts DEF ResumeDeletion, AtItem, Working
  <2>2. /\ index' \in [Backups -> {"none", "complete", "deleting", "deleted"}]
        /\ item' \in [Runs -> [Backups -> ItemStates]] /\ task' \in TaskType
    <3>1. CASE Tombstone \/ Uncertain
      BY <1>1, <2>1, <3>1, OutcomeTyped
    <3>2. CASE Goto("delete") /\ UNCHANGED <<index, item>>
      BY <1>1, <3>2, TaskTyped DEF TypeOK
    <3> QED
      BY <1>10, <3>1, <3>2 DEF ResumeDeletion
  <2> QED
    BY <1>1, <1>10, <2>2 DEF TypeOK, ResumeDeletion, ItemStates, TaskType
<1>11. CASE AskDeletion
  <2>1. Current \in Backups
    BY <1>11, TaskFacts, CurrentIsUnsettled DEF AskDeletion, Working
  <2>2. task' \in TaskType
    BY <1>1, <1>11, TaskTyped DEF AskDeletion
  <2> QED
    BY <1>1, <1>11, <2>1, <2>2 DEF TypeOK, AskDeletion, TaskType
<1>12. CASE ReconcileDeletion \/ CompleteDeletion
  <2>1. lease \in Runs /\ Unsettled # {}
    BY <1>12, TaskFacts DEF ReconcileDeletion, CompleteDeletion, Working
  <2>2. Tombstone \/ Uncertain \/ Abort
    BY <1>12 DEF ReconcileDeletion, CompleteDeletion
  <2>3. /\ index' \in [Backups -> {"none", "complete", "deleting", "deleted"}]
        /\ item' \in [Runs -> [Backups -> ItemStates]] /\ task' \in TaskType
    BY <1>1, <2>1, <2>2, OutcomeTyped
  <2> QED
    BY <1>1, <1>12, <2>3 DEF TypeOK, ReconcileDeletion, CompleteDeletion, ItemStates, TaskType
<1>13. CASE Finish
  <2>1. task.end \in Terminal
    BY <1>13, TaskFacts DEF Finish, Working
  <2> QED
    BY <1>1, <1>13, <2>1 DEF TypeOK, Finish, Terminal
<1>14. CASE BeginRemoval
  <2>1. agent.backup \in Backups
    BY <1>14 DEF IInv, AgentAtBody, BeginRemoval
  <2> QED
    BY <1>1, <1>14, <2>1 DEF TypeOK, BeginRemoval
<1>15. CASE EndRemoval \/ RemovalFails \/ CallFails \/ AgentDies
  <2>1. task' \in TaskType
    BY <1>1, <1>15, TaskTyped DEF EndRemoval, RemovalFails, CallFails, AgentDies
  <2>2. /\ agent' \in [at : {None, "verifying", "removing"}, backup : {0} \union Backups]
        /\ crashes' \in 0 .. MaxCrashes
        /\ body' \in [Backups -> {"none", "whole", "partial", "gone"}]
    BY <1>1, <1>15 DEF TypeOK, EndRemoval, RemovalFails, CallFails, GivesUp, AgentDies
  <2> QED
    BY <1>1, <1>15, <2>1, <2>2
    DEF TypeOK, EndRemoval, RemovalFails, CallFails, AgentDies, TaskType
<1>16. CASE UIDies
  BY <1>1, <1>16 DEF TypeOK, UIDies, GivesUp
<1>17. CASE UIStarts \/ UIServes
  BY <1>1, <1>17 DEF TypeOK, UIStarts, UIServes
<1> QED
  BY <1>2, <1>3, <1>4, <1>5, <1>6, <1>7, <1>8, <1>9, <1>10, <1>11, <1>12, <1>13, <1>14, <1>15,
     <1>16, <1>17
  DEF Next, Administrator, Operation, Execution, Removal, Failure, Startup
-----------------------------------------------------------------------------
(* The task, its lease and its item. *)

\* Nobody but a task itself takes its run, or its place in the run, from it.
LEMMA OthersKeepTask ==
  ASSUME IInv, task.at # None, Administrator \/ Operation \/ Removal \/ Failure \/ Startup
  PROVE  /\ lease' = lease /\ item'[lease] = item[lease]
         /\ Unsettled' = Unsettled /\ Current' = Current
<1>1. lease \in Runs /\ run[lease] = "executing"
  BY TaskFacts
<1>2. lease # None /\ operation.kind = None
  BY <1>1 DEF IInv, LeaseIsTheOwners
<1>3. lease' = lease
  BY <1>1, <1>2 DEF Administrator, Operation, Removal, Failure, Startup, Protect, ResolveCase,
     QueueRelease, QueueRestore, Plan, QueueRetention, NewBackup, EndOperation, BeginRemoval,
     EndRemoval, RemovalFails, CallFails, UIDies, AgentDies, UIStarts, UIServes
<1>4. item'[lease] = item[lease]
  <2>1. CASE Plan
    BY <1>1, <2>1, PlanNames DEF PlanOf, IInv, TypeOK
  <2>2. CASE ~Plan
    BY <2>2 DEF Administrator, Operation, Removal, Failure, Startup, Protect, ResolveCase,
       QueueRelease, QueueRestore, QueueRetention, NewBackup, EndOperation, BeginRemoval,
       EndRemoval, RemovalFails, CallFails, UIDies, AgentDies, UIStarts, UIServes
  <2> QED
    BY <2>1, <2>2
<1>5. Unsettled' = Unsettled
  BY <1>3, <1>4 DEF Unsettled
<1> QED
  BY <1>3, <1>4, <1>5 DEF Current

\* Between the recorded intent and the tombstone, the backup is the current one and the
\* index says that it is being deleted.
LEMMA AtDeletion ==
  ASSUME IInv, AtItem("deleting") \/ task.at \in {"delete", "asked", "refused", "removed"}
  PROVE  /\ lease \in Runs /\ Unsettled # {} /\ Current \in Backups
         /\ item[lease][Current] = "deleting" /\ index[Current] = "deleting"
<1>1. lease \in Runs
  BY TaskFacts DEF AtItem, Working
<1>2. Unsettled # {} /\ item[lease][Current] = "deleting"
  BY DEF IInv, TaskAtItem, AtItem
<1>3. Current \in Backups
  BY <1>2, CurrentIsUnsettled
<1> QED
  BY <1>1, <1>2, <1>3 DEF IInv, OneIntent

\* What the three outcomes of a deletion have in common: they settle the item unless they
\* leave the intent.
Settles(state, itemState) ==
  /\ index' = [index EXCEPT ![Current] = state]
  /\ item' = [item EXCEPT ![lease][Current] = itemState]
  /\ state # "deleting" => itemState # "deleting"
  /\ task'.at \in {"next", "finish"}
  /\ task'.at = "finish" => task'.end \in {"failed", "needs_attention"}

LEMMA OutcomeSettles ==
  ASSUME IInv, lease \in Runs, Current \in Backups,
         item[lease][Current] = "deleting", index[Current] = "deleting",
         Tombstone \/ Uncertain \/ Abort
  PROVE  \E state \in {"complete", "deleting", "deleted"} : \E itemState \in ItemStates :
           Settles(state, itemState)
<1> DEFINE c == Current
<1>1. c \in Backups /\ item[lease][c] = "deleting" /\ index[c] = "deleting"
  OBVIOUS
<1>2. TypeOK /\ task \in TaskType
  BY TaskTyped DEF IInv
<1> HIDE DEF c
<1>3. index = [index EXCEPT ![c] = "deleting"] /\ item = [item EXCEPT ![lease][c] = "deleting"]
  BY <1>1, <1>2 DEF TypeOK
<1>4. CASE Tombstone
  <2>1. Settles("deleted", "deleted") \/ Settles("deleting", "deleting")
    BY <1>2, <1>3, <1>4 DEF Tombstone, Settles, SetItem, Goto, End, TaskType, c
  <2> QED
    BY <2>1 DEF ItemStates
<1>5. CASE Uncertain
  <2>1. Settles("deleting", "needs_attention") \/ Settles("deleting", "deleting")
    BY <1>2, <1>3, <1>5 DEF Uncertain, Settles, SetItem, End, TaskType, c
  <2> QED
    BY <2>1 DEF ItemStates
<1>6. CASE Abort
  <2>1. Settles("complete", "failed") \/ Settles("deleting", "deleting")
    BY <1>2, <1>3, <1>6 DEF Abort, Settles, SetItem, End, TaskType, c
  <2> QED
    BY <2>1 DEF ItemStates
<1> QED
  BY <1>4, <1>5, <1>6

\* A deletion that goes on to the Agent, or is settled.
LEMMA DeletionSettles ==
  ASSUME IInv, ResumeDeletion \/ ReconcileDeletion \/ CompleteDeletion
  PROVE  \/ Goto("delete") /\ UNCHANGED <<index, item>> /\ AtItem("deleting")
         \/ \E state \in {"complete", "deleting", "deleted"} : \E itemState \in ItemStates :
              Settles(state, itemState)
<1>1. AtItem("deleting") \/ task.at \in {"delete", "asked", "refused", "removed"}
  BY DEF ResumeDeletion, ReconcileDeletion, CompleteDeletion, Working
<1> QED
  BY <1>1, AtDeletion, OutcomeSettles DEF ResumeDeletion, ReconcileDeletion, CompleteDeletion
-----------------------------------------------------------------------------
(* Preservation of the parts. *)

\* State of the run and owner of the lease change in the same step.
LEMMA LeaseStep ==
  ASSUME IInv, [Next]_vars
  PROVE  LeaseIsTheOwners' /\ RestoreHasTarget'
<1>1. TypeOK /\ LeaseIsTheOwners /\ RestoreHasTarget
  BY DEF IInv
<1> USE DEF LeaseIsTheOwners, RestoreHasTarget
<1>2. CASE UNCHANGED <<run, lease, operation>>
  BY <1>1, <1>2
<1>3. CASE QueueRelease \/ QueueRestore \/ NewBackup \/ EndOperation
  <2>1. CASE QueueRelease \/ QueueRestore
    BY <1>1, <2>1 DEF TypeOK, QueueRelease, QueueRestore, NoOperation, Complete
  <2>2. CASE NewBackup
    <3>1. /\ UNCHANGED <<run, lease>>
          /\ operation'.kind = operation.kind /\ operation'.target = operation.target
      BY <1>1, <2>2 DEF TypeOK, NewBackup
    <3> QED
      BY <1>1, <3>1
  <2>3. CASE EndOperation
    BY <1>1, <2>3 DEF TypeOK, EndOperation, NoOperation
  <2> QED
    BY <1>3, <2>1, <2>2, <2>3
<1>4. CASE Plan
  BY <1>1, <1>4, PlanNames DEF TypeOK, Plan, PlanOf
<1>5. CASE QueueRetention
  BY <1>1, <1>5 DEF TypeOK, QueueRetention
<1>6. CASE Finish
  <2>1. lease \in Runs /\ task.end \in Terminal
    BY <1>6, TaskFacts DEF Finish, Working
  <2> QED
    BY <1>1, <1>6, <2>1 DEF TypeOK, Finish, Terminal
<1>7. CASE \/ Protect \/ ResolveCase \/ NoItemLeft \/ ItemEndedTheRun \/ CheckItem \/ BeginDeletion
          \/ ResumeDeletion \/ AskDeletion \/ ReconcileDeletion \/ CompleteDeletion
          \/ Removal \/ Failure \/ Startup \/ UNCHANGED vars
  <2>1. UNCHANGED <<run, lease, operation>>
    BY <1>7 DEF Protect, ResolveCase, NoItemLeft, ItemEndedTheRun, CheckItem, BeginDeletion,
       ResumeDeletion, AskDeletion, ReconcileDeletion, CompleteDeletion, Removal, BeginRemoval,
       EndRemoval, Failure, RemovalFails, CallFails, UIDies, AgentDies, Startup, UIStarts, UIServes,
       vars
  <2> QED
    BY <1>2, <2>1
<1> HIDE DEF LeaseIsTheOwners, RestoreHasTarget
<1> QED
  BY <1>3, <1>4, <1>5, <1>6, <1>7 DEF Next, Administrator, Operation, Execution

\* A task begins when a run is queued, or when a UI that starts finds one.
LEMMA TaskBegins ==
  ASSUME IInv, task.at = None, Administrator \/ Operation \/ Removal \/ Failure \/ Startup
  PROVE  \/ task'.at = None
         \/ task' = [at |-> "next", end |-> None] /\ lease' \in Runs /\ ui' # "down"
<1>1. CASE QueueRetention \/ UIStarts
  BY <1>1 DEF QueueRetention, UIStarts, NoTask
<1>2. CASE \/ Protect \/ ResolveCase \/ QueueRelease \/ QueueRestore \/ Plan \/ Operation
          \/ BeginRemoval \/ UIServes
  BY <1>2 DEF Protect, ResolveCase, QueueRelease, QueueRestore, Plan, Operation, NewBackup,
     EndOperation, BeginRemoval, UIServes
<1>3. CASE EndRemoval \/ Failure
  BY <1>3 DEF EndRemoval, Failure, RemovalFails, CallFails, UIDies, AgentDies, Answer, NoTask,
     Working
<1> QED
  BY <1>1, <1>2, <1>3 DEF Administrator, Removal, Startup

\* A task is interrupted by a death of the UI or by what becomes of its call.
LEMMA TaskInterrupted ==
  ASSUME IInv, task.at # None, Administrator \/ Operation \/ Removal \/ Failure \/ Startup
  PROVE  \/ task' = NoTask
         \/ task' = task /\ ui' # "down"
         \/ task'.at \in {"refused", "removed"} /\ task.at = "asked" /\ ui' # "down"
<1>1. /\ task \in TaskType /\ ui # "down"
      /\ lease # None
  BY TaskTyped, TaskFacts DEF IInv, TaskOwnsLease
<1>2. CASE Administrator \/ Operation \/ Startup
  BY <1>1, <1>2 DEF Administrator, Protect, ResolveCase, QueueRelease, QueueRestore, Plan,
     QueueRetention, Operation, NewBackup, EndOperation, Startup, UIStarts, UIServes
<1>3. CASE Removal \/ RemovalFails \/ CallFails \/ AgentDies
  BY <1>1, <1>3 DEF Removal, BeginRemoval, EndRemoval, RemovalFails, CallFails, AgentDies, Answer,
     Goto, TaskType, Working
<1>4. CASE UIDies
  BY <1>4 DEF UIDies
<1> QED
  BY <1>2, <1>3, <1>4 DEF Failure

\* A task works for the run that holds the lease, until that run ends.
LEMMA TaskStep ==
  ASSUME IInv, [Next]_vars
  PROVE  TaskOwnsLease'
<1>1. TypeOK /\ LeaseIsTheOwners /\ TaskOwnsLease /\ task \in TaskType
  BY TaskTyped DEF IInv
<1>2. CASE UNCHANGED vars
  BY <1>1, <1>2 DEF vars, TaskOwnsLease, Unsettled
<1>3. CASE Administrator \/ Operation \/ Removal \/ Failure \/ Startup
  <2>1. CASE task.at # None
    <3>1. lease' = lease /\ Unsettled' = Unsettled /\ lease \in Runs /\ ui # "down"
      BY <1>1, <1>3, <2>1, OthersKeepTask DEF TaskOwnsLease
    <3>2. \/ task' = NoTask
          \/ ui' # "down" /\ (task' = task \/ task'.at \in {"refused", "removed"})
      BY <1>3, <2>1, TaskInterrupted
    <3> QED
      BY <1>1, <3>1, <3>2 DEF TaskOwnsLease, NoTask
  <2>2. CASE task.at = None
    <3>1. \/ task'.at = None
          \/ task' = [at |-> "next", end |-> None] /\ lease' \in Runs /\ ui' # "down"
      BY <1>3, <2>2, TaskBegins
    <3> QED
      BY <3>1 DEF TaskOwnsLease
  <2> QED
    BY <2>1, <2>2
<1>4. CASE Execution
  <2>1. task.at # None
    BY <1>4 DEF Execution, NoItemLeft, ItemEndedTheRun, CheckItem, BeginDeletion, ResumeDeletion,
       AskDeletion, ReconcileDeletion, CompleteDeletion, Finish, AtItem, Working
  <2>2. lease \in Runs /\ ui # "down"
    BY <1>1, <2>1 DEF TaskOwnsLease
  <2>3. CASE Finish
    BY <2>3 DEF Finish, TaskOwnsLease, NoTask
  <2>4. CASE NoItemLeft
    <3>1. task' = [at |-> "finish", end |-> "succeeded"] /\ lease' = lease /\ Unsettled' = {}
          /\ ui' = ui
      BY <2>4 DEF NoItemLeft, End, Unsettled
    <3> QED
      BY <2>2, <3>1 DEF TaskOwnsLease, Terminal
  <2>5. CASE ItemEndedTheRun \/ CheckItem \/ BeginDeletion \/ AskDeletion
    <3>1. /\ lease' = lease /\ ui' = ui
          /\ task'.at = "finish" => task'.end \in {"failed", "needs_attention"}
      BY <1>1, <2>5 DEF ItemEndedTheRun, CheckItem, BeginDeletion, AskDeletion, End, Goto, TaskType
    <3> QED
      BY <2>2, <3>1 DEF TaskOwnsLease, Terminal
  <2>6. CASE ResumeDeletion \/ ReconcileDeletion \/ CompleteDeletion
    <3>1. lease' = lease /\ ui' = ui
      BY <2>6 DEF ResumeDeletion, ReconcileDeletion, CompleteDeletion
    <3>2. task'.at = "finish" => task'.end \in {"failed", "needs_attention"}
      BY <1>1, <2>6, DeletionSettles DEF Settles, Goto, TaskType
    <3> QED
      BY <2>2, <3>1, <3>2 DEF TaskOwnsLease, Terminal
  <2> QED
    BY <1>4, <2>3, <2>4, <2>5, <2>6 DEF Execution
<1> QED
  BY <1>2, <1>3, <1>4 DEF Next

\* The item is planned until the intent is recorded, and being deleted from then on.
LEMMA ItemStep ==
  ASSUME IInv, [Next]_vars
  PROVE  TaskAtItem'
<1>1. TypeOK /\ TaskAtItem /\ task \in TaskType
  BY TaskTyped DEF IInv
<1>2. CASE UNCHANGED vars
  BY <1>1, <1>2, CurrentKept DEF vars, TaskAtItem
<1>3. CASE Administrator \/ Operation \/ Removal \/ Failure \/ Startup
  <2>1. CASE task.at # None
    <3>1. lease' = lease /\ item'[lease] = item[lease] /\ Unsettled' = Unsettled /\ Current' = Current
      BY <1>3, <2>1, OthersKeepTask
    <3>2. \/ task' = NoTask \/ task' = task
          \/ task'.at \in {"refused", "removed"} /\ task.at = "asked"
      BY <1>3, <2>1, TaskInterrupted
    <3> QED
      BY <1>1, <3>1, <3>2 DEF TaskAtItem, NoTask
  <2>2. CASE task.at = None
    <3>1. task'.at \in {None, "next"}
      BY <1>3, <2>2, TaskBegins
    <3> QED
      BY <3>1 DEF TaskAtItem
  <2> QED
    BY <2>1, <2>2
<1>4. CASE NoItemLeft \/ ItemEndedTheRun \/ Finish
  BY <1>4 DEF NoItemLeft, ItemEndedTheRun, Finish, End, NoTask, TaskAtItem
<1>5. CASE CheckItem
  <2>1. CASE task'.at = "verified"
    <3>1. UNCHANGED <<item, lease>> /\ Unsettled # {} /\ item[lease][Current] = "planned"
      BY <1>1, <1>5, <2>1 DEF CheckItem, AtItem, End
    <3> QED
      BY <2>1, <3>1, CurrentKept DEF TaskAtItem
  <2>2. CASE task'.at # "verified"
    BY <1>1, <1>5, <2>2 DEF CheckItem, End, Goto, TaskType, TaskAtItem
  <2> QED
    BY <2>1, <2>2
<1>6. CASE BeginDeletion
  <2>1. lease \in Runs /\ lease' = lease /\ Unsettled # {}
    BY <1>6, TaskFacts DEF BeginDeletion, Working
  <2>2. CASE SetItem("deleting") /\ Goto("delete")
    BY <1>1, <2>1, <2>2, IntentKeepsCurrent DEF Goto, TaskType, TaskAtItem
  <2>3. CASE task'.at \in {"next", "finish"}
    BY <2>3 DEF TaskAtItem
  <2> QED
    BY <1>1, <1>6, <2>2, <2>3 DEF BeginDeletion, End, Goto, TaskType
<1>7. CASE AskDeletion
  <2>1. UNCHANGED <<item, lease>> /\ Unsettled # {} /\ item[lease][Current] = "deleting"
    BY <1>1, <1>7 DEF AskDeletion, Working, TaskAtItem
  <2>2. task'.at \in {"refused", "asked"}
    BY <1>1, <1>7 DEF AskDeletion, Goto, TaskType
  <2> QED
    BY <2>1, <2>2, CurrentKept DEF TaskAtItem
<1>8. CASE ResumeDeletion \/ ReconcileDeletion \/ CompleteDeletion
  <2>1. CASE Goto("delete") /\ UNCHANGED <<index, item>> /\ AtItem("deleting")
    <3>1. UNCHANGED <<item, lease>> /\ task'.at = "delete"
      BY <1>1, <1>8, <2>1
      DEF ResumeDeletion, ReconcileDeletion, CompleteDeletion, Goto, TaskType
    <3> QED
      BY <2>1, <3>1, CurrentKept DEF AtItem, TaskAtItem
  <2>2. CASE task'.at \in {"next", "finish"}
    BY <2>2 DEF TaskAtItem
  <2> QED
    BY <1>8, <2>1, <2>2, DeletionSettles DEF Settles
<1> QED
  BY <1>2, <1>3, <1>4, <1>5, <1>6, <1>7, <1>8 DEF Next, Execution

\* A new backup leaves the others as they are, and was not there before.
NewAt(b) ==
  /\ index[b] = "none"
  /\ index' = [index EXCEPT ![b] = "complete"]
  /\ body' = [body EXCEPT ![b] = "whole"]
  /\ operation' = [operation EXCEPT !.backup = b]

LEMMA NewNames ==
  ASSUME NewBackup
  PROVE  \E b \in Backups : NewAt(b)
BY DEF NewBackup, NewAt

\* The other steps leave the index, the items or the bodies alone.
IndexSteps == BeginDeletion \/ ResumeDeletion \/ ReconcileDeletion \/ CompleteDeletion

LEMMA IndexKept ==
  ASSUME [Next]_vars, ~NewBackup, ~IndexSteps
  PROVE  UNCHANGED index
BY DEF Next, Administrator, Operation, Execution, Removal, Failure, Startup, vars, IndexSteps,
   Protect, ResolveCase, QueueRelease, QueueRestore, Plan, QueueRetention, EndOperation, NoItemLeft,
   ItemEndedTheRun, CheckItem, AskDeletion, Finish, BeginRemoval, EndRemoval, RemovalFails,
   CallFails, UIDies, AgentDies, UIStarts, UIServes

LEMMA ItemsKept ==
  ASSUME [Next]_vars, ~Plan, ~CheckItem, ~IndexSteps
  PROVE  UNCHANGED item
BY DEF Next, Administrator, Operation, Execution, Removal, Failure, Startup, vars, IndexSteps,
   Protect, ResolveCase, QueueRelease, QueueRestore, NewBackup, QueueRetention, EndOperation,
   NoItemLeft, ItemEndedTheRun, AskDeletion, Finish, BeginRemoval, EndRemoval, RemovalFails,
   CallFails, UIDies, AgentDies, UIStarts, UIServes

LEMMA BodiesKept ==
  ASSUME [Next]_vars, ~NewBackup, ~Removal
  PROVE  UNCHANGED body
BY DEF Next, Administrator, Operation, Execution, Removal, Failure, Startup, vars,
   Protect, ResolveCase, QueueRelease, QueueRestore, Plan, QueueRetention, EndOperation, NoItemLeft,
   ItemEndedTheRun, CheckItem, BeginDeletion, ResumeDeletion, AskDeletion, ReconcileDeletion,
   CompleteDeletion, Finish, RemovalFails, CallFails, UIDies, AgentDies, UIStarts, UIServes

\* What BeginRetentionDeletion changes: an intent for a backup that nothing protects.
BeginsAt(b) ==
  /\ lease \in Runs /\ b \in Backups
  /\ index[b] = "complete" /\ ~IsProtected(b)
  /\ index' = [index EXCEPT ![b] = "deleting"]
  /\ item' = [item EXCEPT ![lease][b] = "deleting"]

LEMMA BeginNames ==
  ASSUME IInv, BeginDeletion
  PROVE  \/ BeginsAt(Current)
         \/ /\ UNCHANGED index
            /\ \E state \in {"skipped_protected", "failed"} : SetItem(state) \/ UNCHANGED item
<1>1. lease \in Runs /\ Current \in Backups
  BY TaskFacts, CurrentIsUnsettled DEF BeginDeletion, Working
<1> QED
  BY <1>1 DEF BeginDeletion, BeginsAt, SetItem

\* The item a task sets is one of the run that holds the lease.
LEMMA TaskHasItem ==
  ASSUME IInv, CheckItem \/ IndexSteps
  PROVE  /\ lease \in Runs /\ run[lease] = "executing"
         /\ Current \in Backups
<1>1. task.at # None
  BY DEF CheckItem, IndexSteps, BeginDeletion, ResumeDeletion, ReconcileDeletion, CompleteDeletion,
     AtItem, Working
<1>2. Unsettled # {}
  BY <1>1, TaskFacts DEF CheckItem, IndexSteps, BeginDeletion, ResumeDeletion, ReconcileDeletion,
     CompleteDeletion, AtItem, Working
<1> QED
  BY <1>1, <1>2, TaskFacts, CurrentIsUnsettled

\* A deletion that goes on or is settled, at its backup.
LEMMA SettlesAt ==
  ASSUME IInv, ResumeDeletion \/ ReconcileDeletion \/ CompleteDeletion
  PROVE  \/ UNCHANGED <<index, item>>
         \/ /\ item[lease][Current] = "deleting" /\ index[Current] = "deleting"
            /\ \E state \in {"complete", "deleting", "deleted"} : \E itemState \in ItemStates :
                 Settles(state, itemState)
<1>1. AtItem("deleting") \/ task.at \in {"delete", "asked", "refused", "removed"}
  BY DEF ResumeDeletion, ReconcileDeletion, CompleteDeletion, Working
<1> QED
  BY <1>1, AtDeletion, DeletionSettles

\* An intent is recorded in index and item at once, and taken back from both at once.
LEMMA IntentStep ==
  ASSUME IInv, [Next]_vars
  PROVE  OneIntent'
<1>1. TypeOK /\ OneIntent
  BY DEF IInv
<1>2. CASE NewBackup
  <2>1. PICK b \in Backups : NewAt(b)
    BY <1>2, NewNames
  <2> QED
    BY <1>1, <1>2, <2>1 DEF NewBackup, NewAt, OneIntent, TypeOK
<1>3. CASE Plan
  <2>1. PICK r \in Runs, delete \in SUBSET Backups : PlanOf(r, delete)
    BY <1>3, PlanNames
  <2>2. index' = index
    BY <1>3 DEF Plan
  <2> QED
    BY <1>1, <2>1, <2>2 DEF PlanOf, OneIntent, TypeOK
<1>4. CASE CheckItem
  <2>1. lease \in Runs /\ Current \in Backups /\ index' = index
    BY <1>4, TaskHasItem DEF CheckItem
  <2>2. item' = item \/ SetItem("failed")
    BY <1>4 DEF CheckItem
  <2> QED
    BY <1>1, <2>1, <2>2 DEF SetItem, OneIntent, TypeOK
<1>5. CASE BeginDeletion
  <2>1. lease \in Runs /\ Current \in Backups
    BY <1>5, TaskHasItem DEF IndexSteps
  <2>2. CASE BeginsAt(Current)
    <3> DEFINE c == Current
    <3>1. BeginsAt(c)
      BY <2>2
    <3> HIDE DEF c
    <3> QED
      BY <1>1, <3>1 DEF BeginsAt, OneIntent, TypeOK
  <2>3. CASE /\ UNCHANGED index
             /\ \E state \in {"skipped_protected", "failed"} : SetItem(state) \/ UNCHANGED item
    BY <1>1, <2>1, <2>3 DEF SetItem, OneIntent, TypeOK
  <2> QED
    BY <1>5, <2>2, <2>3, BeginNames
<1>6. CASE ResumeDeletion \/ ReconcileDeletion \/ CompleteDeletion
  <2>1. lease \in Runs /\ Current \in Backups
    BY <1>6, TaskHasItem DEF IndexSteps
  <2>2. CASE UNCHANGED <<index, item>>
    BY <1>1, <2>2 DEF OneIntent
  <2>3. ASSUME item[lease][Current] = "deleting", index[Current] = "deleting",
               NEW state \in {"complete", "deleting", "deleted"}, NEW itemState \in ItemStates,
               Settles(state, itemState)
        PROVE  OneIntent'
    <3> DEFINE c == Current
    <3>1. /\ c \in Backups /\ item[lease][c] = "deleting" /\ index[c] = "deleting"
          /\ index' = [index EXCEPT ![c] = state]
          /\ item' = [item EXCEPT ![lease][c] = itemState]
          /\ state # "deleting" => itemState # "deleting"
      BY <2>1, <2>3 DEF Settles
    <3> HIDE DEF c
    <3> QED
      BY <1>1, <2>1, <3>1 DEF OneIntent, TypeOK
  <2> QED
    BY <1>6, <2>2, <2>3, SettlesAt
<1>7. CASE ~NewBackup /\ ~Plan /\ ~CheckItem /\ ~IndexSteps
  <2>1. UNCHANGED <<index, item>>
    BY <1>7, IndexKept, ItemsKept
  <2> QED
    BY <1>1, <2>1 DEF OneIntent
<1> QED
  BY <1>2, <1>3, <1>4, <1>5, <1>6, <1>7 DEF IndexSteps

\* A backup has something on disk from the moment it is in the index.
LEMMA BodyStep ==
  ASSUME IInv, [Next]_vars
  PROVE  BodyOfCreated'
<1>1. TypeOK /\ BodyOfCreated
  BY DEF IInv
<1>2. CASE NewBackup
  <2>1. PICK b \in Backups : NewAt(b)
    BY <1>2, NewNames
  <2> QED
    BY <1>1, <2>1 DEF NewAt, BodyOfCreated, TypeOK
<1>3. CASE IndexSteps
  <2>1. body' = body /\ Current \in Backups
    BY <1>3, TaskHasItem
    DEF IndexSteps, BeginDeletion, ResumeDeletion, ReconcileDeletion, CompleteDeletion
  <2>2. CASE UNCHANGED index
    BY <1>1, <2>1, <2>2 DEF BodyOfCreated
  <2>3. CASE BeginsAt(Current)
    BY <1>1, <2>1, <2>3 DEF BeginsAt, BodyOfCreated, TypeOK
  <2>4. CASE \E state \in {"complete", "deleting", "deleted"} : \E itemState \in ItemStates :
               index[Current] = "deleting" /\ Settles(state, itemState)
    BY <1>1, <2>1, <2>4 DEF Settles, BodyOfCreated, TypeOK
  <2> QED
    BY <1>3, <2>2, <2>3, <2>4, BeginNames, SettlesAt DEF IndexSteps
<1>4. CASE BeginRemoval
  <2>1. agent.backup \in Backups
    BY <1>4 DEF IInv, AgentAtBody, BeginRemoval
  <2> QED
    BY <1>1, <1>4, <2>1 DEF BeginRemoval, BodyOfCreated, TypeOK
<1>5. CASE EndRemoval
  <2>1. agent.backup \in Backups /\ body[agent.backup] = "partial"
    BY <1>5 DEF IInv, AgentAtBody, EndRemoval
  <2> QED
    BY <1>1, <1>5, <2>1 DEF EndRemoval, BodyOfCreated, TypeOK
<1>6. CASE ~NewBackup /\ ~IndexSteps /\ ~Removal
  <2>1. UNCHANGED <<index, body>>
    BY <1>6, IndexKept, BodiesKept
  <2> QED
    BY <1>1, <2>1 DEF BodyOfCreated
<1> QED
  BY <1>2, <1>3, <1>4, <1>5, <1>6 DEF Removal

\* The Agent verifies for a task that waits, and what it removes is no longer whole.
LEMMA AgentStep ==
  ASSUME IInv, [Next]_vars
  PROVE  AgentAtBody'
<1>1. TypeOK /\ AgentAtBody /\ task \in TaskType
  BY TaskTyped DEF IInv
<1>2. CASE UNCHANGED vars
  BY <1>1, <1>2, CurrentKept DEF vars, AgentAtBody
<1>3. CASE NewBackup
  <2>1. PICK b \in Backups : NewAt(b)
    BY <1>3, NewNames
  <2>2. body[b] = "none"
    BY <2>1 DEF IInv, BodyOfCreated, NewAt
  <2>3. UNCHANGED <<task, agent, item, lease>>
    BY <1>3 DEF NewBackup
  <2>4. Current' = Current
    BY <2>3, CurrentKept
  <2> QED
    BY <1>1, <2>1, <2>2, <2>3, <2>4 DEF NewAt, AgentAtBody, TypeOK
<1>4. CASE Administrator \/ EndOperation \/ Startup
  <2>1. UNCHANGED <<agent, body>>
    BY <1>4 DEF Administrator, Protect, ResolveCase, QueueRelease, QueueRestore, Plan,
       QueueRetention, EndOperation, Startup, UIStarts, UIServes
  <2>2. CASE agent.at = "verifying"
    <3>1. task.at = "asked" /\ agent.backup = Current
      BY <1>1, <2>2 DEF AgentAtBody
    <3>2. Current' = Current
      BY <1>4, <3>1, OthersKeepTask DEF Operation
    <3>3. task' = task
      <4>1. ui # "down" /\ lease # None
        BY <3>1, TaskFacts DEF IInv, TaskOwnsLease
      <4> QED
        BY <1>4, <3>1, <4>1 DEF Administrator, Protect, ResolveCase, QueueRelease, QueueRestore, Plan,
           QueueRetention, EndOperation, Startup, UIStarts, UIServes
    <3> QED
      BY <1>1, <2>1, <3>1, <3>2, <3>3 DEF AgentAtBody
  <2>3. CASE agent.at # "verifying"
    BY <1>1, <2>1, <2>3 DEF AgentAtBody
  <2> QED
    BY <2>2, <2>3
<1>5. CASE AskDeletion
  <2>1. Current \in Backups /\ UNCHANGED <<item, lease, body>>
    BY <1>5, AtDeletion DEF AskDeletion, Working
  <2>2. Current' = Current
    BY <2>1, CurrentKept
  <2>3. CASE agent' = agent /\ agent.at # None
    BY <1>1, <1>5, <2>1, <2>3 DEF AskDeletion, Working, AgentAtBody
  <2>4. CASE agent' = [at |-> "verifying", backup |-> Current] /\ Goto("asked")
    BY <1>1, <2>1, <2>2, <2>4 DEF Goto, TaskType, AgentAtBody
  <2> QED
    BY <1>5, <2>3, <2>4 DEF AskDeletion
<1>6. CASE \/ NoItemLeft \/ ItemEndedTheRun \/ CheckItem \/ BeginDeletion \/ ResumeDeletion
          \/ ReconcileDeletion \/ CompleteDeletion \/ Finish
  <2>1. UNCHANGED <<agent, body>> /\ task.at # "asked"
    BY <1>6 DEF NoItemLeft, ItemEndedTheRun, CheckItem, BeginDeletion, ResumeDeletion,
       ReconcileDeletion, CompleteDeletion, Finish, AtItem, Working
  <2> QED
    BY <1>1, <2>1 DEF AgentAtBody
<1>7. CASE Removal \/ Failure
  <2>1. CASE BeginRemoval
    BY <1>1, <2>1 DEF BeginRemoval, AgentAtBody, TypeOK
  <2>2. CASE EndRemoval \/ RemovalFails \/ AgentDies
    BY <2>2 DEF EndRemoval, RemovalFails, AgentDies, Idle, AgentAtBody
  <2>3. CASE CallFails \/ UIDies
    BY <1>1, <2>3 DEF CallFails, UIDies, GivesUp, Idle, AgentAtBody
  <2> QED
    BY <1>7, <2>1, <2>2, <2>3 DEF Removal, Failure
<1> QED
  BY <1>2, <1>3, <1>4, <1>5, <1>6, <1>7 DEF Next, Operation, Execution

\* A verification that matches has found the body whole.
LEMMA MatchIsWhole ==
  ASSUME IInv, Current \in Backups, index[Current] = "deleting", "match" \in Verified
  PROVE  body[Current] = "whole"
<1>1. body[Current] \in {"whole", "partial", "gone"}
  BY DEF IInv, TypeOK, BodyOfCreated
<1> QED
  BY <1>1 DEF Verified

\* A deletion is taken back only after such a verification.
LEMMA OfferedAgainIsWhole ==
  ASSUME IInv, ResumeDeletion \/ ReconcileDeletion \/ CompleteDeletion,
         Current \in Backups, index[Current] = "deleting", index'[Current] = "complete"
  PROVE  body[Current] = "whole"
<1> DEFINE c == Current
<1>1. ~Tombstone /\ ~Uncertain
  <2>1. c \in Backups /\ index[c] = "deleting" /\ index'[c] = "complete" /\ TypeOK
    BY DEF IInv
  <2>2. Tombstone => index' = [index EXCEPT ![c] = "deleted"] \/ index' = index
    BY DEF Tombstone
  <2>3. Uncertain => index' = index
    BY DEF Uncertain
  <2> HIDE DEF c
  <2> QED
    BY <2>1, <2>2, <2>3 DEF TypeOK
<1>2. "match" \in Verified
  BY <1>1 DEF ResumeDeletion, ReconcileDeletion, CompleteDeletion
<1> QED
  BY <1>2, MatchIsWhole

\* A backup is offered again only if its body was found whole, and nothing but the
\* removal of a backup that is not offered takes a body away.
LEMMA WholeStep ==
  ASSUME IInv, [Next]_vars
  PROVE  CompleteIsWhole'
<1>1. TypeOK /\ CompleteIsWhole
  BY DEF IInv
<1>2. CASE NewBackup
  <2>1. PICK b \in Backups : NewAt(b)
    BY <1>2, NewNames
  <2> QED
    BY <1>1, <2>1 DEF NewAt, CompleteIsWhole, Complete, TypeOK
<1>3. CASE IndexSteps
  <2>1. body' = body /\ Current \in Backups
    BY <1>3, TaskHasItem
    DEF IndexSteps, BeginDeletion, ResumeDeletion, ReconcileDeletion, CompleteDeletion
  <2>2. CASE UNCHANGED index
    BY <1>1, <2>1, <2>2 DEF CompleteIsWhole, Complete
  <2>3. CASE BeginsAt(Current)
    BY <1>1, <2>1, <2>3 DEF BeginsAt, CompleteIsWhole, Complete, TypeOK
  <2>4. ASSUME index[Current] = "deleting",
               NEW state \in {"complete", "deleting", "deleted"}, NEW itemState \in ItemStates,
               Settles(state, itemState)
        PROVE  CompleteIsWhole'
    <3>1. CASE state = "complete"
      <4>1. index'[Current] = "complete"
        BY <1>1, <2>1, <2>4, <3>1 DEF Settles, TypeOK
      <4>2. ResumeDeletion \/ ReconcileDeletion \/ CompleteDeletion
        BY <1>1, <1>3, <2>1, <2>4, <4>1 DEF IndexSteps, BeginDeletion, TypeOK
      <4>3. body[Current] = "whole"
        BY <2>1, <2>4, <4>1, <4>2, OfferedAgainIsWhole
      <4> QED
        BY <1>1, <2>1, <2>4, <4>3 DEF Settles, CompleteIsWhole, Complete, TypeOK
    <3>2. CASE state # "complete"
      BY <1>1, <2>1, <2>4, <3>2 DEF Settles, CompleteIsWhole, Complete, TypeOK
    <3> QED
      BY <3>1, <3>2
  <2> QED
    BY <1>3, <2>2, <2>3, <2>4, BeginNames, SettlesAt DEF IndexSteps
<1>4. CASE BeginRemoval
  <2>1. task.at = "asked" /\ agent.backup = Current
    BY <1>4 DEF IInv, AgentAtBody, BeginRemoval
  <2>2. index[agent.backup] = "deleting"
    BY <2>1, AtDeletion
  <2> QED
    BY <1>1, <1>4, <2>2 DEF BeginRemoval, CompleteIsWhole, Complete, TypeOK
<1>5. CASE EndRemoval
  <2>1. body[agent.backup] = "partial"
    BY <1>5 DEF IInv, AgentAtBody, EndRemoval
  <2> QED
    BY <1>1, <1>5, <2>1 DEF EndRemoval, CompleteIsWhole, Complete, TypeOK
<1>6. CASE ~NewBackup /\ ~IndexSteps /\ ~Removal
  <2>1. UNCHANGED <<index, body>>
    BY <1>6, IndexKept, BodiesKept
  <2> QED
    BY <1>1, <2>1 DEF CompleteIsWhole, Complete
<1> QED
  BY <1>2, <1>3, <1>4, <1>5, <1>6 DEF Removal

\* They are finitely many, and more of them are not fewer.
LEMMA MoreIsEnough ==
  ASSUME NEW S, NEW T, S \subseteq T, T \subseteq Backups, Cardinality(S) >= MinimumComplete
  PROVE  Cardinality(T) >= MinimumComplete
<1>1. IsFiniteSet(Backups)
  BY FS_Interval DEF Backups
<1>2. IsFiniteSet(T)
  BY <1>1, FS_Subset
<1>3. IsFiniteSet(S) /\ Cardinality(S) <= Cardinality(T)
  BY <1>2, FS_Subset
<1>4. Cardinality(S) \in Nat /\ Cardinality(T) \in Nat
  BY <1>2, <1>3, FS_CardinalityType
<1> QED
  BY <1>3, <1>4

\* While no complete backup is given up, all that were given up keep their newer ones.
LEMMA NewestKept ==
  ASSUME NewestSurvive, Complete \subseteq Complete',
         \A b \in Backups : index'[b] \in {"deleting", "deleted"} => index[b] \in {"deleting", "deleted"}
  PROVE  NewestSurvive'
<1>1. SUFFICES ASSUME NEW b \in Backups, index'[b] \in {"deleting", "deleted"}
               PROVE  Cardinality({n \in Complete' : n > b}) >= MinimumComplete
  BY DEF NewestSurvive
<1>2. Cardinality({n \in Complete : n > b}) >= MinimumComplete
  BY <1>1 DEF NewestSurvive
<1>3. {n \in Complete : n > b} \subseteq {n \in Complete' : n > b}
  OBVIOUS
<1>4. {n \in Complete' : n > b} \subseteq Backups
  BY DEF Complete
<1> QED
  BY <1>2, <1>3, <1>4, MoreIsEnough

\* Whatever is given up has enough newer complete backups, and keeps them: those of the
\* backup that is given up last are newer than those given up before that are older.
LEMMA NewestStep ==
  ASSUME IInv, [Next]_vars
  PROVE  NewestSurvive'
<1>1. TypeOK /\ NewestSurvive
  BY DEF IInv
<1>2. CASE NewBackup
  <2>1. PICK b \in Backups : NewAt(b)
    BY <1>2, NewNames
  <2> QED
    BY <1>1, <2>1, NewestKept DEF NewAt, Complete, TypeOK
<1>3. CASE UNCHANGED index
  BY <1>1, <1>3, NewestKept DEF Complete
<1>4. CASE BeginDeletion
  <2>1. SUFFICES ASSUME BeginsAt(Current) PROVE NewestSurvive'
    BY <1>3, <1>4, BeginNames
  <2> DEFINE c == Current
  <2>2. BeginsAt(c)
    BY <2>1
  <2> HIDE DEF c
  <2>3. c \in Backups /\ index' = [index EXCEPT ![c] = "deleting"] /\ EnoughNewer(c)
    BY <2>2 DEF BeginsAt, IsProtected
  <2>4. Complete' = Complete \ {c}
    BY <1>1, <2>3 DEF Complete, TypeOK
  <2>5. SUFFICES ASSUME NEW b \in Backups, index'[b] \in {"deleting", "deleted"}
                 PROVE  Cardinality({n \in Complete' : n > b}) >= MinimumComplete
    BY DEF NewestSurvive
  <2>6. {n \in Complete' : n > b} \subseteq Backups
    BY DEF Complete
  <2>7. CASE b <= c
    <3>1. {n \in Complete : n > c} \subseteq {n \in Complete' : n > b}
      BY <2>3, <2>4, <2>7 DEF Backups, Complete
    <3> QED
      BY <2>3, <2>6, <3>1, MoreIsEnough DEF EnoughNewer
  <2>8. CASE b > c
    <3>1. index[b] \in {"deleting", "deleted"}
      BY <1>1, <2>3, <2>5, <2>8 DEF Backups, TypeOK
    <3>2. {n \in Complete : n > b} \subseteq {n \in Complete' : n > b}
      BY <2>3, <2>4, <2>8 DEF Backups, Complete
    <3> QED
      BY <1>1, <2>6, <3>1, <3>2, MoreIsEnough DEF NewestSurvive
  <2> QED
    BY <2>3, <2>7, <2>8 DEF Backups
<1>5. CASE ResumeDeletion \/ ReconcileDeletion \/ CompleteDeletion
  <2>1. Current \in Backups
    BY <1>5, TaskHasItem DEF IndexSteps
  <2>2. ASSUME index[Current] = "deleting",
               NEW state \in {"complete", "deleting", "deleted"}, NEW itemState \in ItemStates,
               Settles(state, itemState)
        PROVE  NewestSurvive'
    <3>1. index' = [index EXCEPT ![Current] = state]
      BY <2>2 DEF Settles
    <3>2. Complete \subseteq Complete'
      BY <1>1, <2>1, <2>2, <3>1 DEF Complete, TypeOK
    <3>3. \A b \in Backups :
            index'[b] \in {"deleting", "deleted"} => index[b] \in {"deleting", "deleted"}
      BY <1>1, <2>1, <2>2, <3>1 DEF TypeOK
    <3> QED
      BY <1>1, <3>2, <3>3, NewestKept
  <2> QED
    BY <1>3, <1>5, <2>2, SettlesAt
<1> QED
  BY <1>2, <1>3, <1>4, <1>5, IndexKept DEF IndexSteps

\* Who protects, refers to or names a backup finds it complete, and it is given up only
\* if nobody does.
LEMMA ProtectedStep ==
  ASSUME IInv, [Next]_vars
  PROVE  ProtectedSurvive'
<1>1. TypeOK /\ ProtectedSurvive
  BY DEF IInv
<1> USE DEF ProtectedSurvive, InUse, Complete
<1>2. CASE Protect
  BY <1>1, <1>2 DEF Protect
<1>3. CASE ResolveCase
  BY <1>1, <1>3 DEF ResolveCase
<1>4. CASE QueueRelease
  <2>1. operation'.target = 0 /\ operation'.backup = 0
    BY <1>4 DEF QueueRelease, NoOperation
  <2> QED
    BY <1>1, <1>4, <2>1 DEF QueueRelease
<1>5. CASE QueueRestore
  <2>1. operation'.target \in Complete /\ operation'.backup = 0
    BY <1>5 DEF QueueRestore, NoOperation
  <2> QED
    BY <1>1, <1>5, <2>1 DEF QueueRestore
<1>6. CASE NewBackup
  <2>1. PICK b \in Backups : NewAt(b)
    BY <1>6, NewNames
  <2>2. operation'.target = operation.target /\ operation'.backup = b
    BY <1>1, <2>1 DEF NewAt, TypeOK
  <2>3. Complete' = Complete \union {b}
    BY <1>1, <2>1 DEF NewAt, TypeOK
  <2> HIDE DEF Complete
  <2> QED
    BY <1>1, <1>6, <2>2, <2>3 DEF NewBackup
<1>7. CASE EndOperation
  <2>1. operation'.target = 0 /\ operation'.backup = 0 /\ Complete' = Complete /\ manual' = manual
    BY <1>7 DEF EndOperation, NoOperation
  <2>2. cases' \subseteq cases \union InUse
    <3>1. CASE operation.kind = "restore" /\ cases' = cases \union {operation.target}
      <4>1. operation.target \in Backups
        BY <3>1 DEF IInv, RestoreHasTarget
      <4>2. operation.target # 0
        BY <4>1 DEF Backups
      <4> QED
        BY <3>1, <4>2
    <3>2. CASE cases' = cases
      BY <3>2
    <3> QED
      BY <1>7, <3>1, <3>2 DEF EndOperation
  <2> HIDE DEF Complete
  <2> QED
    BY <1>1, <2>1, <2>2
<1>8. CASE IndexSteps
  <2>1. Current \in Backups /\ UNCHANGED <<manual, cases, operation>>
    BY <1>8, TaskHasItem
    DEF IndexSteps, BeginDeletion, ResumeDeletion, ReconcileDeletion, CompleteDeletion
  <2>2. CASE UNCHANGED index
    BY <1>1, <2>1, <2>2
  <2>3. CASE BeginsAt(Current)
    <3>1. Complete' = Complete \ {Current} /\ Current \notin manual \union cases \union InUse
      BY <1>1, <2>1, <2>3 DEF BeginsAt, IsProtected, TypeOK
    <3> HIDE DEF Complete
    <3> QED
      BY <1>1, <2>1, <3>1
  <2>4. ASSUME index[Current] = "deleting",
               NEW state \in {"complete", "deleting", "deleted"}, NEW itemState \in ItemStates,
               Settles(state, itemState)
        PROVE  ProtectedSurvive'
    <3>1. Complete \subseteq Complete'
      BY <1>1, <2>1, <2>4 DEF Settles, TypeOK
    <3> HIDE DEF Complete
    <3> QED
      BY <1>1, <2>1, <3>1
  <2> QED
    BY <1>8, <2>2, <2>3, <2>4, BeginNames, SettlesAt DEF IndexSteps
<1>9. CASE UNCHANGED <<index, manual, cases, operation>>
  BY <1>1, <1>9
<1>10. CASE \/ Plan \/ QueueRetention \/ NoItemLeft \/ ItemEndedTheRun \/ CheckItem \/ AskDeletion
           \/ Finish \/ Removal \/ Failure \/ Startup \/ UNCHANGED vars
  <2>1. UNCHANGED <<index, manual, cases, operation>>
    BY <1>10 DEF Plan, QueueRetention, NoItemLeft, ItemEndedTheRun, CheckItem, AskDeletion, Finish,
       Removal, BeginRemoval, EndRemoval, Failure, RemovalFails, CallFails, UIDies, AgentDies,
       Startup, UIStarts, UIServes, vars
  <2> QED
    BY <1>9, <2>1
<1> HIDE DEF ProtectedSurvive, InUse, Complete
<1> QED
  BY <1>2, <1>3, <1>4, <1>5, <1>6, <1>7, <1>8, <1>10
  DEF Next, Administrator, Operation, Execution, IndexSteps

\* A run ends as succeeded only with nothing left to settle, and its items stay settled.
LEMMA SuccessStep ==
  ASSUME IInv, [Next]_vars
  PROVE  SuccessIsComplete'
<1>1. TypeOK /\ LeaseIsTheOwners /\ SuccessIsComplete /\ TaskOwnsLease
  BY DEF IInv
<1> DEFINE settled == {None, "deleted", "skipped_protected"}
<1>2. CASE Plan
  <2>1. PICK r \in Runs, delete \in SUBSET Backups : PlanOf(r, delete)
    BY <1>2, PlanNames
  <2> QED
    BY <1>1, <2>1 DEF PlanOf, SuccessIsComplete, TypeOK
<1>3. CASE QueueRetention
  BY <1>1, <1>3 DEF QueueRetention, SuccessIsComplete, TypeOK
<1>4. CASE Finish
  <2>1. lease \in Runs /\ item' = item
    BY <1>4, TaskFacts DEF Finish, Working
  <2>2. task.end = "succeeded" => \A b \in Backups : item[lease][b] \in settled
    BY <1>1, <1>4 DEF Finish, Working, TaskOwnsLease, Unsettled
  <2> QED
    BY <1>1, <1>4, <2>1, <2>2 DEF Finish, SuccessIsComplete, TypeOK
<1>5. CASE CheckItem \/ IndexSteps
  <2>1. lease \in Runs /\ run[lease] = "executing" /\ run' = run
    BY <1>5, TaskHasItem DEF IndexSteps, CheckItem, BeginDeletion, ResumeDeletion, ReconcileDeletion,
       CompleteDeletion
  <2>2. \A r \in Runs : r # lease => item'[r] = item[r]
    <3>1. CASE UNCHANGED item
      BY <3>1
    <3>2. ASSUME NEW state, SetItem(state) PROVE \A r \in Runs : r # lease => item'[r] = item[r]
      BY <1>1, <3>2 DEF SetItem, TypeOK
    <3> QED
      BY <1>5, <3>1, <3>2, SettlesAt
      DEF IndexSteps, CheckItem, BeginDeletion, ResumeDeletion, ReconcileDeletion, CompleteDeletion,
          Tombstone, Uncertain, Abort
  <2> QED
    BY <1>1, <2>1, <2>2 DEF SuccessIsComplete
<1>6. CASE \/ Protect \/ ResolveCase \/ QueueRelease \/ QueueRestore \/ Operation \/ NoItemLeft
          \/ ItemEndedTheRun \/ AskDeletion \/ Removal \/ Failure \/ Startup \/ UNCHANGED vars
  <2>1. UNCHANGED <<run, item>>
    BY <1>6 DEF Protect, ResolveCase, QueueRelease, QueueRestore, Operation, NewBackup, EndOperation,
       NoItemLeft, ItemEndedTheRun, AskDeletion, Removal, BeginRemoval, EndRemoval, Failure,
       RemovalFails, CallFails, UIDies, AgentDies, Startup, UIStarts, UIServes, vars
  <2> QED
    BY <1>1, <2>1 DEF SuccessIsComplete
<1> QED
  BY <1>2, <1>3, <1>4, <1>5, <1>6 DEF Next, Administrator, Execution, IndexSteps
-----------------------------------------------------------------------------
(* The theorems. *)

\* The backups there are at the start are complete and whole, and nothing is under way.
LEMMA InitEstablishes == Init => IInv
<1> SUFFICES ASSUME Init PROVE IInv
  OBVIOUS
<1> USE DEF Init
<1>1. TypeOK
  <2>1. /\ index \in [Backups -> {"none", "complete", "deleting", "deleted"}]
        /\ body \in [Backups -> {"none", "whole", "partial", "gone"}]
        /\ run \in [Runs -> {None, "planned", "executing", "expired"} \union Terminal]
    OBVIOUS
  <2>2. item \in [Runs -> [Backups -> ItemStates]]
    BY DEF ItemStates
  <2>3. crashes \in 0 .. MaxCrashes
    OBVIOUS
  <2>4. operation \in [kind : {None, "release", "restore"}, target : {0} \union Backups,
                       backup : {0} \union Backups]
    BY DEF NoOperation
  <2>5. task \in TaskType /\ agent \in [at : {None, "verifying", "removing"}, backup : {0} \union Backups]
    BY DEF NoTask, Idle, TaskType
  <2> QED
    BY <2>1, <2>2, <2>3, <2>4, <2>5 DEF TypeOK, ItemStates, TaskType
<1>2. LeaseIsTheOwners /\ SuccessIsComplete
  BY DEF LeaseIsTheOwners, SuccessIsComplete, NoOperation
<1>3. NewestSurvive /\ ProtectedSurvive /\ CompleteIsWhole
  BY DEF NewestSurvive, ProtectedSurvive, InUse, CompleteIsWhole, Complete, NoOperation
<1>4. TaskOwnsLease /\ TaskAtItem /\ OneIntent
  BY DEF TaskOwnsLease, TaskAtItem, OneIntent, NoTask
<1>5. AgentAtBody /\ BodyOfCreated /\ RestoreHasTarget
  BY DEF AgentAtBody, BodyOfCreated, RestoreHasTarget, Idle, NoOperation
<1> QED
  BY <1>1, <1>2, <1>3, <1>4, <1>5 DEF IInv

\* The inductive invariant holds in every state (BackupRetention, all of it).
THEOREM Invariance == Spec => []IInv
<1>1. IInv /\ [Next]_vars => IInv'
  <2> SUFFICES ASSUME IInv, [Next]_vars PROVE IInv'
    OBVIOUS
  <2>1. TypeOK' /\ LeaseIsTheOwners' /\ SuccessIsComplete'
    BY TypeStep, LeaseStep, SuccessStep
  <2>2. NewestSurvive' /\ ProtectedSurvive' /\ CompleteIsWhole'
    BY NewestStep, ProtectedStep, WholeStep
  <2>3. TaskOwnsLease' /\ TaskAtItem' /\ OneIntent'
    BY TaskStep, ItemStep, IntentStep
  <2>4. AgentAtBody' /\ BodyOfCreated' /\ RestoreHasTarget'
    BY AgentStep, BodyStep, LeaseStep
  <2> QED
    BY <2>1, <2>2, <2>3, <2>4 DEF IInv
<1> QED
  BY InitEstablishes, <1>1, PTL DEF Spec

\* Every state is well typed.
THEOREM TypeCorrect == Spec => []TypeOK
<1>1. IInv => TypeOK
  BY DEF IInv
<1> QED
  BY <1>1, Invariance, PTL

\* A backup is given up only while MinimumComplete newer ones are complete, and they
\* stay (retentionBackupProtected, BeginRetentionDeletion).
THEOREM NewestAreKept == Spec => []NewestSurvive
<1>1. IInv => NewestSurvive
  BY DEF IInv
<1> QED
  BY <1>1, Invariance, PTL

\* A backup that is protected, named by an open case or referred to by a release or
\* restore is not given up (retentionBackupProtected, BeginRetentionDeletion).
THEOREM NeededAreKept == Spec => []ProtectedSurvive
<1>1. IInv => ProtectedSurvive
  BY DEF IInv
<1> QED
  BY <1>1, Invariance, PTL

\* Every backup the index offers is whole on disk, through failed and interrupted
\* deletions (reconcileFailedRetentionDeletion, DeleteBackup).
THEOREM OfferedAreWhole == Spec => []CompleteIsWhole
<1>1. IInv => CompleteIsWhole
  BY DEF IInv
<1> QED
  BY <1>1, Invariance, PTL

\* The lease is held exactly by the run that executes or the operation that is active
\* (QueueRetentionExecution, TransitionRetentionRun).
THEOREM LeaseHasItsOwner == Spec => []LeaseIsTheOwners
<1>1. IInv => LeaseIsTheOwners
  BY DEF IInv
<1> QED
  BY <1>1, Invariance, PTL

\* A run that succeeded has settled every item it was to delete (RunRetention).
THEOREM SuccessMeansDone == Spec => []SuccessIsComplete
<1>1. IInv => SuccessIsComplete
  BY DEF IInv
<1> QED
  BY <1>1, Invariance, PTL

\* Retention is safe for any number of backups, runs and operations, any policy, and
\* every fault and death (RunRetention, Reconcile, DeleteBackup).
THEOREM RetentionSafe == Spec => []RetentionIsSafe
<1>1. NewestSurvive /\ ProtectedSurvive /\ CompleteIsWhole /\ SuccessIsComplete => RetentionIsSafe
  BY DEF RetentionIsSafe
<1> QED
  BY <1>1, NewestAreKept, NeededAreKept, OfferedAreWhole, SuccessMeansDone, PTL
=============================================================================
