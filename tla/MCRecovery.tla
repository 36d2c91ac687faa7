----------------------------- MODULE MCRecovery -----------------------------
(***************************************************************************)
(* Recovery on small instances: the restore transaction of the Agent, the  *)
(* service of the UI that orders restores and restarts, the start of the   *)
(* container, and the plan of a retention.  They share no state, so each   *)
(* behaviour picks one of them and leaves the others where they begin.  A  *)
(* restore has two files to write, of which the digest covers one, and a   *)
(* target that differs in both or only in the other; nginx refuses the new *)
(* site without the new key.  The service, which RecoveryCoordinatorProofs *)
(* is about, keeps the names of RecoveryCoordinator.                       *)
(***************************************************************************)
EXTENDS RecoveryCoordinator, RetentionPlan

CONSTANTS MaxBackups, Sizes

VARIABLES
  which,
  r_target, r_files, r_running, r_replaced, r_hup, r_master, r_dir, r_journal,
  r_events, r_torn, r_safety, r_pc, r_stages, r_left, r_reload, r_durable, r_reply,
  c_root, c_foreign, c_created, c_init, c_deaths, c_startFrom, c_now, c_valid,
  c_nginx, c_record,
  snapshot

Paths == {"site", "key"}
Trees == [Paths -> {"old", "new"}]
Source == [p \in Paths |-> "old"]
Targets == {[p \in Paths |-> "new"], [Source EXCEPT !["key"] = "new"]}
Valid == Trees \ {[Source EXCEPT !["site"] = "new"]}

R == INSTANCE RestoreAgent WITH
  Managed <- {"site"}, MaxEvents <- 9, target <- r_target, files <- r_files,
  running <- r_running, replaced <- r_replaced, hup <- r_hup, master <- r_master,
  dir <- r_dir, journal <- r_journal, events <- r_events, torn <- r_torn,
  safety <- r_safety, pc <- r_pc, stages <- r_stages, left <- r_left,
  reload <- r_reload, durable <- r_durable, reply <- r_reply

C == INSTANCE ContainerStartup WITH
  DefaultFiles <- {"a", "b"}, OtherFiles <- {"c"}, Window <- 1, MaxEvents <- 2,
  MaxTime <- 3, MaxDeaths <- 1, root <- c_root, foreign <- c_foreign,
  created <- c_created, init <- c_init, deaths <- c_deaths, startFrom <- c_startFrom,
  now <- c_now, valid <- c_valid, nginx <- c_nginx, record <- c_record

r_vars == <<r_target, r_files, r_running, r_replaced, r_hup, r_master, r_dir,
            r_journal, r_events, r_torn, r_safety, r_pc, r_stages, r_left, r_reload,
            r_durable, r_reply>>
c_vars == <<c_root, c_foreign, c_created, c_init, c_deaths, c_startFrom, c_now,
            c_valid, c_nginx, c_record>>

AnyInit ==
  /\ which \in {"restore", "startup", "service", "plan"}
  /\ R!Init /\ C!Init /\ Init
  /\ which # "restore" => r_target["site"] = "new"
  /\ snapshot = [size |-> <<>>, young |-> {}, manual |-> {}, referenced |-> {}]

(* Every snapshot a history of at most MaxBackups backups can give a plan. *)

\* A backup is added: the newest, and young.
Add ==
  /\ Len(snapshot.size) < MaxBackups
  /\ \E bytes \in Sizes :
       snapshot' = [snapshot EXCEPT !.size  = Append(@, bytes),
                                    !.young = @ \union {Len(snapshot.size) + 1}]

\* The oldest of the young backups comes of age.
Age ==
  /\ snapshot.young # {}
  /\ snapshot' = [snapshot EXCEPT !.young = @ \ {Min(@)}]

Protect ==
  \E i \in Ordinals(snapshot) \ snapshot.manual :
     snapshot' = [snapshot EXCEPT !.manual = @ \union {i}]

Refer ==
  \E i \in Ordinals(snapshot) \ snapshot.referenced :
     snapshot' = [snapshot EXCEPT !.referenced = @ \union {i}]

Restore == which = "restore" /\ R!Next /\ UNCHANGED <<which, c_vars, vars, snapshot>>
Startup == which = "startup" /\ C!Next /\ UNCHANGED <<which, r_vars, vars, snapshot>>
Service == which = "service" /\ Next /\ UNCHANGED <<which, r_vars, c_vars, snapshot>>
Plan ==
  /\ which = "plan" /\ (Add \/ Age \/ Protect \/ Refer)
  /\ UNCHANGED <<which, r_vars, c_vars, vars>>

AnyNext == Restore \/ Startup \/ Service \/ Plan

AnySpec == AnyInit /\ [][AnyNext]_<<which, r_vars, c_vars, vars, snapshot>>

-------------------------------------------------------------------------------
(* Properties, made of those the modules state; that of the service is RecoveryIsTold. *)

\* The variables of the modules have their types.
AnyTypeOK ==
  /\ which = "restore" => R!TypeOK
  /\ which = "startup" => C!TypeOK
  /\ which = "service" => TypeOK

\* At every crash point of both write loops the tree a restore found is in the safety
\* backup and the journal says so.  A success has the target in production and in the
\* workers, a rollback the whole tree that was found, key files too, and a failure has
\* changed no managed file; what a call answered can be read again after any crash, and
\* the log is one that the UI reckons with.
RestoresAreTrue == which = "restore" =>
  /\ R!SafetyBeforeWrite
  /\ R!SucceededServesTarget /\ R!RolledBackServesSource /\ R!FailedLeavesManagedText
  /\ R!AnswerIsDurable /\ R!LogIsKnown

\* What was settled stays so: the verdict of a restore that can be read once no call works, whichever
\* call comes later and whatever dies; a case that evidence has closed; and nginx that was given up.
SettledStaysSettled == R!VerdictIsFinal /\ CaseStaysResolved /\ C!PermanentStays

\* The init service never takes a file of somebody else, and fills an empty root wholly
\* before nginx may start on it, however often it is killed; what the finish service
\* writes can be read again whatever the clock did.
StartsSafely == which = "startup" =>
  C!ForeignFilesSurvive /\ C!FilledRootIsWhole /\ C!RecordStaysReadable

\* A plan never asks for the deletion of a backup that is protected or young, nor of
\* one of the newest MinimumComplete ones, and it takes the oldest first
\* (PlanRetention).
PlanIsSafe ==
  /\ Deletions(snapshot) \in OldestFirst(snapshot)
  /\ \A i \in Deletions(snapshot) :
       Cardinality({j \in Ordinals(snapshot) \ Deletions(snapshot) : j > i}) >= MinimumComplete

\* It deletes just enough: it meets both targets and no smaller deletion does, or it
\* deletes all it may and says that the targets cannot be met (PlanRetention).
PlanIsEnough ==
  LET enough == {d \in OldestFirst(snapshot) : MeetsTargets(snapshot, d)}
  IN  IF enough = {}
      THEN Deletions(snapshot) = Eligible(snapshot) /\ Unreachable(snapshot)
      ELSE /\ Deletions(snapshot) \in enough /\ ~Unreachable(snapshot)
           /\ \A d \in enough : Deletions(snapshot) \subseteq d

\* A plan that is not refused computes with sizes that fit an int64: no partial sum
\* passes MaxInt64 (PlanRetention, the check before the addition).
SumsFit ==
  ~Refused(snapshot) => \A i \in 0 .. Len(snapshot.size) : BytesUpTo(snapshot)[i] <= MaxInt64

\* A plan of a retention is safe, deletes just enough, and computes with sums that fit.
PlanIsRight == which = "plan" => PlanIsSafe /\ PlanIsEnough /\ SumsFit
=============================================================================
