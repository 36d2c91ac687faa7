-------------------------- MODULE MCReleaseCoordinator --------------------------
(***************************************************************************)
(* The UI around one release, on four instances: one in which everything   *)
(* of its own may fail, one in which the draft is edited and the workspace *)
(* listed while the release runs and the process dies, and two in which    *)
(* the Agent may log a stage and be told that it did not, while the UI     *)
(* reads along or when both may die.  Each behaviour is of one instance.   *)
(***************************************************************************)
EXTENDS ReleaseCoordinator

VARIABLE which

Disturbed == INSTANCE ReleaseCoordinator WITH
  Edits <- 1, Readers <- TRUE, Ticks <- FALSE, Faults <- {"death"}

Unlogged == INSTANCE ReleaseCoordinator WITH
  Edits <- 0, Readers <- FALSE, Ticks <- TRUE, Faults <- {"log", "call"}

Reread == INSTANCE ReleaseCoordinator WITH
  Edits <- 0, Readers <- FALSE, Ticks <- FALSE, Faults <- {"log", "death"}

EitherInit == which \in {"failing", "disturbed", "unlogged", "reread"} /\ Init

On(instance, A) == which = instance /\ A /\ UNCHANGED which

Failing(A) == On("failing", A)

EitherNext ==
  \/ Failing(Next) \/ On("disturbed", Disturbed!Next)
  \/ On("unlogged", Unlogged!Next) \/ On("reread", Reread!Next)

\* Calls that are lost end by their deadline only in the first instance, so fairness is stated there.
Either ==
  /\ EitherInit /\ [][EitherNext]_<<which, vars>>
  /\ WF_<<which, vars>>(Failing(TaskStep))
  /\ WF_<<which, vars>>(Failing(Reconcile))
  /\ WF_<<which, vars>>(Failing(UIStarts))

-------------------------------------------------------------------------------
(* Properties; those that need no word on the instance are in ReleaseCoordinator. *)

\* The variables have their types.
EitherTypeOK ==
  /\ which # "disturbed" => TypeOK
  /\ which = "disturbed" => Disturbed!TypeOK

\* Run and Reconcile come to an end, whatever fails, whatever the Agent does and whoever dies.
FailingTaskEnds == which = "failing" => TaskEnds
=============================================================================
