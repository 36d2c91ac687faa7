---------------------------- MODULE PublishOutcome ----------------------------
(***************************************************************************)
(* What the Agent promises about one release, without saying how: the      *)
(* files may pass through anything while the verdict is open, the verdict  *)
(* is given once and agrees with the files, and from then on the release   *)
(* leaves production alone.  All that can still happen to a verdict is     *)
(* that it is put in doubt.  Edits by others void the agreement.           *)
(***************************************************************************)

VARIABLES content, verdict, edited

outcomeVars == <<content, verdict, edited>>

OutcomeInit == content = "production" /\ verdict = "open" /\ edited = FALSE

Work ==
  /\ verdict = "open"
  /\ content' \in {"production", "draft", "other"}
  /\ UNCHANGED <<verdict, edited>>

\* The configuration a verdict vouches for.
VouchesFor(v) == IF v = "committed" THEN "draft" ELSE "production"

Settle ==
  /\ verdict = "open"
  /\ verdict' \in {"committed", "rolled_back", "failed"}
  /\ edited \/ content = VouchesFor(verdict')
  /\ UNCHANGED <<content, edited>>

Doubt ==
  /\ verdict' = "needs_attention"
  /\ UNCHANGED <<content, edited>>

EditByOthers ==
  /\ content' \in {"production", "draft", "other"}
  /\ edited' = TRUE
  /\ UNCHANGED verdict

OutcomeNext == Work \/ Settle \/ Doubt \/ EditByOthers

OutcomeSpec == OutcomeInit /\ [][OutcomeNext]_outcomeVars
=============================================================================
