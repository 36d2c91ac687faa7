---------------------------- MODULE RetentionPlan ----------------------------
(***************************************************************************)
(* What RecoveryService.PlanRetention decides about the complete backups,  *)
(* which it takes oldest first and numbers 1..n.  A snapshot s is what the *)
(* plan reads:                                                             *)
(*   s.size[i]     TotalBytes of the i-th backup                           *)
(*   s.young       those younger than MinimumAge                           *)
(*   s.manual      those an administrator protects                         *)
(*   s.referenced  those an open attention case names                      *)
(***************************************************************************)
EXTENDS Naturals, Sequences, FiniteSets, FiniteSetsExt

CONSTANTS MinimumComplete, MaximumComplete, MaximumTotalBytes,  \* RetentionPolicy
          MaxInt64                                              \* math.MaxInt64

ASSUME PolicyAssumption ==
  /\ MinimumComplete \in Nat \ {0}
  /\ MaximumComplete \in Nat /\ MaximumComplete >= MinimumComplete
  /\ MaximumTotalBytes \in Nat \ {0}
  /\ MaxInt64 \in Nat

Ordinals(s) == 1 .. Len(s.size)

\* the newest backups, as many as the policy keeps whatever happens
MinimumKept(s) == {i \in Ordinals(s) : i + MinimumComplete > Len(s.size)}

Protected(s) == (s.manual \union s.referenced \union MinimumKept(s)) \intersect Ordinals(s)

Eligible(s) == Ordinals(s) \ (Protected(s) \union s.young)

\* The sum of the sizes of the first i backups; the plan is refused once it would
\* pass MaxInt64.
BytesUpTo(s) ==
  LET bytes[i \in 0 .. Len(s.size)] == IF i = 0 THEN 0 ELSE bytes[i - 1] + s.size[i]
  IN  bytes

Refused(s) == \E i \in Ordinals(s) : s.size[i] > MaxInt64 - BytesUpTo(s)[i - 1]

AboveTargets(remaining) ==
  remaining.count > MaximumComplete \/ remaining.bytes > MaximumTotalBytes

\* (Mutant: what a deletion frees is not counted.)
WalkOn(s) ==
  LET full == [count |-> Len(s.size), bytes |-> BytesUpTo(s)[Len(s.size)], delete |-> {}]
  IN  [i \in 0 .. Len(s.size) |->
         [full EXCEPT !.delete = {j \in Eligible(s) : j <= i /\ AboveTargets(full)}]]

\* The walk over the backups, oldest first: what remains after the i-th, and which
\* of the first i are to be deleted.
Walk(s) ==
  LET after[i \in 0 .. Len(s.size)] ==
        IF i = 0
        THEN [count |-> Len(s.size), bytes |-> BytesUpTo(s)[Len(s.size)], delete |-> {}]
        ELSE LET last == after[i - 1]
             IN  IF i \in Eligible(s) /\ AboveTargets(last)
                 THEN [count |-> last.count - 1, bytes |-> last.bytes - s.size[i],
                       delete |-> last.delete \union {i}]
                 ELSE last
  IN  after

Deletions(s) == Walk(s)[Len(s.size)].delete

\* LastErrorCode = retention_target_unreachable
Unreachable(s) == AboveTargets(Walk(s)[Len(s.size)])
-----------------------------------------------------------------------------
(* What the policy means, without the walk: of the deletions that take the *)
(* eligible backups oldest first, the smallest one that meets the targets. *)

OldestFirst(s) ==
  {deleted \in SUBSET Eligible(s) :
     \A older, newer \in Eligible(s) : older < newer /\ newer \in deleted => older \in deleted}

MeetsTargets(s, deleted) ==
  LET kept == Ordinals(s) \ deleted
  IN  /\ Cardinality(kept) <= MaximumComplete
      /\ MapThenSumSet(LAMBDA i : s.size[i], kept) <= MaximumTotalBytes
=============================================================================
