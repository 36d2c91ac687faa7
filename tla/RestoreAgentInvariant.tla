------------------------ MODULE RestoreAgentInvariant ------------------------
(***************************************************************************)
(* The inductive invariant of RestoreAgent.  A restore may be taken over   *)
(* after a crash at any point, with nothing but its journal and its event  *)
(* log, so the invariant says what each stage of the journal still tells   *)
(* of the files, the safety backup and the workers, and at which stages a  *)
(* call can be at each of its control points.                              *)
(***************************************************************************)
EXTENDS RestoreAgent

\* A tree is a function on a set of paths; nothing is said of its contents.  A backup holds
\* a tree, and production is never without a file.
Configurations ==
  /\ Paths # {} /\ \E contents : Trees = [Paths -> contents]
  /\ Source \in Trees /\ Targets \subseteq Trees

\* The stages once there is a safety backup, but for those of a rollback.
Forward == {"safety_backup_verified"} \cup Write

\* The last stage of a log, and the last one the call knows of.
LastOf(log) == IF log = <<>> THEN "none" ELSE log[Len(log)]
Memory == LastOf(stages)

\* No restore is begun twice, and a call that works has not answered.
CallInv ==
  /\ ~dir => journal.stage = "none" /\ events = <<>> /\ pc \in {"idle", "down", "read"}
  /\ pc # "idle" => reply = "none"
  /\ reply = "prepared" => journal.stage = "safety_backup_verified"
  /\ reply \in {"succeeded", "rolled_back"} => journal.stage = reply /\ LastOf(events) = reply

\* The last stage of the journal at each control point: where a logging step may have failed,
\* the journal can be one stage ahead.
JournalAtPc ==
  /\ pc = "verify" => journal.stage = "none" /\ events = <<>>
  /\ pc = "target" => journal.stage = "target_verifying"
  /\ pc = "source" => journal.stage = "target_validated"
  /\ pc = "save" => journal.stage = "safety_backup_creating"
  /\ pc = "unsaved" => journal.stage \in {"safety_backup_creating", "safety_backup_verified"}
  /\ pc = "check" => journal.stage = "safety_backup_verified"
  /\ pc \in {"apply", "written"} => journal.stage = "files_restoring"
  /\ pc = "test" => journal.stage = "files_restored"
  /\ pc \in {"send", "sent"} => journal.stage = "production_validated"
  /\ pc = "confirm" => journal.stage = "reload_requested"
  /\ pc = "succeed" => journal.stage = "runtime_confirmed"
  /\ pc = "rollback" => journal.stage \in Forward \cup Undo \cup {"succeeded"}
  /\ pc = "restore" => journal.stage = "rollback_applying"
  /\ pc = "rollback_test" => journal.stage \in Undo \ {"rollback_applying"}
  /\ pc = "rollback_send" => journal.stage \in {"rollback_validated", "rollback_reload_requested"}
  /\ pc = "rollback_sent" => journal.stage = "rollback_validated"
  /\ pc = "rollback_confirm" => journal.stage \in {"rollback_validated", "rollback_reload_requested"}
  /\ pc = "attention" => journal.stage \in Forward \cup Undo \cup {"succeeded", "rolled_back"}
  /\ pc = "decide" => journal.stage \in Forward \cup Undo
  /\ pc \in {"resume_send", "resume_confirm", "resume_done"} => journal.stage \in Forward
  /\ pc = "unresumed" => journal.stage \in Forward \cup Undo \cup {"succeeded"}

\* What the call knows of the stages: all of them, or all but the last it could not log.
MemoryAtPc ==
  /\ pc = "verify" => Memory = "none"
  /\ pc \in {"target", "source", "save", "check", "apply", "written", "test", "send", "sent",
             "confirm", "succeed", "restore", "rollback_test", "rollback_send", "rollback_sent",
             "rollback_confirm", "decide", "resume_send", "resume_confirm"} => Memory = journal.stage
  /\ pc = "unsaved" => Memory = "safety_backup_creating"
  /\ pc \in {"resume_done", "unresumed", "rollback"} =>
       Memory = journal.stage \/ (Memory \in Forward /\ journal.stage \notin Undo)
  /\ pc \in {"resume_done", "unresumed", "rollback", "attention"} => Memory \in Forward \cup Undo

\* A log that still parses is in the order of the stages.
EventsInOrder ==
  ~torn => \A i \in 1..(Len(events) - 1) : StageOrder(events[i]) <= StageOrder(events[i + 1])

\* The journal names a safety backup if there is one, which then is the tree that was found.
SavedInv ==
  /\ journal.stage \in {"none"} \cup Early => ~journal.saved
  /\ journal.stage \notin {"none", "failed"} \cup Early => journal.saved
  /\ journal.saved \/ pc = "unsaved" => safety = Source

\* What the stages tell of production.
FilesInv ==
  /\ files # Source => journal.saved
  /\ journal.stage \in {"none", "safety_backup_verified"} \cup Early => files = Source
  /\ journal.stage \in {"rolled_back"} \cup (Undo \ {"rollback_applying"}) => files = Source
  /\ journal.stage \in {"rolled_back", "rollback_validated", "rollback_reload_requested"} => Source \in Valid
  /\ journal.stage = "failed" \/ reply = "failed" => SameDigest(files, Source)
  /\ journal.stage = "succeeded" \/ pc \in {"send", "sent", "confirm", "succeed", "resume_send",
       "resume_confirm", "resume_done"} => SameDigest(files, target)

\* Before a reload the workers of the recorded master are the old ones.
Unreloaded == ~hup /\ (master = "known" => running = Source)

\* What they tell of the workers.
WorkersInv ==
  /\ journal.stage \in {"none"} \cup Early => ~hup /\ (master # "down" => running = Source)
  /\ pc \in {"save", "unsaved", "check", "apply", "written", "test", "send"} \/ reply = "prepared" =>
       Unreloaded /\ (master = "known" => ~replaced)
  /\ journal.stage \notin Undo \cup {"rolled_back", "failed", "needs_attention"} /\ master = "known" /\ replaced =>
       running = files
  /\ journal.stage = "succeeded" \/ pc \in {"succeed", "resume_done"} =>
       SameDigest(running, target) \/ master = "down"
  /\ pc \in {"rollback", "restore", "rollback_test", "rollback_send", "rollback_sent", "rollback_confirm"} /\ ~reload =>
       Unreloaded
  /\ pc \in {"rollback_sent", "rollback_confirm"} \/ journal.stage \in {"rollback_reload_requested", "rolled_back"} =>
       running = Source \/ hup \/ master # "known"

IInv ==
  /\ TypeOK /\ CallInv /\ JournalAtPc /\ MemoryAtPc /\ EventsInOrder /\ LogIsKnown
  /\ SavedInv /\ FilesInv /\ WorkersInv
==============================================================================
