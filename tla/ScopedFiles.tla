------------------------------ MODULE ScopedFiles ------------------------------
(***************************************************************************)
(* Writing files below a scoped root so that they survive (ScopedRoot):    *)
(* replacing a file by renaming a temporary one over it, creating one,     *)
(* removing one, and reading while that happens.  The drafts, journals and *)
(* production files of the other modules are written with these.           *)
(*                                                                         *)
(* The file system keeps what was synced; of what was not, a power failure *)
(* keeps a part: a beginning of the changes of the directory, and of a     *)
(* file's content perhaps only some bytes.  One writer at a time: the      *)
(* callers hold a lock.                                                    *)
(***************************************************************************)
EXTENDS Naturals, Sequences, FiniteSets

CONSTANTS
  Contents, \* of the file
  Inodes,   \* the files there can be at once, and how many changes of the directory may be
  MaxChanges \* waiting for a sync when an operation begins: bounds of the model

VARIABLES
  entry,   \* name -> the file it leads to, or None
  stored,  \* the same on the disk
  changes, \* of the directory since it was synced, in order: the entries after each
  data,    \* file -> its content, Torn while it is not written
  synced,  \* the files whose content is on the disk
  op,      \* the operation in progress: what, its content, the point it is at and its file
  meant,   \* what the file may be: what the last success left, and what was tried since
  reader   \* a reader: the file it opened, and what it then was

vars == <<entry, stored, changes, data, synced, op, meant, reader>>

None == "none"
Torn == "torn"       \* content that nobody wrote
Absent == "absent"

Names == {"file", "temporary"}
Idle  == [what |-> None, content |-> None, at |-> "idle", inode |-> None]
NoReader == [inode |-> None, saw |-> None]

Init ==
  /\ entry = [n \in Names |-> None] /\ stored = entry /\ changes = <<>>
  /\ data = [i \in Inodes |-> Torn] /\ synced = {}
  /\ op = Idle
  /\ meant = {Absent}
  /\ reader = NoReader

\* What a name leads to.
Shown(entries, n, contents) == IF entries[n] = None THEN Absent ELSE contents[entries[n]]

\* A file that no name and no reader needs.
Free == Inodes \ ({entry[n] : n \in Names} \union {stored[n] : n \in Names} \union {op.inode, reader.inode}
                    \union UNION {{changes[k][n] : n \in Names} : k \in DOMAIN changes})

Link(n, i) == /\ entry' = [entry EXCEPT ![n] = i]
              /\ changes' = Append(changes, entry')
Goto(point) == op' = [op EXCEPT !.at = point]
At(what, point) == op.what = what /\ op.at = point

-------------------------------------------------------------------------------
(* The operations. *)

\* The directory of the file is opened: the operation can begin. It is refused when there is a file
\* to create, or none to remove.
Begin(what, content) ==
  /\ op = Idle /\ Len(changes) < MaxChanges
  /\ what = "create" => entry["file"] = None
  /\ what = "remove" => entry["file"] # None
  /\ op' = [what |-> what, content |-> content, at |-> "begun", inode |-> None]
  /\ meant' = meant \union {content} \union (IF what = "create" THEN {Torn} ELSE {})
  /\ UNCHANGED <<entry, stored, changes, data, synced, reader>>

\* A new, empty file with a name that was free.
Make(n) ==
  /\ op.at = "begun" /\ entry[n] = None
  /\ \E i \in Free :
       /\ Link(n, i)
       /\ data' = [data EXCEPT ![i] = Torn] /\ synced' = synced \ {i}
       /\ op' = [op EXCEPT !.at = "created", !.inode = i]
  /\ UNCHANGED <<stored, meant, reader>>

CreateRegular   == op.what = "create" /\ Make("file")

CreateTemporary == op.what = "replace" /\ Make("temporary")

Write ==
  /\ op.at = "created"
  /\ data' = [data EXCEPT ![op.inode] = op.content]
  /\ Goto("written")
  /\ UNCHANGED <<entry, stored, changes, synced, meant, reader>>

\* (Mutant: the content is not synced.)
WriteNoSync ==
  /\ op.at = "written"
  /\ Goto("complete")
  /\ UNCHANGED <<entry, stored, changes, data, synced, meant, reader>>

SyncFile ==
  /\ op.at = "written"
  /\ synced' = synced \union {op.inode}
  /\ Goto("complete")
  /\ UNCHANGED <<entry, stored, changes, data, meant, reader>>

\* A write or a sync fails, or the request ends: the file begun is removed again, if it can be.
CleanUp ==
  /\ op.at \in {"created", "written", "complete"}
  /\ op.at = "complete" => op.what = "replace"
  /\ LET n == IF op.what = "create" THEN "file" ELSE "temporary"
     IN  Link(n, None) \/ UNCHANGED <<entry, changes>>
  /\ op' = Idle
  /\ UNCHANGED <<stored, data, synced, meant, reader>>

\* The temporary file takes the name; other names do not change.
Rename ==
  /\ At("replace", "complete")
  /\ entry' = [entry EXCEPT !["file"] = op.inode, !["temporary"] = None]
  /\ changes' = Append(changes, entry')
  /\ Goto("linked")
  /\ UNCHANGED <<stored, data, synced, meant, reader>>

Unlink ==
  /\ At("remove", "begun")
  /\ Link("file", None)
  /\ Goto("linked")
  /\ UNCHANGED <<stored, data, synced, meant, reader>>

Refuse ==
  /\ op.at = "begun"
  /\ op' = Idle
  /\ UNCHANGED <<entry, stored, changes, data, synced, meant, reader>>

\* The directory is synced and the operation answers; if that fails its change remains all the same.
SyncDirectory ==
  /\ op.at = "linked" \/ At("create", "complete")
  /\ \/ stored' = entry /\ changes' = <<>> /\ meant' = {op.content}
     \/ UNCHANGED <<stored, changes, meant>>
  /\ op' = Idle
  /\ UNCHANGED <<entry, data, synced, reader>>

\* A reader opens the file and reads it at any later time, whatever has the name then.
Open ==
  /\ reader = NoReader /\ entry["file"] # None
  /\ reader' = [inode |-> entry["file"], saw |-> data[entry["file"]]]
  /\ UNCHANGED <<entry, stored, changes, data, synced, op, meant>>

Read ==
  /\ reader # NoReader
  /\ reader' = NoReader
  /\ UNCHANGED <<entry, stored, changes, data, synced, op, meant>>

-------------------------------------------------------------------------------
(* The environment. *)

\* The process dies: what it did remains, also a temporary file.  Before its next operation the
\* caller looks at what there is; a name left behind is never used again, here it is removed.
Die ==
  /\ op # Idle
  /\ op' = Idle /\ reader' = NoReader
  /\ UNCHANGED <<entry, stored, changes, data, synced, meant>>

Forget ==
  /\ op = Idle /\ entry["temporary"] # None /\ Len(changes) < MaxChanges
  /\ Link("temporary", None)
  /\ UNCHANGED <<stored, data, synced, op, meant, reader>>

\* Power fails: the directory is as after some of its changes, and content not synced may be torn.
PowerFails ==
  /\ \E k \in 0 .. Len(changes), torn \in {{}, Inodes \ synced} :
       /\ entry' = IF k = 0 THEN stored ELSE changes[k]
       /\ data' = [i \in Inodes |-> IF i \in torn \/ \A n \in Names : entry'[n] # i THEN Torn ELSE data[i]]
  /\ stored' = entry' /\ changes' = <<>> /\ synced' = Inodes
  /\ op' = Idle /\ reader' = NoReader
  /\ LET found == Shown(entry', "file", data')
     IN  meant' = IF found \in meant THEN {found} ELSE meant

Next ==
  \/ \E content \in Contents : Begin("replace", content) \/ Begin("create", content)
  \/ Begin("remove", Absent)
  \/ CreateRegular \/ CreateTemporary \/ Write \/ SyncFile \/ CleanUp \/ Rename \/ Unlink \/ Refuse \/ SyncDirectory
  \/ Open \/ Read \/ Die \/ Forget \/ PowerFails

Spec == Init /\ [][Next]_vars

-------------------------------------------------------------------------------
(* Properties. *)

\* The variables have their types.
TypeOK ==
  LET Inode == Inodes \union {None}
  IN  /\ entry \in [Names -> Inode] /\ stored \in [Names -> Inode]
      /\ changes \in Seq([Names -> Inode])
      /\ data \in [Inodes -> Contents \union {Torn}] /\ synced \subseteq Inodes
      /\ op.at \in {"idle", "begun", "created", "written", "complete", "linked"}
      /\ (op = Idle) <=> (op.at = "idle")
      /\ meant \subseteq Contents \union {Torn, Absent}
      /\ reader \in [inode : Inode, saw : Contents \union {Torn, None}]

\* What a successful operation left stays through any power failure, and one that failed or was
\* interrupted leaves what was there before or what it was to write, whole: only a file that was
\* being created may be incomplete (AtomicReplace, CreateRegular, RemoveRegular).
FileIsAsMeant == Shown(entry, "file", data) \in meant

\* Who has opened a complete file reads it as it was, whatever replaces or removes it meanwhile
\* (AtomicReplace renames, it never writes into a file that has its name).
ReadersSeeOneContent ==
  reader # NoReader /\ reader.saw # Torn => data[reader.inode] = reader.saw
===============================================================================
