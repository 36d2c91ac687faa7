--------------------------- MODULE ContainerStartup ---------------------------
(***************************************************************************)
(* What happens before and around nginx in the container.  The init        *)
(* service copies the default configuration into an empty nginx root, as a *)
(* transaction that takes its own files back if it fails.  Then the nginx  *)
(* service starts nginx behind validate-startup, and its finish script     *)
(* records every exit of that, a refused configuration included; both keep *)
(* the startup state file, from which the UI tells whether nginx is being  *)
(* restarted or has been given up.                                         *)
(*                                                                         *)
(* The two share no memory, only files, and either may be killed at any    *)
(* point or find its disk full.  The clock the record is kept by may be    *)
(* set forward or back.  A write of the startup state is one step: the     *)
(* code replaces the file by a rename.                                     *)
(***************************************************************************)
EXTENDS Naturals, Sequences, FiniteSets

CONSTANTS
  DefaultFiles,  \* the files of the default configuration
  OtherFiles,    \* files somebody else may put under the nginx root
  Window,        \* recoveryWindow
  MaxEvents,     \* maxRecoveryEvents
  MaxTime,       \* bound: the clock shows 0..MaxTime
  MaxDeaths      \* bound: how often the init service is killed

VARIABLES
  root,        \* the file names under the nginx root, each "whole" or "partial"
  foreign,     \* the names somebody else created there
  created,     \* transaction.created
  init,        \* the init service: "idle", "copying", "prepare", "failed", "ready"
  deaths,      \* how often it was killed while it copied
  startFrom,   \* what the root held when the attempt in hand began
  now,         \* the clock
  valid,       \* whether "nginx -t" accepts the root
  nginx,       \* "down", "up", "refused" (run ended with 100) or "ended" (otherwise), both before the
               \* finish script, "stopped": given up by the supervisor
  record       \* startup-state.json

initVars == <<root, foreign, created, init, deaths, startFrom>>
vars == <<root, foreign, created, init, deaths, startFrom, now, valid, nginx, record>>

AllFiles == DefaultFiles \cup OtherFiles
Roots == UNION {[names -> {"whole", "partial"}] : names \in SUBSET AllFiles}
Results == {"none", "restarting", "invalid", "permanent"}

NoRecord == [validation |-> "none", events |-> <<>>, permanent |-> FALSE, last |-> "none"]

TypeOK ==
  /\ root \in Roots /\ startFrom \in Roots /\ foreign \subseteq AllFiles
  /\ created \in Seq(DefaultFiles)
  /\ init \in {"idle", "copying", "prepare", "failed", "ready"}
  /\ deaths \in 0..MaxDeaths /\ now \in 0..MaxTime /\ valid \in BOOLEAN
  /\ nginx \in {"down", "up", "refused", "ended", "stopped"}
  /\ record.validation \in {"none", "valid", "invalid"} /\ record.last \in Results
  /\ record.permanent \in BOOLEAN /\ record.events \in Seq(0..MaxTime)

Empty == [f \in {} |-> "whole"]

Init ==
  /\ root = Empty /\ foreign = {} /\ created = <<>> /\ init = "idle" /\ deaths = 0
  /\ startFrom = Empty
  /\ now = 0 /\ valid = TRUE /\ nginx = "down" /\ record = NoRecord

-------------------------------------------------------------------------------
(* The init service. *)

With(f, state) == [g \in DOMAIN root \cup {f} |-> IF g = f THEN state ELSE root[g]]
Without(names) == [g \in DOMAIN root \ names |-> root[g]]
CreatedFiles == {created[i] : i \in DOMAIN created}

\* initializeWithPreparation: a root that has anything in it is left as it is.
Begin ==
  /\ init = "idle"
  /\ startFrom' = root /\ created' = <<>>
  /\ init' = IF DOMAIN root = {} THEN "copying" ELSE "prepare"
  /\ UNCHANGED <<root, foreign, deaths, now, valid, nginx, record>>

\* preflightContainerDirectories: roots that overlap, links or wrong types end the
\* attempt before anything is created.
Refuse ==
  /\ init = "idle" /\ init' = "failed"
  /\ startFrom' = root /\ created' = <<>>
  /\ UNCHANGED <<root, foreign, deaths, now, valid, nginx, record>>

\* (Mutant: the rollback empties the root.)
TakeBackAll == root' = Empty

\* transaction.rollback: what this attempt created is removed, unless that fails.
TakeBack == \E kept \in SUBSET CreatedFiles : root' = Without(CreatedFiles \ kept)

\* copyInitializeFile creates the file, which must not exist, records it, writes it.
CopyFile ==
  /\ init = "copying"
  /\ \E f \in DefaultFiles \ CreatedFiles :
       /\ f \notin DOMAIN root
       /\ created' = Append(created, f)
       /\ root' = With(f, "partial")
  /\ UNCHANGED <<foreign, init, deaths, startFrom, now, valid, nginx, record>>

FinishFile ==
  /\ init = "copying"
  /\ \E f \in CreatedFiles :
       f \in DOMAIN root /\ root[f] = "partial" /\ f \notin foreign /\ root' = With(f, "whole")
  /\ UNCHANGED <<foreign, created, init, deaths, startFrom, now, valid, nginx, record>>

\* validateExclusiveTree: exactly the files of this attempt are there.
Accept ==
  /\ init = "copying" /\ CreatedFiles = DefaultFiles
  /\ \A f \in CreatedFiles : f \in DOMAIN root => root[f] = "whole"
  /\ DOMAIN root = CreatedFiles
  /\ init' = "prepare"
  /\ UNCHANGED <<root, foreign, created, deaths, startFrom, now, valid, nginx, record>>

\* An error of the copy, of the comparison or of the directories prepared afterwards.
Fail ==
  /\ init \in {"copying", "prepare"}
  /\ TakeBack /\ init' = "failed"
  /\ UNCHANGED <<foreign, created, deaths, startFrom, now, valid, nginx, record>>

\* The directories are there: run is created anew, which forgets the startup state.
Ready ==
  /\ init = "prepare"
  /\ init' = "ready" /\ created' = <<>> /\ record' = NoRecord
  /\ UNCHANGED <<root, foreign, deaths, startFrom, now, valid, nginx>>

Killed ==
  /\ init \in {"copying", "prepare"} /\ deaths < MaxDeaths
  /\ init' = "idle" /\ created' = <<>> /\ deaths' = deaths + 1
  /\ UNCHANGED <<root, foreign, startFrom, now, valid, nginx, record>>

\* The operator starts the container again.
StartAgain ==
  /\ init \in {"failed", "ready"} /\ deaths < MaxDeaths
  /\ init' = "idle" /\ created' = <<>> /\ deaths' = deaths + 1 /\ nginx' = "down"
  /\ UNCHANGED <<root, foreign, startFrom, now, valid, record>>

\* Somebody else creates a file in the mounted root.
Intrude ==
  /\ init \in {"idle", "copying", "prepare"}
  /\ \E f \in AllFiles \ DOMAIN root : root' = With(f, "whole") /\ foreign' = foreign \cup {f}
  /\ UNCHANGED <<created, init, deaths, startFrom, now, valid, nginx, record>>

-------------------------------------------------------------------------------
(* The startup state. *)

InWindow(t) == t <= now /\ t + Window >= now

Newest(events) ==
  IF Len(events) > MaxEvents THEN SubSeq(events, Len(events) - MaxEvents + 1, Len(events)) ELSE events

\* The events in the order of their times, equal times in the order they came in.
Sorted(events) ==
  LET before(i, j) == events[i] < events[j] \/ (events[i] = events[j] /\ i < j)
      rank(i) == Cardinality({j \in DOMAIN events : before(j, i)}) + 1
  IN [k \in DOMAIN events |-> events[CHOOSE i \in DOMAIN events : rank(i) = k]]

\* normalizeStartupState, applied to all that is written.
Normalize(state) ==
  LET kept == Newest(Sorted(SelectSeq(state.events, InWindow)))
      full == Len(kept) >= MaxEvents
      permanent == state.permanent \/ full \/ state.validation = "invalid"
  IN [state EXCEPT !.events = kept, !.permanent = permanent,
        !.last = CASE state.validation = "invalid" -> "invalid"
                   [] full -> "permanent"
                   [] Len(kept) > 0 /\ ~state.permanent -> "restarting"
                   [] OTHER -> state.last]

\* validateStartupState, which Read insists on.
Readable(state) ==
  /\ Len(state.events) <= MaxEvents
  /\ \A i \in 1..(Len(state.events) - 1) : state.events[i] <= state.events[i + 1]
  /\ state.last = "invalid" => state.validation = "invalid" /\ state.permanent
  /\ state.last = "permanent" => state.permanent

\* RecordStartupValidation.
ValidationRecorded(result) ==
  LET state == [record EXCEPT !.validation = result,
                  !.last = IF result = "valid" /\ @ = "invalid" THEN "permanent" ELSE @]
  IN Readable(record) /\ record' = Normalize(state)

\* RecordNginxExit: the exit joins the window; the fifth one is permanent.
ExitRecorded ==
  LET kept == Newest(Append(SelectSeq(record.events, InWindow), now))
      state == [record EXCEPT
        !.events = kept,
        !.permanent = @ \/ Len(kept) >= MaxEvents,
        !.last = IF record.permanent
                 THEN IF @ = "invalid" THEN @ ELSE "permanent"
                 ELSE IF Len(kept) >= MaxEvents THEN "permanent" ELSE "restarting"]
  IN Readable(record) /\ record' = Normalize(state)

\* The run script: validate-startup, then nginx.  Without a record nginx is not started, and the
\* record may be there all the same: the directory is synced after the rename.
Start ==
  /\ init = "ready" /\ nginx = "down"
  /\ LET result == IF valid THEN "valid" ELSE "invalid"
     IN \/ ValidationRecorded(result) /\ nginx' = IF valid THEN "up" ELSE "refused"
        \/ ValidationRecorded(result) /\ nginx' = "ended"
        \/ UNCHANGED record /\ nginx' = "ended"
  /\ UNCHANGED <<initVars, now, valid>>

NginxExits ==
  /\ nginx = "up" /\ nginx' = "ended"
  /\ UNCHANGED <<initVars, now, valid, record>>

\* The finish script records how run ended, if it can.  The supervisor gives up at once when the
\* configuration was refused, and otherwise after MaxEvents deaths in the window by a count of its own.
Exit ==
  /\ \/ /\ nginx \in {"refused", "ended"} /\ (ExitRecorded \/ UNCHANGED record)
        /\ nginx' \in IF nginx = "refused" THEN {"stopped"} ELSE {"down", "stopped"}
     \/ nginx \in {"refused", "ended"} /\ nginx' = "down" /\ UNCHANGED record  \* an exit that was expected
  /\ UNCHANGED <<initVars, now, valid>>

\* An operator has the supervisor start nginx again.
Resume ==
  /\ nginx = "stopped" /\ nginx' = "down"
  /\ UNCHANGED <<initVars, now, valid, record>>

SetClock ==
  /\ \E t \in 0..MaxTime : t # now /\ now' = t
  /\ UNCHANGED <<initVars, valid, nginx, record>>

EditConfiguration ==
  /\ init = "ready" /\ valid' = ~valid
  /\ UNCHANGED <<initVars, now, nginx, record>>

-------------------------------------------------------------------------------
InitStep == Begin \/ Refuse \/ CopyFile \/ FinishFile \/ Accept \/ Fail \/ Ready

Next ==
  \/ InitStep \/ Killed \/ StartAgain \/ Intrude
  \/ Start \/ NginxExits \/ Exit \/ Resume \/ SetClock \/ EditConfiguration

Spec == Init /\ [][Next]_vars

-------------------------------------------------------------------------------
(* Properties. *)

\* Whatever the init service does, and however often it fails or is killed, it never
\* takes away or overwrites a file that somebody else put into the mounted root.
ForeignFilesSurvive ==
  \A f \in foreign : f \in DOMAIN root /\ root[f] = "whole"

\* A root that the init service found empty is complete when nginx may start on it,
\* whatever others created meanwhile.  (A root an attempt left half filled, because it
\* was killed or could not take its files back, is the operator's own to the next.)
FilledRootIsWhole ==
  init = "ready" /\ startFrom = Empty =>
    DefaultFiles \subseteq DOMAIN root /\ \A f \in DefaultFiles : root[f] = "whole"

\* What is written can be read again, whatever the clock did between two writes: a
\* state that Read refuses could never be replaced, and nginx never start.
RecordStaysReadable == Readable(record)

\* Once nginx is recorded as given up it stays so until the container is started again,
\* also when the window empties, the clock is set or the configuration becomes valid.
PermanentStays ==
  [][record.permanent /\ init = "ready" /\ init' = "ready" => record'.permanent]_vars
=============================================================================
