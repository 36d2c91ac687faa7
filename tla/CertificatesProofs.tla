--------------------------- MODULE CertificatesProofs ---------------------------
(***************************************************************************)
(* What holds of certificates for any number of them, of tasks, of slots   *)
(* and of faults.  A task changes four places one after the other, so the  *)
(* invariant says, for every control point of the goroutine, what the task *)
(* has in each of them; and, for a task whose goroutine is gone, what the  *)
(* rows still tell of it.                                                  *)
(***************************************************************************)
EXTENDS Certificates, TLAPS

USE CertificateAssumption DEF CertificateAssumption

(* Control points, by what a task there may have left behind. *)

\* Nothing yet: no challenge, no material.
EarlyPoints == {"pending", "read", "begin", "prepared", "ordering", "provisioning", "provision", "quitting"}
\* Perhaps a challenge, and no material.
ChallengePoints == {"recorded", "retract", "claimed", "provisioned", "authorizing", "cleaning", "undo"}
\* The challenge is cleaned, and there is no material.
CleanedPoints == {"cleaned", "finalizing", "validating", "failing"}
\* The challenge is cleaned, and the material of the task is or was in the vault.
MaterialPoints == {"stored", "deploying", "deployed", "discard", "abandon"}
BindingPoints == {"binding", "bound"}

OrderPoints ==
  {"ordering", "provisioning", "provision", "cleaned", "finalizing", "validating"}
    \cup ChallengePoints \cup MaterialPoints

Verdicts == {"succeeded", "failed", "cancelled"}

-------------------------------------------------------------------------------
(* The invariant. *)

TaskRows ==
  [kind : TaskKinds, cert : Certs \cup {NoVersion}, challenge : {"http", "dns"}, bound : BOOLEAN,
   plan : Contents, state : TaskStates \cup {"none"}, stage : Stages, cancel : BOOLEAN]

RowTypeOK ==
  /\ row \in [Tasks -> TaskRows]
  /\ \A t \in Tasks : row[t].state # "none" => CertOf(t) \in Certs

IsActive(t) == row[t].state \in Active

\* A goroutine runs an active task, and none runs while the process is down or reconciles.
OwnedAreActive ==
  /\ \A t \in Tasks : at[t] # "none" => IsActive(t)
  /\ ui \in {"down", "tasks"} => \A t \in Tasks : at[t] = "none"

\* A certificate has one active task at most.
OneActive ==
  \A t, u \in Tasks : IsActive(t) /\ IsActive(u) /\ CertOf(t) = CertOf(u) => t = u

\* Orders and bindings go their own ways.
KindAt(t, point) ==
  /\ point \in OrderPoints => IsOrder(t)
  /\ point \in BindingPoints => ~IsOrder(t)
KindAtPoint == \A t \in Tasks : KindAt(t, at[t])

\* A binding is asked for servers; what the row of the certificate says of them may have changed since.
BoundAsAsked ==
  \A t \in Tasks : IsActive(t) => (row[t].kind = "bind" => row[t].bound)

\* What the row of a certificate names is its own, and is nothing if there is no certificate.
ItemsNameTheirOwn ==
  \A c \in Certs :
    /\ item[c].version \in VersionsOf(c) \cup {NoVersion}
    /\ item[c].bound \in VersionsOf(c) \cup {NoVersion}
    /\ item[c].state \in {"none", "deleted"} => item[c].version = NoVersion /\ item[c].bound = NoVersion

\* A request in progress is about a certificate that is still as the request needs it, or whose rows are
\* known to differ from production.
RequestsHold ==
  \A c \in Certs :
    /\ c \in unbinding => item[c].bound # NoVersion \/ c \in drift
    /\ removal[c] = "committed" => item[c].state = "deleted"

\* The active version of a certificate is stored.
ActiveIsStored ==
  \A c \in Certs : item[c].version # NoVersion => item[c].version \in vault \cup damaged

\* Production serves to a certificate only versions of its own.
ServedIsOwn == \A c \in Certs : served[c] \in VersionsOf(c) \cup {NoVersion}

\* As DriftHasCause, and the task in between is one that publishes.
DriftHasTask ==
  \A c \in Certs : item[c].bound # served[c] =>
    \/ c \in drift \cup unbinding
    \/ \E t \in Tasks : CertOf(t) = c /\ at[t] \in {"deployed", "bound"} /\ row[t].bound

\* What a task has published is still served when the rows are to follow: to unbind it there must be a
\* binding.
PublishedAt(t, point) ==
  /\ point = "deployed" /\ row[t].bound => served[CertOf(t)] = t
  /\ point = "bound" /\ item[CertOf(t)].bound = NoVersion => served[CertOf(t)] = item[CertOf(t)].version
PublishedIsServed == \A t \in Tasks : PublishedAt(t, at[t])

\* The version an active order makes is nobody's yet, stored between two points, and served only
\* from its publication on.
OrderIsNew ==
  \A t \in Tasks : IsActive(t) /\ IsOrder(t) => item[CertOf(t)].version # t /\ item[CertOf(t)].bound # t
VersionAt(t, point) ==
  /\ served[CertOf(t)] = t => point \in {"none", "deployed", "doubt"}
  /\ point \in EarlyPoints \cup ChallengePoints \cup CleanedPoints => t \notin vault
  /\ point \in {"stored", "deploying", "deployed"} => t \in vault \cup damaged
VersionAtPoint == \A t \in Tasks : IsActive(t) /\ IsOrder(t) => VersionAt(t, at[t])

\* Nothing is left of a challenge, or only a record that the UI never learned of.
NoChallenge(t) == artifact[t] \in {"none", "cleaned"} /\ t \notin include /\ (t \in txt => t \in orphan)

\* What is left of a challenge is in the artifact, or in the hands of the goroutine.
ChallengeIsKnown(t, point) ==
  /\ t \in include => artifact[t] \in {"created", "needs_attention"} /\ row[t].challenge = "http"
  /\ t \in txt =>
       \/ t \in orphan
       \/ artifact[t] = "created" /\ row[t].challenge = "dns"
       \/ artifact[t] = "none" /\ point \in {"recorded", "retract", "doubt"}
ChallengeAt(t, point) ==
  /\ ChallengeIsKnown(t, point)
  /\ point \in EarlyPoints \cup CleanedPoints \cup MaterialPoints \cup BindingPoints \/ ~IsOrder(t) => NoChallenge(t)
  /\ point \in EarlyPoints \cup {"recorded", "retract"} => artifact[t] = "none"
  /\ point = "claimed" => artifact[t] = "created" /\ row[t].challenge = "http"
  /\ point \in {"recorded", "retract"} => row[t].challenge = "dns"
ChallengeAtPoint == \A t \in Tasks : IsActive(t) => ChallengeAt(t, at[t])

\* A task that is over, or was never asked for, has left no challenge.
OverIsClean ==
  \A t \in Tasks :
    /\ row[t].state \in Verdicts \cup {"none"} => NoChallenge(t)
    /\ row[t].state = "none" => artifact[t] = "none" /\ t \notin vault

IInv ==
  /\ TypeOK /\ RowTypeOK /\ OwnedAreActive /\ OneActive /\ KindAtPoint /\ BoundAsAsked
  /\ ItemsNameTheirOwn /\ RequestsHold /\ ActiveIsStored
  /\ ServedIsOwn /\ ServedIsStored /\ DriftHasTask /\ DeletedIsGone
  /\ PublishedIsServed /\ OrderIsNew /\ VersionAtPoint /\ ChallengeAtPoint /\ OverIsClean

-------------------------------------------------------------------------------
(* The rows of tasks. *)

\* A task still says what it said, but for its stage and a request to cancel it.
SameTask(t) ==
  /\ row'[t].kind = row[t].kind /\ row'[t].cert = row[t].cert
  /\ row'[t].challenge = row[t].challenge /\ row'[t].bound = row[t].bound
  /\ (row'[t].state \in Active) <=> (row[t].state \in Active)
  /\ (row'[t].state \in Verdicts \cup {"none"}) <=> (row[t].state \in Verdicts \cup {"none"})
  /\ (row'[t].state = "none") <=> (row[t].state = "none")

SameTasks == RowTypeOK' /\ \A t \in Tasks : SameTask(t)

\* A row of the right type is a task.
LEMMA RowIsTask ==
  ASSUME NEW r \in TaskRows, r.state # "none" => r.cert \in Certs
  PROVE  IsTask(r)
  BY DEF TaskRows, IsTask

\* What a well typed row says.
LEMMA RowFacts ==
  ASSUME RowTypeOK, NEW t \in Tasks
  PROVE  /\ row[t] \in TaskRows /\ IsTask(row[t])
         /\ row[t].kind \in TaskKinds /\ row[t].bound \in BOOLEAN /\ row[t].challenge \in {"http", "dns"}
         /\ row[t].state \in TaskStates \cup {"none"} /\ row[t].cert \in Certs \cup {NoVersion}
         /\ row[t].state # "none" => row[t].cert \in Certs
<1>1. row[t] \in TaskRows
  BY DEF RowTypeOK
<1>2. row[t].state # "none" => row[t].cert \in Certs
  BY DEF RowTypeOK, CertOf
<1> QED
  BY <1>1, <1>2 DEF TaskRows, IsTask

\* The row of no task is well typed.
LEMMA NoTaskFacts ==
  /\ NoTask \in TaskRows /\ NoTask.state = "none"
  /\ NoTask.plan \in Contents /\ NoTask.challenge = "http" /\ NoTask.bound = FALSE /\ NoTask.cancel = FALSE
<1>1. [c \in Certs |-> NoVersion] \in [Certs -> Versions \cup {NoVersion}]
  OBVIOUS
<1>2. 0 \in 0..Edits
  OBVIOUS
<1>3. [served |-> [c \in Certs |-> NoVersion], include |-> {}, edits |-> 0] \in Contents
  BY <1>1, <1>2 DEF Contents
<1> QED
  BY <1>3 DEF NoTask, TaskRows, TaskKinds, TaskStates, Stages

\* advance keeps what the task is.
LEMMA Advances ==
  ASSUME RowTypeOK, NEW t \in Tasks, NEW stage \in Stages, TransitionCertificateTask(t, "running", stage)
  PROVE  SameTasks
<1>1. /\ row[t].state \in Active /\ "running" \in Active
      /\ row' = [row EXCEPT ![t] = [row[t] EXCEPT !.state = "running", !.stage = stage]]
  BY DEF TransitionCertificateTask, Active
<1>2. row[t] \in TaskRows /\ row \in [Tasks -> TaskRows] /\ row[t].cert \in Certs
  BY <1>1, RowFacts DEF RowTypeOK, Active
<1> DEFINE new == [row[t] EXCEPT !.state = "running", !.stage = stage]
<1>3. /\ new \in TaskRows /\ new.state = "running" /\ new.cert = row[t].cert /\ new.kind = row[t].kind
      /\ new.challenge = row[t].challenge /\ new.bound = row[t].bound
  BY <1>2 DEF TaskRows, TaskStates
<1>4. row'[t] = new /\ \A u \in Tasks \ {t} : row'[u] = row[u]
  BY <1>1, <1>2
<1>5. RowTypeOK'
  BY <1>1, <1>2, <1>3, <1>4 DEF RowTypeOK, CertOf
<1> QED
  BY <1>1, <1>3, <1>4, <1>5 DEF SameTasks, SameTask, Active, Verdicts

\* So does a request to cancel it.
LEMMA Cancels ==
  ASSUME RowTypeOK, NEW t \in Tasks, row' = [row EXCEPT ![t].cancel = TRUE]
  PROVE  SameTasks
<1>1. row[t] \in TaskRows /\ row \in [Tasks -> TaskRows]
  BY RowFacts DEF RowTypeOK
<1> DEFINE new == [row[t] EXCEPT !.cancel = TRUE]
<1>2. /\ new \in TaskRows /\ new.state = row[t].state /\ new.cert = row[t].cert /\ new.kind = row[t].kind
      /\ new.challenge = row[t].challenge /\ new.bound = row[t].bound
  BY <1>1 DEF TaskRows
<1>3. row'[t] = new /\ \A u \in Tasks \ {t} : row'[u] = row[u]
  BY <1>1
<1>4. row' \in [Tasks -> TaskRows]
  BY <1>1, <1>2
<1>5. RowTypeOK'
  BY <1>2, <1>3, <1>4 DEF RowTypeOK, CertOf
<1> QED
  BY <1>2, <1>3, <1>5 DEF SameTasks, SameTask

\* Rows that stay are the same tasks.
LEMMA RowsStay ==
  ASSUME RowTypeOK, row' = row
  PROVE  SameTasks
  BY DEF SameTasks, SameTask, RowTypeOK, CertOf

\* The end of a task keeps kind and certificate only.
LEMMA Ended ==
  ASSUME RowTypeOK, NEW t \in Tasks, NEW state \in TaskStates \ Active, NEW stage \in Stages,
         TransitionCertificateTask(t, state, stage)
  PROVE  /\ row[t].state \in Active /\ RowTypeOK'
         /\ row'[t].state = state /\ row'[t].kind = row[t].kind /\ row'[t].cert = row[t].cert
         /\ \A u \in Tasks \ {t} : row'[u] = row[u]
<1> DEFINE new == [NoTask EXCEPT !.kind = row[t].kind, !.cert = CertOf(t), !.state = state, !.stage = stage]
<1>1. row[t].state \in Active /\ row' = [row EXCEPT ![t] = new]
  BY DEF TransitionCertificateTask
<1>2. /\ row[t].kind \in TaskKinds /\ row \in [Tasks -> TaskRows] /\ row[t].cert \in Certs
  BY <1>1, RowFacts DEF RowTypeOK, Active
<1>3. NoTask \in TaskRows
  BY NoTaskFacts
<1>4. new \in TaskRows /\ new.state = state /\ new.kind = row[t].kind /\ new.cert = row[t].cert
  BY <1>2, <1>3 DEF TaskRows, CertOf
<1>5. row'[t] = new /\ \A u \in Tasks \ {t} : row'[u] = row[u]
  BY <1>1, <1>2
<1>6. RowTypeOK'
  BY <1>1, <1>2, <1>4, <1>5 DEF RowTypeOK, CertOf
<1> QED
  BY <1>1, <1>4, <1>5, <1>6

\* The directory of a certificate names the same versions as long as the tasks are the same.
LEMMA SameVersions ==
  ASSUME NEW c \in Certs,
         \A t \in Tasks : /\ row'[t].kind = row[t].kind /\ row'[t].cert = row[t].cert
                          /\ (row'[t].state = "none") <=> (row[t].state = "none")
  PROVE  VersionsOf(c)' = VersionsOf(c)
  BY DEF VersionsOf, CertOf

\* A version belongs to one certificate.
LEMMA VersionsDiffer ==
  ASSUME NEW c \in Certs, NEW d \in Certs, NEW v \in VersionsOf(c), v \in VersionsOf(d)
  PROVE  c = d /\ v # NoVersion
  BY DEF VersionsOf

-------------------------------------------------------------------------------
(* A step of the goroutine of a task. *)

\* What a step of the goroutine of t to a point may change of its challenge and its material.
OnlyOf(t) ==
  /\ artifact' \in [Tasks -> {"none", "created", "cleaned", "needs_attention"}]
  /\ include' \subseteq Tasks /\ txt' \subseteq Tasks /\ orphan' \subseteq Tasks /\ orphan \subseteq orphan'
  /\ \A u \in Tasks \ {t} :
       /\ artifact'[u] = artifact[u] /\ ((u \in include') <=> (u \in include)) /\ ((u \in txt') <=> (u \in txt))
  /\ vault' \in {vault, vault \cup {t}, vault \ {t}}
  /\ vault' # vault => IsOrder(t) /\ at[t] \in {"validating", "discard", "abandon"}

Moves(t, point) ==
  /\ at' = [at EXCEPT ![t] = point]
  /\ SameTasks /\ OnlyOf(t)
  /\ UNCHANGED <<item, served, edits, ui, requests, drift, damaged>>
  /\ gone' \subseteq Tasks /\ left' \in 0..Budget

\* A step of a task that changes nothing but the task, its challenge and its material keeps the
\* invariant, if what the next point asks for is there.
LEMMA MoveKeeps ==
  ASSUME IInv, NEW t \in Tasks, NEW point \in Points, Moves(t, point), at[t] # "none",
         at[t] \in {"deployed", "bound"} => ~row[t].bound,
         KindAt(t, point), PublishedAt(t, point),
         IsOrder(t) => VersionAt(t, point)', ChallengeAt(t, point)'
  PROVE  IInv'
<1>1. /\ TypeOK /\ RowTypeOK /\ RowTypeOK' /\ IsActive(t) /\ IsActive(t)'
      /\ at' \in [Tasks -> Points] /\ at'[t] = point /\ \A u \in Tasks \ {t} : at'[u] = at[u]
      /\ \A u \in Tasks : SameTask(u)
      /\ UNCHANGED <<item, served, edits, ui, inquiry, asked, unbinding, removal, drift, damaged>>
  BY DEF IInv, Moves, SameTasks, TypeOK, OwnedAreActive, IsActive, SameTask, requests
<1>2. /\ \A c \in Certs : VersionsOf(c)' = VersionsOf(c)
      /\ \A u \in Tasks : /\ CertOf(u)' = CertOf(u) /\ IsOrder(u)' = IsOrder(u) /\ IsActive(u)' = IsActive(u)
                          /\ row'[u].bound = row[u].bound /\ row'[u].kind = row[u].kind
  BY <1>1, SameVersions DEF SameTask, CertOf, IsOrder, IsActive
<1>3. /\ \A u \in Tasks : row[u].state # "none" => CertOf(u) \in Certs
      /\ CertOf(t) \in Certs /\ row[t].state # "none"
  BY <1>1, RowFacts DEF CertOf, IsActive, Active
<1>4. \A c \in Certs : t \in VersionsOf(c) => c = CertOf(t)
  BY DEF VersionsOf
<1>5. OnlyOf(t)
  BY DEF Moves
<1>6. \A c \in Certs : served[c] = t => c = CertOf(t)
  BY <1>4 DEF IInv, ServedIsOwn
<1>7. ASSUME NEW c \in Certs, vault' # vault
      PROVE  item[c].version # t /\ item[c].bound # t /\ served[c] # t
  <2>1. item[c].version = t \/ item[c].bound = t => c = CertOf(t)
    BY <1>4 DEF IInv, ItemsNameTheirOwn
  <2>2. IsOrder(t) /\ at[t] \in {"validating", "discard", "abandon"}
    BY <1>5, <1>7 DEF OnlyOf
  <2>3. item[CertOf(t)].version # t /\ item[CertOf(t)].bound # t /\ served[CertOf(t)] # t
    BY <2>2, <1>1 DEF IInv, OrderIsNew, VersionAtPoint, VersionAt
  <2> QED
    BY <2>1, <2>3, <1>6
<1>8. artifact' \in [Tasks -> {"none", "created", "cleaned", "needs_attention"}] /\ vault' \subseteq Versions
  BY <1>1, <1>5 DEF OnlyOf, TypeOK, Versions
<1>9. \A u \in Tasks : IsTask(row[u])'
  BY <1>1, RowIsTask DEF RowTypeOK, CertOf
<1>10. TypeOK'
  BY <1>1, <1>5, <1>8, <1>9 DEF Moves, TypeOK, OnlyOf
<1>11. RowTypeOK'
  BY <1>1
<1>12. OwnedAreActive'
  BY <1>1, <1>2 DEF IInv, OwnedAreActive
<1>13. OneActive'
  BY <1>2 DEF IInv, OneActive
<1>14. KindAtPoint'
  BY <1>1, <1>2 DEF IInv, KindAtPoint, KindAt
<1>15. BoundAsAsked'
  BY <1>1, <1>2 DEF IInv, BoundAsAsked
<1>16. ItemsNameTheirOwn'
  BY <1>1, <1>2 DEF IInv, ItemsNameTheirOwn
<1>17. RequestsHold'
  BY <1>1 DEF IInv, RequestsHold
<1>18. ActiveIsStored'
  BY <1>1, <1>5, <1>7 DEF IInv, ActiveIsStored, OnlyOf
<1>19. ServedIsOwn'
  BY <1>1, <1>2 DEF IInv, ServedIsOwn
<1>20. ServedIsStored'
  BY <1>1, <1>5, <1>7 DEF IInv, ServedIsStored, OnlyOf
<1>21. DriftHasTask'
  BY <1>1, <1>2 DEF IInv, DriftHasTask
<1>22. DeletedIsGone'
  BY <1>1, <1>2 DEF IInv, DeletedIsGone, ActiveTasks, IsActive
<1>23. PublishedIsServed'
  BY <1>1, <1>2 DEF IInv, PublishedIsServed, PublishedAt
<1>24. OrderIsNew'
  BY <1>1, <1>2 DEF IInv, OrderIsNew
<1>25. VersionAtPoint'
  BY <1>1, <1>2, <1>5 DEF IInv, VersionAtPoint, VersionAt, OnlyOf
<1>26. ChallengeAtPoint'
  BY <1>1, <1>2, <1>5 DEF IInv, ChallengeAtPoint, ChallengeAt, ChallengeIsKnown, NoChallenge, OnlyOf, SameTask
<1>27. OverIsClean'
  BY <1>1, <1>2, <1>3, <1>5 DEF IInv, OverIsClean, NoChallenge, OnlyOf, SameTask, IsActive, Active, Verdicts
<1> QED
  BY <1>10, <1>11, <1>12, <1>13, <1>14, <1>15, <1>16, <1>17, <1>18, <1>19, <1>20, <1>21, <1>22, <1>23, <1>24,
     <1>25, <1>26, <1>27 DEF IInv

-------------------------------------------------------------------------------
(* The steps of orders, but for publications and ends. *)

Quiet == <<item, served, edits, ui, requests, drift, damaged>>

\* What the goroutine of a task may rely on.
LEMMA TaskFacts ==
  ASSUME IInv, NEW t \in Tasks, at[t] # "none"
  PROVE  /\ TypeOK /\ RowTypeOK /\ IsActive(t) /\ row[t].state # "none" /\ CertOf(t) \in Certs
         /\ row[t].bound \in BOOLEAN /\ row[t].challenge \in {"http", "dns"} /\ row[t].kind \in TaskKinds
         /\ KindAt(t, at[t]) /\ PublishedAt(t, at[t]) /\ ChallengeAt(t, at[t])
         /\ IsOrder(t) => VersionAt(t, at[t])
         /\ at[t] \in Points /\ at \in [Tasks -> Points]
<1>1. TypeOK /\ RowTypeOK /\ IsActive(t)
  BY DEF IInv, OwnedAreActive
<1>2. /\ KindAt(t, at[t]) /\ PublishedAt(t, at[t]) /\ ChallengeAt(t, at[t])
      /\ IsOrder(t) => VersionAt(t, at[t])
  BY <1>1 DEF IInv, KindAtPoint, PublishedIsServed, ChallengeAtPoint, VersionAtPoint
<1>3. row[t].state # "none"
  BY <1>1 DEF IsActive, Active
<1> QED
  BY <1>1, <1>2, <1>3, RowFacts DEF TypeOK, CertOf

\* A point before and a point after which the same is left behind.
Follows(t, from, point) ==
  /\ from # "none" /\ (from \in {"deployed", "bound"} => ~row[t].bound)
  /\ KindAt(t, from) => KindAt(t, point)
  /\ KindAt(t, from) /\ PublishedAt(t, from) => PublishedAt(t, point)
  /\ IsOrder(t) /\ KindAt(t, from) /\ VersionAt(t, from) => VersionAt(t, point)
  /\ KindAt(t, from) /\ ChallengeAt(t, from) => ChallengeAt(t, point)

\* A goroutine that goes on or returns, perhaps with a stage, and does nothing else.
LEMMA FollowKeeps ==
  ASSUME IInv, NEW t \in Tasks, NEW from, NEW point \in Points, at[t] = from, Follows(t, from, point),
         at' = [at EXCEPT ![t] = point], SameTasks,
         UNCHANGED <<Quiet, artifact, vault, include, txt, orphan>>,
         gone' \subseteq Tasks, left' \in 0..Budget
  PROVE  IInv'
<1>1. at[t] # "none"
  BY DEF Follows
<1>2. /\ KindAt(t, point) /\ PublishedAt(t, point) /\ ChallengeAt(t, point)
      /\ IsOrder(t) => VersionAt(t, point)
      /\ TypeOK /\ (at[t] \in {"deployed", "bound"} => ~row[t].bound)
  BY <1>1, TaskFacts DEF Follows
<1>3. /\ row'[t].kind = row[t].kind /\ row'[t].cert = row[t].cert /\ row'[t].challenge = row[t].challenge
      /\ UNCHANGED <<item, served, artifact, vault, include, txt, orphan, damaged>>
  BY DEF SameTasks, SameTask, Quiet
<1>4. ChallengeAt(t, point)'
  BY <1>2, <1>3 DEF ChallengeAt, ChallengeIsKnown, NoChallenge, IsOrder
<1>5. IsOrder(t) => VersionAt(t, point)'
  BY <1>2, <1>3 DEF VersionAt, CertOf
<1>6. OnlyOf(t)
  BY <1>2, <1>3 DEF OnlyOf, TypeOK
<1>7. Moves(t, point)
  BY <1>6 DEF Moves, Quiet
<1> QED
  BY <1>1, <1>2, <1>4, <1>5, <1>7, MoveKeeps

\* Whatever happens, the bound on faults is kept.
LEMMA LeftStays ==
  ASSUME TypeOK, NEW t, NEW what,
         \/ Works \/ Fails(what) \/ CallFails(t, what) \/ CallWorks(t)
  PROVE  left' \in 0..Budget
<1>1. Works \/ Fails(what)
  BY DEF CallFails, CallWorks
<1> QED
  BY <1>1 DEF TypeOK, Works, Fails

\* advance keeps the invariant, whether the row moves or the goroutine returns without it.
LEMMA AdvanceKeeps ==
  ASSUME IInv, NEW t \in Tasks, NEW from, NEW stage \in Stages, NEW point \in Points,
         Advance(t, from, stage, point), Follows(t, from, point), Follows(t, from, "none")
  PROVE  IInv'
<1>1. /\ at[t] = from /\ TypeOK /\ RowTypeOK /\ "none" \in Points
      /\ UNCHANGED <<Quiet, artifact, vault, include, txt, orphan>>
  BY DEF Advance, IInv, world, history, Quiet, Points
<1>2. CASE AdvanceAs(t, stage, point)
  <2>1. SameTasks /\ at' = [at EXCEPT ![t] = point] /\ gone' = gone
    BY <1>1, <1>2, Advances DEF AdvanceAs, Keeps, GoTo
  <2>2. left' \in 0..Budget /\ gone' \subseteq Tasks
    BY <1>1, <1>2, <2>1, LeftStays DEF AdvanceAs, TypeOK
  <2> QED
    BY <1>1, <2>1, <2>2, FollowKeeps
<1>3. CASE Strands(t)
  <2>1. SameTasks /\ at' = [at EXCEPT ![t] = "none"] /\ gone' = gone \ {t}
    BY <1>1, <1>3, RowsStay DEF Strands, Returns, GoTo
  <2>2. left' \in 0..Budget /\ gone' \subseteq Tasks
    BY <1>1, <1>3, <2>1, LeftStays DEF Strands, TypeOK
  <2> QED
    BY <1>1, <2>1, <2>2, FollowKeeps
<1> QED
  BY <1>2, <1>3 DEF Advance

\* A step that leaves the row as it is.
LEMMA GoesKeeps ==
  ASSUME IInv, NEW t \in Tasks, NEW from, NEW what, NEW point \in Points, at[t] = from,
         Works \/ Fails(what) \/ CallFails(t, what) \/ CallWorks(t),
         Keeps(t, point) \/ (point = "none" /\ Returns(t)), Follows(t, from, point),
         UNCHANGED <<rows, vault, world, ui, requests, history>>
  PROVE  IInv'
<1>1. TypeOK /\ RowTypeOK /\ row' = row
  BY DEF IInv, rows
<1>2. /\ SameTasks /\ at' = [at EXCEPT ![t] = point] /\ left' \in 0..Budget /\ gone' \subseteq Tasks
  BY <1>1, RowsStay, LeftStays DEF Keeps, Returns, GoTo, TypeOK
<1>3. UNCHANGED <<Quiet, artifact, vault, include, txt, orphan>>
  BY DEF rows, world, history, Quiet
<1> QED
  BY <1>2, <1>3, FollowKeeps

\* A call that fails before the next advance keeps it.
LEMMA BreaksKeeps ==
  ASSUME IInv, NEW t \in Tasks, NEW from, NEW what, NEW point \in Points,
         Breaks(t, from, what, point), Follows(t, from, point)
  PROVE  IInv'
  BY GoesKeeps DEF Breaks

\* What comes after a point leaves nothing that was not there: for every task,
LEMMA TasksFollow ==
  ASSUME NEW t \in Tasks
  PROVE  /\ Follows(t, "pending", "read")
         /\ Follows(t, "pending", "none")
         /\ Follows(t, "read", "none")
         /\ Follows(t, "read", "quitting")
         /\ Follows(t, "read", "begin")
         /\ Follows(t, "begin", "failing")
         /\ Follows(t, "begin", "none")
         /\ Follows(t, "prepared", "failing")
         /\ Follows(t, "prepared", "none")
<1>1. /\ Follows(t, "pending", "read")
      /\ Follows(t, "pending", "none")
      /\ Follows(t, "read", "none")
      /\ Follows(t, "read", "quitting")
      /\ Follows(t, "read", "begin")
  BY DEF Follows, KindAt, PublishedAt, VersionAt, ChallengeAt, ChallengeIsKnown, NoChallenge,
         EarlyPoints, ChallengePoints, CleanedPoints, MaterialPoints, BindingPoints, OrderPoints
<1>2. /\ Follows(t, "begin", "failing")
      /\ Follows(t, "begin", "none")
      /\ Follows(t, "prepared", "failing")
      /\ Follows(t, "prepared", "none")
  BY DEF Follows, KindAt, PublishedAt, VersionAt, ChallengeAt, ChallengeIsKnown, NoChallenge,
         EarlyPoints, ChallengePoints, CleanedPoints, MaterialPoints, BindingPoints, OrderPoints
<1> QED
  BY <1>1, <1>2

\* for an order,
LEMMA OrdersFollow ==
  ASSUME NEW t \in Tasks, IsOrder(t)
  PROVE  /\ Follows(t, "begin", "prepared")
         /\ Follows(t, "prepared", "ordering")
         /\ Follows(t, "ordering", "provisioning")
         /\ Follows(t, "ordering", "provision")
         /\ Follows(t, "ordering", "failing")
         /\ Follows(t, "ordering", "none")
         /\ Follows(t, "provisioning", "provision")
         /\ Follows(t, "provisioning", "none")
         /\ Follows(t, "provision", "provisioned")
         /\ Follows(t, "provision", "failing")
         /\ Follows(t, "provisioned", "undo")
         /\ Follows(t, "provisioned", "authorizing")
         /\ Follows(t, "provisioned", "none")
         /\ Follows(t, "authorizing", "cleaning")
         /\ Follows(t, "authorizing", "undo")
         /\ Follows(t, "authorizing", "none")
         /\ Follows(t, "cleaned", "finalizing")
         /\ Follows(t, "cleaned", "none")
         /\ Follows(t, "finalizing", "validating")
         /\ Follows(t, "finalizing", "failing")
         /\ Follows(t, "finalizing", "none")
         /\ Follows(t, "validating", "failing")
         /\ Follows(t, "validating", "none")
         /\ Follows(t, "stored", "deploying")
         /\ Follows(t, "stored", "abandon")
<1>1. /\ Follows(t, "begin", "prepared")
      /\ Follows(t, "prepared", "ordering")
      /\ Follows(t, "ordering", "provisioning")
      /\ Follows(t, "ordering", "provision")
      /\ Follows(t, "ordering", "failing")
  BY DEF Follows, KindAt, PublishedAt, VersionAt, ChallengeAt, ChallengeIsKnown, NoChallenge,
         EarlyPoints, ChallengePoints, CleanedPoints, MaterialPoints, BindingPoints, OrderPoints
<1>2. /\ Follows(t, "ordering", "none")
      /\ Follows(t, "provisioning", "provision")
      /\ Follows(t, "provisioning", "none")
      /\ Follows(t, "provision", "provisioned")
      /\ Follows(t, "provision", "failing")
  BY DEF Follows, KindAt, PublishedAt, VersionAt, ChallengeAt, ChallengeIsKnown, NoChallenge,
         EarlyPoints, ChallengePoints, CleanedPoints, MaterialPoints, BindingPoints, OrderPoints
<1>3. /\ Follows(t, "provisioned", "undo")
      /\ Follows(t, "provisioned", "authorizing")
      /\ Follows(t, "provisioned", "none")
      /\ Follows(t, "authorizing", "cleaning")
      /\ Follows(t, "authorizing", "undo")
  BY DEF Follows, KindAt, PublishedAt, VersionAt, ChallengeAt, ChallengeIsKnown, NoChallenge,
         EarlyPoints, ChallengePoints, CleanedPoints, MaterialPoints, BindingPoints, OrderPoints
<1>4. /\ Follows(t, "authorizing", "none")
      /\ Follows(t, "cleaned", "finalizing")
      /\ Follows(t, "cleaned", "none")
      /\ Follows(t, "finalizing", "validating")
      /\ Follows(t, "finalizing", "failing")
  BY DEF Follows, KindAt, PublishedAt, VersionAt, ChallengeAt, ChallengeIsKnown, NoChallenge,
         EarlyPoints, ChallengePoints, CleanedPoints, MaterialPoints, BindingPoints, OrderPoints
<1>5. /\ Follows(t, "finalizing", "none")
      /\ Follows(t, "validating", "failing")
      /\ Follows(t, "validating", "none")
      /\ Follows(t, "stored", "deploying")
      /\ Follows(t, "stored", "abandon")
  BY DEF Follows, KindAt, PublishedAt, VersionAt, ChallengeAt, ChallengeIsKnown, NoChallenge,
         EarlyPoints, ChallengePoints, CleanedPoints, MaterialPoints, BindingPoints, OrderPoints
<1> QED
  BY <1>1, <1>2, <1>3, <1>4, <1>5

\* and for a binding.
LEMMA BindingsFollow ==
  ASSUME NEW t \in Tasks, ~IsOrder(t)
  PROVE  /\ Follows(t, "begin", "prepared")
         /\ Follows(t, "prepared", "binding")
<1>1. /\ Follows(t, "begin", "prepared")
      /\ Follows(t, "prepared", "binding")
  BY DEF Follows, KindAt, PublishedAt, VersionAt, ChallengeAt, ChallengeIsKnown, NoChallenge,
         EarlyPoints, ChallengePoints, CleanedPoints, MaterialPoints, BindingPoints, OrderPoints
<1> QED
  BY <1>1

-------------------------------------------------------------------------------
(* Steps that go on or return. *)

\* At a point of an order only an order is.
LEMMA OrderAt ==
  ASSUME IInv, NEW t \in Tasks, at[t] \in OrderPoints
  PROVE  IsOrder(t)
  BY DEF IInv, KindAtPoint, KindAt

\* A slot for a task that waits (Take) keeps the invariant.
LEMMA TakeKeeps ==
  ASSUME IInv, NEW t \in Tasks, Take(t)
  PROVE  IInv'
  BY GoesKeeps, TasksFollow DEF Take, Points

\* So does the removal of a task cancelled while it waits.
LEMMA RemovePendingKeeps ==
  ASSUME IInv, NEW t \in Tasks, RemovePending(t)
  PROVE  IInv'
  BY GoesKeeps, TasksFollow DEF RemovePending, Points

\* The first read of the row: the goroutine begins, quits or returns.
LEMMA ReadKeeps ==
  ASSUME IInv, NEW t \in Tasks, Read(t)
  PROVE  IInv'
<1>1. at[t] = "read" /\ UNCHANGED <<rows, vault, world, ui, requests, history>>
  BY DEF Read
<1>2. CASE CallFails(t, "store") /\ Returns(t)
  BY <1>1, <1>2, GoesKeeps, TasksFollow DEF Points
<1>3. CASE CallWorks(t) /\ Keeps(t, "quitting")
  BY <1>1, <1>3, GoesKeeps, TasksFollow DEF Points
<1>4. CASE CallWorks(t) /\ Keeps(t, "begin")
  BY <1>1, <1>4, GoesKeeps, TasksFollow DEF Points
<1> QED
  BY <1>2, <1>3, <1>4 DEF Read

\* Plan and account of an order.
LEMMA PrepareKeeps ==
  ASSUME IInv, NEW t \in Tasks, Prepare(t)
  PROVE  IInv'
<1>1. CASE Advance(t, "begin", "preparing", "prepared")
  <2>1. IsOrder(t)
    BY DEF Prepare
  <2> QED
    BY <1>1, <2>1, AdvanceKeeps, OrdersFollow, TasksFollow DEF Points, Stages
<1>2. CASE Breaks(t, "begin", "acme", "failing")
  <2>1. IsOrder(t)
    BY DEF Prepare
  <2> QED
    BY <1>2, <2>1, BreaksKeeps, OrdersFollow, TasksFollow DEF Points
<1> QED
  BY <1>1, <1>2 DEF Prepare

\* The key and the client of an order.
LEMMA OrderKeeps ==
  ASSUME IInv, NEW t \in Tasks, Order(t)
  PROVE  IInv'
<1>1. CASE Advance(t, "prepared", "ordering", "ordering")
  <2>1. IsOrder(t)
    BY DEF Order
  <2> QED
    BY <1>1, <2>1, AdvanceKeeps, OrdersFollow, TasksFollow DEF Points, Stages
<1>2. CASE Breaks(t, "prepared", "vault", "failing")
  <2>1. IsOrder(t)
    BY DEF Order
  <2> QED
    BY <1>2, <2>1, BreaksKeeps, OrdersFollow, TasksFollow DEF Points
<1> QED
  BY <1>1, <1>2 DEF Order

\* The order itself, with the authority.
LEMMA CreateOrderKeeps ==
  ASSUME IInv, NEW t \in Tasks, CreateOrder(t)
  PROVE  IInv'
<1>1. CASE Advance(t, "ordering", "provisioning", "provisioning")
  <2>1. IsOrder(t)
    BY <1>1, OrderAt DEF Advance, OrderPoints, ChallengePoints, MaterialPoints
  <2> QED
    BY <1>1, <2>1, AdvanceKeeps, OrdersFollow, TasksFollow DEF Points, Stages
<1>2. CASE Advance(t, "ordering", "provisioning", "provision")
  <2>1. IsOrder(t)
    BY <1>2, OrderAt DEF Advance, OrderPoints, ChallengePoints, MaterialPoints
  <2> QED
    BY <1>2, <2>1, AdvanceKeeps, OrdersFollow, TasksFollow DEF Points, Stages
<1>3. CASE Breaks(t, "ordering", "acme", "failing")
  <2>1. IsOrder(t)
    BY <1>3, OrderAt DEF Breaks, OrderPoints, ChallengePoints, MaterialPoints
  <2> QED
    BY <1>3, <2>1, BreaksKeeps, OrdersFollow, TasksFollow DEF Points
<1> QED
  BY <1>1, <1>2, <1>3 DEF CreateOrder

\* The stage of propagation, for DNS-01.
LEMMA PropagateKeeps ==
  ASSUME IInv, NEW t \in Tasks, Propagate(t)
  PROVE  IInv'
<1>1. CASE Advance(t, "provisioning", "propagating", "provision")
  <2>1. IsOrder(t)
    BY <1>1, OrderAt DEF Advance, OrderPoints, ChallengePoints, MaterialPoints
  <2> QED
    BY <1>1, <2>1, AdvanceKeeps, OrdersFollow, TasksFollow DEF Points, Stages
<1> QED
  BY <1>1 DEF Propagate

\* A TXT record that does not appear is undone.
LEMMA AwaitTXTKeeps ==
  ASSUME IInv, NEW t \in Tasks, AwaitTXT(t)
  PROVE  IInv'
<1>1. CASE Breaks(t, "provisioned", "dns", "undo")
  <2>1. IsOrder(t)
    BY <1>1, OrderAt DEF Breaks, OrderPoints, ChallengePoints, MaterialPoints
  <2> QED
    BY <1>1, <2>1, BreaksKeeps, OrdersFollow, TasksFollow DEF Points
<1> QED
  BY <1>1 DEF AwaitTXT

\* The authority is asked to look.
LEMMA AuthorizeKeeps ==
  ASSUME IInv, NEW t \in Tasks, Authorize(t)
  PROVE  IInv'
<1>1. CASE Advance(t, "provisioned", "authorizing", "authorizing")
  <2>1. IsOrder(t)
    BY <1>1, OrderAt DEF Advance, OrderPoints, ChallengePoints, MaterialPoints
  <2> QED
    BY <1>1, <2>1, AdvanceKeeps, OrdersFollow, TasksFollow DEF Points, Stages
<1> QED
  BY <1>1 DEF Authorize

\* It has looked, and the challenge is to be cleaned up.
LEMMA CleanKeeps ==
  ASSUME IInv, NEW t \in Tasks, Clean(t)
  PROVE  IInv'
<1>1. CASE Advance(t, "authorizing", "cleaning", "cleaning")
  <2>1. IsOrder(t)
    BY <1>1, OrderAt DEF Advance, OrderPoints, ChallengePoints, MaterialPoints
  <2> QED
    BY <1>1, <2>1, AdvanceKeeps, OrdersFollow, TasksFollow DEF Points, Stages
<1>2. CASE Breaks(t, "authorizing", "acme", "undo")
  <2>1. IsOrder(t)
    BY <1>2, OrderAt DEF Breaks, OrderPoints, ChallengePoints, MaterialPoints
  <2> QED
    BY <1>2, <2>1, BreaksKeeps, OrdersFollow, TasksFollow DEF Points
<1> QED
  BY <1>1, <1>2 DEF Clean

\* The order is finalized.
LEMMA FinalizeKeeps ==
  ASSUME IInv, NEW t \in Tasks, Finalize(t)
  PROVE  IInv'
<1>1. CASE Advance(t, "cleaned", "finalizing", "finalizing")
  <2>1. IsOrder(t)
    BY <1>1, OrderAt DEF Advance, OrderPoints, ChallengePoints, MaterialPoints
  <2> QED
    BY <1>1, <2>1, AdvanceKeeps, OrdersFollow, TasksFollow DEF Points, Stages
<1> QED
  BY <1>1 DEF Finalize

\* The certificate is to be validated.
LEMMA ValidateKeeps ==
  ASSUME IInv, NEW t \in Tasks, Validate(t)
  PROVE  IInv'
<1>1. CASE Advance(t, "finalizing", "validating", "validating")
  <2>1. IsOrder(t)
    BY <1>1, OrderAt DEF Advance, OrderPoints, ChallengePoints, MaterialPoints
  <2> QED
    BY <1>1, <2>1, AdvanceKeeps, OrdersFollow, TasksFollow DEF Points, Stages
<1>2. CASE Breaks(t, "finalizing", "acme", "failing")
  <2>1. IsOrder(t)
    BY <1>2, OrderAt DEF Breaks, OrderPoints, ChallengePoints, MaterialPoints
  <2> QED
    BY <1>2, <2>1, BreaksKeeps, OrdersFollow, TasksFollow DEF Points
<1> QED
  BY <1>1, <1>2 DEF Validate

\* A certificate that is not valid fails the task.
LEMMA RejectKeeps ==
  ASSUME IInv, NEW t \in Tasks, Reject(t)
  PROVE  IInv'
<1>1. CASE Breaks(t, "validating", "acme", "failing")
  <2>1. IsOrder(t)
    BY <1>1, OrderAt DEF Breaks, OrderPoints, ChallengePoints, MaterialPoints
  <2> QED
    BY <1>1, <2>1, BreaksKeeps, OrdersFollow, TasksFollow DEF Points
<1> QED
  BY <1>1 DEF Reject

\* The plan of a binding.
LEMMA PrepareBindingKeeps ==
  ASSUME IInv, NEW t \in Tasks, PrepareBinding(t)
  PROVE  IInv'
<1>1. CASE Advance(t, "begin", "preparing", "prepared")
  <2>1. ~IsOrder(t)
    BY DEF PrepareBinding
  <2> QED
    BY <1>1, <2>1, AdvanceKeeps, BindingsFollow, TasksFollow DEF Points, Stages
<1>2. CASE Breaks(t, "begin", "store", "failing")
  <2>1. ~IsOrder(t)
    BY DEF PrepareBinding
  <2> QED
    BY <1>2, <2>1, BreaksKeeps, BindingsFollow, TasksFollow DEF Points
<1> QED
  BY <1>1, <1>2 DEF PrepareBinding

\* The stage of its publication.
LEMMA StageBindingKeeps ==
  ASSUME IInv, NEW t \in Tasks, StageBinding(t)
  PROVE  IInv'
<1>1. CASE Advance(t, "prepared", "deploying", "binding")
  <2>1. ~IsOrder(t)
    BY DEF StageBinding
  <2> QED
    BY <1>1, <2>1, AdvanceKeeps, BindingsFollow, TasksFollow DEF Points, Stages
<1> QED
  BY <1>1 DEF StageBinding

\* No challenge is needed, or none can be answered.
LEMMA ProvisionNothingKeeps ==
  ASSUME IInv, NEW t \in Tasks, ProvisionNothing(t)
  PROVE  IInv'
<1>1. /\ at[t] = "provision" /\ UNCHANGED <<rows, vault, world, ui, requests, history>> /\ IsOrder(t)
  BY OrderAt DEF ProvisionNothing, OrderPoints
<1>2. CASE Works /\ Keeps(t, "provisioned")
  BY <1>1, <1>2, GoesKeeps, OrdersFollow DEF Points
<1>3. CASE (Works \/ CallFails(t, "vault")) /\ Keeps(t, "failing")
  BY <1>1, <1>3, GoesKeeps, OrdersFollow DEF Points
<1> QED
  BY <1>2, <1>3 DEF ProvisionNothing

\* The stage of deployment; without it the material goes again.
LEMMA DeployKeeps ==
  ASSUME IInv, NEW t \in Tasks, Deploy(t)
  PROVE  IInv'
<1>1. /\ at[t] = "stored" /\ UNCHANGED <<item, artifact, vault, world, ui, requests, history>>
      /\ IsOrder(t) /\ TypeOK /\ RowTypeOK
  BY OrderAt DEF Deploy, OrderPoints, MaterialPoints, IInv
<1>2. CASE AdvanceAs(t, "deploying", "deploying")
  <2>1. SameTasks /\ at' = [at EXCEPT ![t] = "deploying"] /\ gone' = gone
    BY <1>1, <1>2, Advances DEF AdvanceAs, Keeps, GoTo, Stages
  <2>2. left' \in 0..Budget /\ gone' \subseteq Tasks
    BY <1>1, <1>2, <2>1, LeftStays DEF AdvanceAs, TypeOK
  <2>3. UNCHANGED <<Quiet, artifact, vault, include, txt, orphan>>
    BY <1>1 DEF world, history, Quiet
  <2> QED
    BY <1>1, <2>1, <2>2, <2>3, FollowKeeps, OrdersFollow DEF Points
<1>3. CASE CallFails(t, "store") /\ Keeps(t, "abandon") /\ UNCHANGED row
  BY <1>1, <1>3, GoesKeeps, OrdersFollow DEF Points, rows
<1> QED
  BY <1>2, <1>3 DEF Deploy

-------------------------------------------------------------------------------
(* Challenges. *)

Uninvolved == <<row, item, vault, served, edits, ui, requests, drift, damaged>>

\* A step that changes the challenge of its task only.
LEMMA ChallengeKeeps ==
  ASSUME IInv, NEW t \in Tasks, NEW from \in {"provision"} \cup ChallengePoints,
         NEW point \in ChallengePoints \cup {"provision", "failing", "cleaned", "doubt"},
         at[t] = from, Keeps(t, point), UNCHANGED Uninvolved, left' \in 0..Budget,
         artifact' \in [Tasks -> {"none", "created", "cleaned", "needs_attention"}],
         include' \subseteq Tasks, txt' \subseteq Tasks, orphan' \subseteq Tasks, orphan \subseteq orphan',
         \A u \in Tasks \ {t} : /\ artifact'[u] = artifact[u] /\ ((u \in include') <=> (u \in include))
                                /\ ((u \in txt') <=> (u \in txt)),
         ChallengeAt(t, point)'
  PROVE  IInv'
<1>1. IsOrder(t) /\ at[t] # "none"
  BY OrderAt DEF OrderPoints, ChallengePoints
<1>2. TypeOK /\ RowTypeOK /\ VersionAt(t, from)
  BY <1>1, TaskFacts
<1>3. /\ row' = row /\ vault' = vault /\ served' = served /\ damaged' = damaged
      /\ UNCHANGED <<item, served, edits, ui, requests, drift, damaged>>
  BY DEF Uninvolved
<1>4. SameTasks
  BY <1>2, <1>3, RowsStay
<1>5. VersionAt(t, point) /\ KindAt(t, point) /\ PublishedAt(t, point)
  BY <1>1, <1>2 DEF VersionAt, KindAt, PublishedAt, EarlyPoints, ChallengePoints, CleanedPoints, MaterialPoints,
     BindingPoints, OrderPoints
<1>6. VersionAt(t, point)'
  BY <1>3, <1>5 DEF VersionAt, CertOf
<1>7. OnlyOf(t)
  BY <1>3 DEF OnlyOf
<1>8. Moves(t, point) /\ point \in Points
  BY <1>2, <1>3, <1>4, <1>7 DEF Moves, Keeps, GoTo, TypeOK, Points, ChallengePoints
<1>9. at[t] \notin {"deployed", "bound"}
  BY DEF ChallengePoints
<1> QED
  BY <1>1, <1>5, <1>6, <1>8, <1>9, MoveKeeps

\* What is known of the challenge of a task at one of these points.
LEMMA ChallengeFacts ==
  ASSUME IInv, NEW t \in Tasks, at[t] \in {"provision"} \cup ChallengePoints
  PROVE  /\ TypeOK /\ IsOrder(t) /\ ChallengeAt(t, at[t]) /\ row[t].challenge \in {"http", "dns"}
         /\ artifact \in [Tasks -> {"none", "created", "cleaned", "needs_attention"}]
         /\ include \subseteq Tasks /\ txt \subseteq Tasks /\ orphan \subseteq Tasks
  BY TaskFacts, OrderAt DEF OrderPoints, ChallengePoints, TypeOK

\* A TXT record: made, refused, or made with the answer lost.
LEMMA CreateTXTKeeps ==
  ASSUME IInv, NEW t \in Tasks, CreateTXT(t)
  PROVE  IInv'
<1>1. at[t] = "provision" /\ UNCHANGED Uninvolved /\ row[t].challenge = "dns" /\ UNCHANGED <<artifact, include>>
  BY DEF CreateTXT, Uninvolved, rows, world, history
<1>2. /\ TypeOK /\ IsOrder(t) /\ ChallengeAt(t, "provision") /\ row[t].challenge \in {"http", "dns"}
      /\ artifact \in [Tasks -> {"none", "created", "cleaned", "needs_attention"}]
      /\ include \subseteq Tasks /\ txt \subseteq Tasks /\ orphan \subseteq Tasks /\ row' = row
  BY <1>1, ChallengeFacts DEF ChallengePoints, Uninvolved
<1>3. CASE CallWorks(t) /\ txt' = txt \cup {t} /\ Keeps(t, "recorded") /\ UNCHANGED orphan
  <2>1. left' \in 0..Budget
    BY <1>2, <1>3, LeftStays DEF Publication
  <2>2. /\ artifact' \in [Tasks -> {"none", "created", "cleaned", "needs_attention"}]
        /\ include' \subseteq Tasks /\ txt' \subseteq Tasks /\ orphan' \subseteq Tasks /\ orphan \subseteq orphan'
        /\ \A u \in Tasks \ {t} : /\ artifact'[u] = artifact[u] /\ ((u \in include') <=> (u \in include))
                                /\ ((u \in txt') <=> (u \in txt))
    BY <1>1, <1>2, <1>3
  <2>3. ChallengeAt(t, "recorded")'
    BY <1>1, <1>2, <1>3 DEF ChallengeAt, ChallengeIsKnown, NoChallenge, IsOrder,
       EarlyPoints, ChallengePoints, CleanedPoints, MaterialPoints, BindingPoints, CreateTXT
  <2>4. Keeps(t, "recorded")
    BY <1>3
  <2> QED
    BY <1>1, <2>1, <2>2, <2>3, <2>4, ChallengeKeeps DEF ChallengePoints
<1>4. CASE CallFails(t, "dns") /\ Keeps(t, "undo") /\ UNCHANGED <<txt, orphan>>
  <2>1. left' \in 0..Budget
    BY <1>2, <1>4, LeftStays DEF Publication
  <2>2. /\ artifact' \in [Tasks -> {"none", "created", "cleaned", "needs_attention"}]
        /\ include' \subseteq Tasks /\ txt' \subseteq Tasks /\ orphan' \subseteq Tasks /\ orphan \subseteq orphan'
        /\ \A u \in Tasks \ {t} : /\ artifact'[u] = artifact[u] /\ ((u \in include') <=> (u \in include))
                                /\ ((u \in txt') <=> (u \in txt))
    BY <1>1, <1>2, <1>4
  <2>3. ChallengeAt(t, "undo")'
    BY <1>1, <1>2, <1>4 DEF ChallengeAt, ChallengeIsKnown, NoChallenge, IsOrder,
       EarlyPoints, ChallengePoints, CleanedPoints, MaterialPoints, BindingPoints, CreateTXT
  <2>4. Keeps(t, "undo")
    BY <1>4
  <2> QED
    BY <1>1, <2>1, <2>2, <2>3, <2>4, ChallengeKeeps DEF ChallengePoints
<1>5. CASE Fails("reply") /\ txt' = txt \cup {t} /\ orphan' = orphan \cup {t} /\ Keeps(t, "undo")
  <2>1. left' \in 0..Budget
    BY <1>2, <1>5, LeftStays DEF Publication
  <2>2. /\ artifact' \in [Tasks -> {"none", "created", "cleaned", "needs_attention"}]
        /\ include' \subseteq Tasks /\ txt' \subseteq Tasks /\ orphan' \subseteq Tasks /\ orphan \subseteq orphan'
        /\ \A u \in Tasks \ {t} : /\ artifact'[u] = artifact[u] /\ ((u \in include') <=> (u \in include))
                                /\ ((u \in txt') <=> (u \in txt))
    BY <1>1, <1>2, <1>5
  <2>3. ChallengeAt(t, "undo")'
    BY <1>1, <1>2, <1>5 DEF ChallengeAt, ChallengeIsKnown, NoChallenge, IsOrder,
       EarlyPoints, ChallengePoints, CleanedPoints, MaterialPoints, BindingPoints, CreateTXT
  <2>4. Keeps(t, "undo")
    BY <1>5
  <2> QED
    BY <1>1, <2>1, <2>2, <2>3, <2>4, ChallengeKeeps DEF ChallengePoints
<1> QED
  BY <1>3, <1>4, <1>5 DEF CreateTXT

\* The artifact says that the record is there.
LEMMA OwnTXTKeeps ==
  ASSUME IInv, NEW t \in Tasks, OwnTXT(t)
  PROVE  IInv'
<1>1. at[t] = "recorded" /\ UNCHANGED Uninvolved /\ UNCHANGED <<include, txt, orphan>>
  BY DEF OwnTXT, Uninvolved, rows, world, history
<1>2. /\ TypeOK /\ IsOrder(t) /\ ChallengeAt(t, "recorded") /\ row[t].challenge \in {"http", "dns"}
      /\ artifact \in [Tasks -> {"none", "created", "cleaned", "needs_attention"}]
      /\ include \subseteq Tasks /\ txt \subseteq Tasks /\ orphan \subseteq Tasks /\ row' = row
  BY <1>1, ChallengeFacts DEF ChallengePoints, Uninvolved
<1>3. CASE CallWorks(t) /\ artifact' = [artifact EXCEPT ![t] = "created"] /\ Keeps(t, "provisioned")
  <2>1. left' \in 0..Budget
    BY <1>2, <1>3, LeftStays DEF Publication
  <2>2. /\ artifact' \in [Tasks -> {"none", "created", "cleaned", "needs_attention"}]
        /\ include' \subseteq Tasks /\ txt' \subseteq Tasks /\ orphan' \subseteq Tasks /\ orphan \subseteq orphan'
        /\ \A u \in Tasks \ {t} : /\ artifact'[u] = artifact[u] /\ ((u \in include') <=> (u \in include))
                                /\ ((u \in txt') <=> (u \in txt))
    BY <1>1, <1>2, <1>3
  <2>3. ChallengeAt(t, "provisioned")'
    BY <1>1, <1>2, <1>3 DEF ChallengeAt, ChallengeIsKnown, NoChallenge, IsOrder,
       EarlyPoints, ChallengePoints, CleanedPoints, MaterialPoints, BindingPoints, OwnTXT
  <2>4. Keeps(t, "provisioned")
    BY <1>3
  <2> QED
    BY <1>1, <2>1, <2>2, <2>3, <2>4, ChallengeKeeps DEF ChallengePoints
<1>4. CASE CallFails(t, "store") /\ UNCHANGED artifact /\ Keeps(t, "retract")
  <2>1. left' \in 0..Budget
    BY <1>2, <1>4, LeftStays DEF Publication
  <2>2. /\ artifact' \in [Tasks -> {"none", "created", "cleaned", "needs_attention"}]
        /\ include' \subseteq Tasks /\ txt' \subseteq Tasks /\ orphan' \subseteq Tasks /\ orphan \subseteq orphan'
        /\ \A u \in Tasks \ {t} : /\ artifact'[u] = artifact[u] /\ ((u \in include') <=> (u \in include))
                                /\ ((u \in txt') <=> (u \in txt))
    BY <1>1, <1>2, <1>4
  <2>3. ChallengeAt(t, "retract")'
    BY <1>1, <1>2, <1>4 DEF ChallengeAt, ChallengeIsKnown, NoChallenge, IsOrder,
       EarlyPoints, ChallengePoints, CleanedPoints, MaterialPoints, BindingPoints, OwnTXT
  <2>4. Keeps(t, "retract")
    BY <1>4
  <2> QED
    BY <1>1, <2>1, <2>2, <2>3, <2>4, ChallengeKeeps DEF ChallengePoints
<1> QED
  BY <1>3, <1>4 DEF OwnTXT

\* A record without an artifact is taken back, or ends in doubt.
LEMMA RetractTXTKeeps ==
  ASSUME IInv, NEW t \in Tasks, RetractTXT(t)
  PROVE  IInv'
<1>1. at[t] = "retract" /\ UNCHANGED Uninvolved /\ UNCHANGED <<artifact, include, orphan>>
  BY DEF RetractTXT, Uninvolved, rows, world, history
<1>2. /\ TypeOK /\ IsOrder(t) /\ ChallengeAt(t, "retract") /\ row[t].challenge \in {"http", "dns"}
      /\ artifact \in [Tasks -> {"none", "created", "cleaned", "needs_attention"}]
      /\ include \subseteq Tasks /\ txt \subseteq Tasks /\ orphan \subseteq Tasks /\ row' = row
  BY <1>1, ChallengeFacts DEF ChallengePoints, Uninvolved
<1>3. CASE Works /\ txt' = txt \ {t} /\ Keeps(t, "undo")
  <2>1. left' \in 0..Budget
    BY <1>2, <1>3, LeftStays DEF Publication
  <2>2. /\ artifact' \in [Tasks -> {"none", "created", "cleaned", "needs_attention"}]
        /\ include' \subseteq Tasks /\ txt' \subseteq Tasks /\ orphan' \subseteq Tasks /\ orphan \subseteq orphan'
        /\ \A u \in Tasks \ {t} : /\ artifact'[u] = artifact[u] /\ ((u \in include') <=> (u \in include))
                                /\ ((u \in txt') <=> (u \in txt))
    BY <1>1, <1>2, <1>3
  <2>3. ChallengeAt(t, "undo")'
    BY <1>1, <1>2, <1>3 DEF ChallengeAt, ChallengeIsKnown, NoChallenge, IsOrder,
       EarlyPoints, ChallengePoints, CleanedPoints, MaterialPoints, BindingPoints, RetractTXT
  <2>4. Keeps(t, "undo")
    BY <1>3
  <2> QED
    BY <1>1, <2>1, <2>2, <2>3, <2>4, ChallengeKeeps DEF ChallengePoints
<1>4. CASE Fails("dns") /\ UNCHANGED txt /\ Keeps(t, "doubt")
  <2>1. left' \in 0..Budget
    BY <1>2, <1>4, LeftStays DEF Publication
  <2>2. /\ artifact' \in [Tasks -> {"none", "created", "cleaned", "needs_attention"}]
        /\ include' \subseteq Tasks /\ txt' \subseteq Tasks /\ orphan' \subseteq Tasks /\ orphan \subseteq orphan'
        /\ \A u \in Tasks \ {t} : /\ artifact'[u] = artifact[u] /\ ((u \in include') <=> (u \in include))
                                /\ ((u \in txt') <=> (u \in txt))
    BY <1>1, <1>2, <1>4
  <2>3. ChallengeAt(t, "doubt")'
    BY <1>1, <1>2, <1>4 DEF ChallengeAt, ChallengeIsKnown, NoChallenge, IsOrder,
       EarlyPoints, ChallengePoints, CleanedPoints, MaterialPoints, BindingPoints, RetractTXT
  <2>4. Keeps(t, "doubt")
    BY <1>4
  <2> QED
    BY <1>1, <2>1, <2>2, <2>3, <2>4, ChallengeKeeps DEF ChallengePoints
<1> QED
  BY <1>3, <1>4 DEF RetractTXT

\* The artifact of an HTTP challenge comes before the challenge.
LEMMA OwnIncludeKeeps ==
  ASSUME IInv, NEW t \in Tasks, OwnInclude(t)
  PROVE  IInv'
<1>1. at[t] = "provision" /\ UNCHANGED Uninvolved /\ row[t].challenge = "http" /\ UNCHANGED <<include, txt, orphan>>
  BY DEF OwnInclude, Uninvolved, rows, world, history
<1>2. /\ TypeOK /\ IsOrder(t) /\ ChallengeAt(t, "provision") /\ row[t].challenge \in {"http", "dns"}
      /\ artifact \in [Tasks -> {"none", "created", "cleaned", "needs_attention"}]
      /\ include \subseteq Tasks /\ txt \subseteq Tasks /\ orphan \subseteq Tasks /\ row' = row
  BY <1>1, ChallengeFacts DEF ChallengePoints, Uninvolved
<1>3. CASE CallWorks(t) /\ artifact' = [artifact EXCEPT ![t] = "created"] /\ Keeps(t, "claimed")
  <2>1. left' \in 0..Budget
    BY <1>2, <1>3, LeftStays DEF Publication
  <2>2. /\ artifact' \in [Tasks -> {"none", "created", "cleaned", "needs_attention"}]
        /\ include' \subseteq Tasks /\ txt' \subseteq Tasks /\ orphan' \subseteq Tasks /\ orphan \subseteq orphan'
        /\ \A u \in Tasks \ {t} : /\ artifact'[u] = artifact[u] /\ ((u \in include') <=> (u \in include))
                                /\ ((u \in txt') <=> (u \in txt))
    BY <1>1, <1>2, <1>3
  <2>3. ChallengeAt(t, "claimed")'
    BY <1>1, <1>2, <1>3 DEF ChallengeAt, ChallengeIsKnown, NoChallenge, IsOrder,
       EarlyPoints, ChallengePoints, CleanedPoints, MaterialPoints, BindingPoints, OwnInclude
  <2>4. Keeps(t, "claimed")
    BY <1>3
  <2> QED
    BY <1>1, <2>1, <2>2, <2>3, <2>4, ChallengeKeeps DEF ChallengePoints
<1>4. CASE CallFails(t, "store") /\ UNCHANGED artifact /\ Keeps(t, "undo")
  <2>1. left' \in 0..Budget
    BY <1>2, <1>4, LeftStays DEF Publication
  <2>2. /\ artifact' \in [Tasks -> {"none", "created", "cleaned", "needs_attention"}]
        /\ include' \subseteq Tasks /\ txt' \subseteq Tasks /\ orphan' \subseteq Tasks /\ orphan \subseteq orphan'
        /\ \A u \in Tasks \ {t} : /\ artifact'[u] = artifact[u] /\ ((u \in include') <=> (u \in include))
                                /\ ((u \in txt') <=> (u \in txt))
    BY <1>1, <1>2, <1>4
  <2>3. ChallengeAt(t, "undo")'
    BY <1>1, <1>2, <1>4 DEF ChallengeAt, ChallengeIsKnown, NoChallenge, IsOrder,
       EarlyPoints, ChallengePoints, CleanedPoints, MaterialPoints, BindingPoints, OwnInclude
  <2>4. Keeps(t, "undo")
    BY <1>4
  <2> QED
    BY <1>1, <2>1, <2>2, <2>3, <2>4, ChallengeKeeps DEF ChallengePoints
<1> QED
  BY <1>3, <1>4 DEF OwnInclude

\* The release that puts an HTTP challenge into production.
LEMMA PublishIncludeKeeps ==
  ASSUME IInv, NEW t \in Tasks, PublishInclude(t)
  PROVE  IInv'
<1>1. at[t] = "claimed" /\ UNCHANGED Uninvolved /\ UNCHANGED <<artifact, txt, orphan>>
  BY DEF PublishInclude, Uninvolved, rows, world, history
<1>2. /\ TypeOK /\ IsOrder(t) /\ ChallengeAt(t, "claimed") /\ row[t].challenge \in {"http", "dns"}
      /\ artifact \in [Tasks -> {"none", "created", "cleaned", "needs_attention"}]
      /\ include \subseteq Tasks /\ txt \subseteq Tasks /\ orphan \subseteq Tasks /\ row' = row
  BY <1>1, ChallengeFacts DEF ChallengePoints, Uninvolved
<1>3. CASE Publication(t, "published") /\ include' = include \cup {t} /\ Keeps(t, "provisioned")
  <2>1. left' \in 0..Budget
    BY <1>2, <1>3, LeftStays DEF Publication
  <2>2. /\ artifact' \in [Tasks -> {"none", "created", "cleaned", "needs_attention"}]
        /\ include' \subseteq Tasks /\ txt' \subseteq Tasks /\ orphan' \subseteq Tasks /\ orphan \subseteq orphan'
        /\ \A u \in Tasks \ {t} : /\ artifact'[u] = artifact[u] /\ ((u \in include') <=> (u \in include))
                                /\ ((u \in txt') <=> (u \in txt))
    BY <1>1, <1>2, <1>3
  <2>3. ChallengeAt(t, "provisioned")'
    BY <1>1, <1>2, <1>3 DEF ChallengeAt, ChallengeIsKnown, NoChallenge, IsOrder,
       EarlyPoints, ChallengePoints, CleanedPoints, MaterialPoints, BindingPoints, PublishInclude
  <2>4. Keeps(t, "provisioned")
    BY <1>3
  <2> QED
    BY <1>1, <2>1, <2>2, <2>3, <2>4, ChallengeKeeps DEF ChallengePoints
<1>4. CASE Publication(t, "refused") /\ UNCHANGED include /\ Keeps(t, "undo")
  <2>1. left' \in 0..Budget
    BY <1>2, <1>4, LeftStays DEF Publication
  <2>2. /\ artifact' \in [Tasks -> {"none", "created", "cleaned", "needs_attention"}]
        /\ include' \subseteq Tasks /\ txt' \subseteq Tasks /\ orphan' \subseteq Tasks /\ orphan \subseteq orphan'
        /\ \A u \in Tasks \ {t} : /\ artifact'[u] = artifact[u] /\ ((u \in include') <=> (u \in include))
                                /\ ((u \in txt') <=> (u \in txt))
    BY <1>1, <1>2, <1>4
  <2>3. ChallengeAt(t, "undo")'
    BY <1>1, <1>2, <1>4 DEF ChallengeAt, ChallengeIsKnown, NoChallenge, IsOrder,
       EarlyPoints, ChallengePoints, CleanedPoints, MaterialPoints, BindingPoints, PublishInclude
  <2>4. Keeps(t, "undo")
    BY <1>4
  <2> QED
    BY <1>1, <2>1, <2>2, <2>3, <2>4, ChallengeKeeps DEF ChallengePoints
<1>5. CASE Publication(t, "doubt") /\ include' \in {include, include \cup {t}} /\ Keeps(t, "undo")
  <2>1. left' \in 0..Budget
    BY <1>2, <1>5, LeftStays DEF Publication
  <2>2. /\ artifact' \in [Tasks -> {"none", "created", "cleaned", "needs_attention"}]
        /\ include' \subseteq Tasks /\ txt' \subseteq Tasks /\ orphan' \subseteq Tasks /\ orphan \subseteq orphan'
        /\ \A u \in Tasks \ {t} : /\ artifact'[u] = artifact[u] /\ ((u \in include') <=> (u \in include))
                                /\ ((u \in txt') <=> (u \in txt))
    BY <1>1, <1>2, <1>5
  <2>3. ChallengeAt(t, "undo")'
    BY <1>1, <1>2, <1>5 DEF ChallengeAt, ChallengeIsKnown, NoChallenge, IsOrder,
       EarlyPoints, ChallengePoints, CleanedPoints, MaterialPoints, BindingPoints, PublishInclude
  <2>4. Keeps(t, "undo")
    BY <1>5
  <2> QED
    BY <1>1, <2>1, <2>2, <2>3, <2>4, ChallengeKeeps DEF ChallengePoints
<1> QED
  BY <1>3, <1>4, <1>5 DEF PublishInclude

\* A cleanup that works leaves nothing of a challenge that was known.
LEMMA CleanedUp ==
  ASSUME TypeOK, NEW t \in Tasks, NEW point, CleansUp(t), ChallengeIsKnown(t, point), orphan' = orphan,
         row[t].challenge \in {"http", "dns"}, point \notin {"recorded", "retract", "doubt"}
  PROVE  /\ NoChallenge(t)' /\ left' \in 0..Budget
         /\ artifact' \in [Tasks -> {"none", "created", "cleaned", "needs_attention"}]
         /\ include' \subseteq Tasks /\ txt' \subseteq Tasks
         /\ \A u \in Tasks \ {t} : /\ artifact'[u] = artifact[u] /\ ((u \in include') <=> (u \in include))
                                   /\ ((u \in txt') <=> (u \in txt))
<1>1. /\ artifact \in [Tasks -> {"none", "created", "cleaned", "needs_attention"}]
      /\ include \subseteq Tasks /\ txt \subseteq Tasks /\ left' \in 0..Budget
      /\ artifact[t] # "needs_attention"
  BY LeftStays DEF TypeOK, CleansUp
<1>2. CASE artifact[t] = "created"
  <2>1. RemoveChallenge(t) /\ artifact' = [artifact EXCEPT ![t] = "cleaned"]
    BY <1>2 DEF CleansUp
  <2>2. /\ include' = include \/ include' = include \ {t}
        /\ txt' = txt \/ txt' = txt \ {t}
        /\ row[t].challenge = "http" => include' = include \ {t} /\ txt' = txt
        /\ row[t].challenge = "dns" => txt' = txt \ {t} /\ include' = include
    BY <2>1 DEF RemoveChallenge
  <2> QED
    BY <1>1, <1>2, <2>1, <2>2 DEF NoChallenge, ChallengeIsKnown
<1>3. CASE artifact[t] # "created"
  <2>1. UNCHANGED <<artifact, include, txt>>
    BY <1>3 DEF CleansUp
  <2>2. artifact[t] \in {"none", "cleaned"}
    BY <1>1, <1>3
  <2> QED
    BY <1>1, <1>3, <2>1, <2>2 DEF NoChallenge, ChallengeIsKnown
<1> QED
  BY <1>2, <1>3

\* A cleanup that breaks forgets nothing of it.
LEMMA CleanupBroken ==
  ASSUME TypeOK, NEW t \in Tasks, NEW point, CleanupBreaks(t), ChallengeIsKnown(t, point), orphan' = orphan,
         row' = row \/ ~IsActive(t)', row[t].challenge \in {"http", "dns"}
  PROVE  /\ row' = row => ChallengeIsKnown(t, point)'
         /\ left' \in 0..Budget
         /\ artifact' \in [Tasks -> {"none", "created", "cleaned", "needs_attention"}]
         /\ include' \subseteq Tasks /\ txt' \subseteq Tasks
         /\ \A u \in Tasks \ {t} : /\ artifact'[u] = artifact[u] /\ ((u \in include') <=> (u \in include))
                                   /\ ((u \in txt') <=> (u \in txt))
<1>1. /\ artifact \in [Tasks -> {"none", "created", "cleaned", "needs_attention"}]
      /\ include \subseteq Tasks /\ txt \subseteq Tasks
  BY DEF TypeOK
<1>2. left' \in 0..Budget
  <2>1. Works \/ Fails("dns") \/ Fails("store") \/ Fails("release") \/ Fails("doubt")
    BY DEF CleanupBreaks, CleanupDNSBreaks, CleanupHTTPBreaks
  <2> QED
    BY <2>1 DEF TypeOK, Works, Fails
<1>3. /\ include' = include \/ include' = include \ {t}
      /\ txt' = txt \/ txt' = txt \ {t}
      /\ \/ artifact' = artifact
         \/ /\ artifact' = [artifact EXCEPT ![t] = "needs_attention"] /\ row[t].challenge = "http" /\ txt' = txt
            /\ artifact[t] = "created"
  BY <1>1 DEF CleanupBreaks, CleanupDNSBreaks, CleanupHTTPBreaks, RemoveChallenge
<1>4. /\ artifact' \in [Tasks -> {"none", "created", "cleaned", "needs_attention"}]
      /\ \A u \in Tasks \ {t} : artifact'[u] = artifact[u]
      /\ artifact' = artifact \/ artifact'[t] = "needs_attention"
  BY <1>1, <1>3
<1>5. row' = row => ChallengeIsKnown(t, point)'
  BY <1>3, <1>4 DEF ChallengeIsKnown
<1> QED
  BY <1>1, <1>2, <1>3, <1>4, <1>5

\* Cleanup, after the authorization or before the failure.
LEMMA CleanUpKeeps ==
  ASSUME IInv, NEW t \in Tasks, CleanUp(t)
  PROVE  IInv'
<1>1. /\ at[t] \in {"undo", "cleaning"} /\ UNCHANGED Uninvolved /\ orphan' = orphan /\ row' = row
  BY DEF CleanUp, Uninvolved, history
<1>2. /\ TypeOK /\ IsOrder(t) /\ ChallengeAt(t, at[t]) /\ row[t].challenge \in {"http", "dns"}
      /\ orphan \subseteq Tasks
  BY <1>1, ChallengeFacts DEF ChallengePoints
<1>3. ASSUME NEW from \in {"undo", "cleaning"}, at[t] = from, CleansUp(t),
             NEW point \in {"failing", "cleaned"}, Keeps(t, point)
      PROVE  IInv'
  <2>1. ChallengeIsKnown(t, from)
    BY <1>2, <1>3 DEF ChallengeAt
  <2>2. /\ NoChallenge(t)' /\ left' \in 0..Budget
        /\ artifact' \in [Tasks -> {"none", "created", "cleaned", "needs_attention"}]
        /\ include' \subseteq Tasks /\ txt' \subseteq Tasks
        /\ \A u \in Tasks \ {t} : /\ artifact'[u] = artifact[u] /\ ((u \in include') <=> (u \in include))
                                  /\ ((u \in txt') <=> (u \in txt))
    BY <1>1, <1>2, <1>3, <2>1, CleanedUp
  <2>3. ChallengeAt(t, point)'
    BY <2>2, <1>1 DEF ChallengeAt, ChallengeIsKnown, NoChallenge, EarlyPoints
  <2> QED
    BY <1>1, <1>2, <1>3, <2>2, <2>3, ChallengeKeeps DEF ChallengePoints
<1>4. ASSUME NEW from \in {"undo", "cleaning"}, at[t] = from, CleanupBreaks(t), Keeps(t, "doubt")
      PROVE  IInv'
  <2>1. ChallengeIsKnown(t, from)
    BY <1>2, <1>4 DEF ChallengeAt
  <2>2. /\ ChallengeIsKnown(t, from)' /\ left' \in 0..Budget
        /\ artifact' \in [Tasks -> {"none", "created", "cleaned", "needs_attention"}]
        /\ include' \subseteq Tasks /\ txt' \subseteq Tasks
        /\ \A u \in Tasks \ {t} : /\ artifact'[u] = artifact[u] /\ ((u \in include') <=> (u \in include))
                                  /\ ((u \in txt') <=> (u \in txt))
    BY <1>1, <1>2, <1>4, <2>1, CleanupBroken
  <2>3. ChallengeAt(t, "doubt")'
    BY <1>1, <1>2, <2>2 DEF ChallengeAt, ChallengeIsKnown, IsOrder, EarlyPoints, CleanedPoints, MaterialPoints,
       BindingPoints
  <2> QED
    BY <1>1, <1>2, <1>4, <2>2, <2>3, ChallengeKeeps DEF ChallengePoints
<1>5. CASE CleansUp(t) /\ Keeps(t, IF at[t] = "undo" THEN "failing" ELSE "cleaned")
  BY <1>1, <1>3, <1>5
<1>6. CASE CleanupBreaks(t) /\ Keeps(t, "doubt")
  BY <1>1, <1>4, <1>6
<1> QED
  BY <1>5, <1>6 DEF CleanUp

-------------------------------------------------------------------------------
(* Material. *)

\* A step that changes only whether the version of an order is in the vault.
LEMMA MaterialKeeps ==
  ASSUME IInv, NEW t \in Tasks, NEW from \in {"validating", "discard", "abandon"},
         NEW point \in {"stored", "failing", "doubt", "none"},
         at[t] = from, Keeps(t, point) \/ (point = "none" /\ Returns(t)), left' \in 0..Budget,
         UNCHANGED <<rows, world, ui, requests, history>>,
         vault' \in {vault, vault \cup {t}, vault \ {t}},
         point = "stored" => t \in vault', point = "failing" => t \notin vault'
  PROVE  IInv'
<1>1. IsOrder(t) /\ at[t] # "none"
  BY OrderAt DEF OrderPoints, MaterialPoints
<1>2. TypeOK /\ RowTypeOK /\ VersionAt(t, from) /\ ChallengeAt(t, from)
  BY <1>1, TaskFacts
<1>3. /\ UNCHANGED <<row, artifact, include, txt, orphan, served, damaged>>
      /\ UNCHANGED <<item, served, edits, ui, requests, drift, damaged>>
  BY DEF rows, world, history
<1>4. SameTasks
  BY <1>2, <1>3, RowsStay
<1>5. /\ KindAt(t, point) /\ PublishedAt(t, point) /\ ChallengeAt(t, point)
      /\ served[CertOf(t)] # t
  BY <1>1, <1>2 DEF VersionAt, KindAt, PublishedAt, ChallengeAt, ChallengeIsKnown, NoChallenge, EarlyPoints,
     ChallengePoints, CleanedPoints, MaterialPoints, BindingPoints, OrderPoints
<1>6. VersionAt(t, point)'
  BY <1>3, <1>5 DEF VersionAt, CertOf, EarlyPoints, ChallengePoints, CleanedPoints
<1>7. ChallengeAt(t, point)'
  BY <1>3, <1>5 DEF ChallengeAt, ChallengeIsKnown, NoChallenge, IsOrder
<1>8. OnlyOf(t)
  BY <1>1, <1>2, <1>3 DEF OnlyOf, TypeOK
<1>9. at' = [at EXCEPT ![t] = point] /\ gone' \subseteq Tasks
  BY <1>2 DEF Keeps, Returns, GoTo, TypeOK
<1>10. Moves(t, point) /\ point \in Points
  BY <1>3, <1>4, <1>8, <1>9 DEF Moves, Points
<1> QED
  BY <1>1, <1>5, <1>6, <1>7, <1>10, MoveKeeps

\* The version is stored in the vault.
LEMMA StoreCertificateVersionKeeps ==
  ASSUME IInv, NEW t \in Tasks, StoreCertificateVersion(t)
  PROVE  IInv'
<1>1. left' \in 0..Budget
  BY LeftStays DEF StoreCertificateVersion, IInv
<1> QED
  BY <1>1, MaterialKeeps DEF StoreCertificateVersion

\* A version without a deployment is deleted, or stays behind.
LEMMA AbandonKeeps ==
  ASSUME IInv, NEW t \in Tasks, Abandon(t)
  PROVE  IInv'
<1>1. left' \in 0..Budget
  BY LeftStays DEF Abandon, IInv
<1> QED
  BY <1>1, MaterialKeeps DEF Abandon

\* A version that production has refused is deleted, or the task ends in doubt.
LEMMA DiscardKeeps ==
  ASSUME IInv, NEW t \in Tasks, Discard(t)
  PROVE  IInv'
<1>1. left' \in 0..Budget
  BY LeftStays DEF Discard, IInv
<1>2. at[t] = "discard" /\ UNCHANGED <<rows, world, ui, requests, history>>
  BY DEF Discard
<1>3. CASE vault' = vault \ {t} /\ Keeps(t, "failing")
  BY <1>1, <1>2, <1>3, MaterialKeeps
<1>4. CASE vault' = vault /\ Keeps(t, "doubt")
  BY <1>1, <1>2, <1>4, MaterialKeeps
<1> QED
  BY <1>3, <1>4 DEF Discard

-------------------------------------------------------------------------------
(* Publications. *)

\* A publication of t, or its want of a transaction: only what its certificate is served, its point
\* and the drift change, and served and bound come apart for a cause.
Publishes(t, point) ==
  /\ at' = [at EXCEPT ![t] = point] /\ gone' = gone /\ left' \in 0..Budget
  /\ UNCHANGED <<rows, vault, include, txt, edits, ui, requests, orphan, damaged>>
  /\ served' \in {served, [served EXCEPT ![CertOf(t)] = VersionOf(t)]}
  /\ drift' \in {drift, drift \cup {CertOf(t)}}
  /\ CertOf(t) \in drift' \/ (point \in {"deployed", "bound"} /\ row[t].bound)

\* A publication keeps the invariant, if the task may be where it goes.
LEMMA PublishesKeeps ==
  ASSUME IInv, NEW t \in Tasks, NEW point \in {"deployed", "bound", "doubt"}, Publishes(t, point),
         at[t] \in {"deploying", "binding", "deployed", "bound"},
         KindAt(t, point), PublishedAt(t, point)', point = "bound" => at[t] = "binding",
         served' # served => at[t] \in {"deploying", "binding"},
         point = "deployed" => at[t] = "deploying"
  PROVE  IInv'
<1>1. /\ TypeOK /\ RowTypeOK /\ IsActive(t) /\ CertOf(t) \in Certs /\ row[t].state # "none"
      /\ KindAt(t, at[t]) /\ ChallengeAt(t, at[t]) /\ (IsOrder(t) => VersionAt(t, at[t]))
  BY TaskFacts
<1>2. /\ UNCHANGED <<row, item, artifact, vault, include, txt, edits, ui, inquiry, asked, unbinding, removal, orphan, damaged>>
      /\ at' \in [Tasks -> Points] /\ at'[t] = point /\ \A u \in Tasks \ {t} : at'[u] = at[u]
  BY <1>1 DEF Publishes, rows, requests, TypeOK, Points
<1>3. SameTasks
  BY <1>1, <1>2, RowsStay
<1>4. VersionOf(t) \in VersionsOf(CertOf(t)) \cup {NoVersion}
  BY <1>1 DEF VersionOf, VersionsOf, IInv, ItemsNameTheirOwn, CertOf
<1>5. /\ \A c \in Certs : VersionsOf(c)' = VersionsOf(c)
      /\ \A u \in Tasks : /\ CertOf(u)' = CertOf(u) /\ IsOrder(u)' = IsOrder(u) /\ IsActive(u)' = IsActive(u)
                          /\ row'[u].bound = row[u].bound /\ row'[u].kind = row[u].kind
                          /\ row'[u].state = row[u].state
  BY <1>2 DEF CertOf, IsOrder, IsActive, VersionsOf
<1>6. VersionOf(t) \in Versions \cup {NoVersion}
  BY <1>1, <1>4 DEF VersionsOf, Versions
<1>7. /\ served \in [Certs -> Versions \cup {NoVersion}] /\ served' \in [Certs -> Versions \cup {NoVersion}]
      /\ \A c \in Certs \ {CertOf(t)} : served'[c] = served[c]
      /\ \/ served'[CertOf(t)] = served[CertOf(t)]
         \/ served'[CertOf(t)] = VersionOf(t) /\ at[t] \in {"deploying", "binding"}
      /\ drift \subseteq drift' /\ drift' \subseteq Certs
  <2>1. served \in [Certs -> Versions \cup {NoVersion}] /\ drift \subseteq Certs
    BY <1>1 DEF TypeOK
  <2>2. CASE served' = served
    BY <2>1, <2>2, <1>1 DEF Publishes
  <2>3. CASE served' = [served EXCEPT ![CertOf(t)] = VersionOf(t)] /\ at[t] \in {"deploying", "binding"}
    BY <2>1, <2>3, <1>1, <1>6 DEF Publishes
  <2> QED
    BY <2>2, <2>3 DEF Publishes
<1>8. \A u \in Tasks : u # t /\ CertOf(u) = CertOf(t) => ~IsActive(u) /\ at[u] = "none"
  BY <1>1 DEF IInv, OneActive, OwnedAreActive
<1>9. item[CertOf(t)].state # "deleted"
  BY <1>1 DEF IInv, DeletedIsGone, ActiveTasks, IsActive
<1>10. at[t] \in {"deploying", "binding"} => VersionOf(t) \in vault \cup damaged \/ VersionOf(t) = NoVersion
  <2>1. CASE at[t] = "deploying"
    BY <2>1, <1>1 DEF KindAt, VersionAt, VersionOf, IsOrder, OrderPoints, MaterialPoints
  <2>2. CASE at[t] = "binding"
    BY <2>2, <1>1 DEF KindAt, VersionOf, IsOrder, BindingPoints, IInv, ActiveIsStored
  <2> QED
    BY <2>1, <2>2
<1>11. \A u \in Tasks : IsTask(row[u])'
  BY <1>1, <1>2 DEF TypeOK
<1>12. ASSUME NEW u \in Tasks \ {t}, at[u] # "none"
       PROVE  IsActive(u) /\ CertOf(u) \in Certs \ {CertOf(t)} /\ served'[CertOf(u)] = served[CertOf(u)]
  BY <1>7, <1>8, <1>12, TaskFacts
<1>13. ASSUME NEW u \in Tasks \ {t}
       PROVE  PublishedAt(u, at[u])'
  <2>1. PublishedAt(u, at[u])
    BY DEF IInv, PublishedIsServed
  <2> QED
    BY <1>2, <1>5, <1>12, <2>1 DEF PublishedAt
<1>14. PublishedAt(t, at[t])'
  BY <1>2 DEF PublishedAt, CertOf
<1>15. ASSUME NEW u \in Tasks \ {t}, IsActive(u), IsOrder(u)
       PROVE  VersionAt(u, at[u])'
  <2>1. VersionAt(u, at[u])
    BY <1>15 DEF IInv, VersionAtPoint
  <2>2. CertOf(u) \in Certs \ {CertOf(t)}
    BY <1>1, <1>8, <1>15, RowFacts DEF IsActive, Active, CertOf
  <2> QED
    BY <1>2, <1>5, <1>7, <2>1, <2>2 DEF VersionAt
<1>16. IsOrder(t) => VersionAt(t, at[t])'
  <2>1. IsOrder(t) => point # "bound" /\ (point = "deployed" => t \in vault \cup damaged)
    BY <1>1 DEF KindAt, BindingPoints, VersionAt
  <2> QED
    BY <1>2, <2>1 DEF VersionAt, EarlyPoints, ChallengePoints, CleanedPoints
<1>17. TypeOK'
  BY <1>1, <1>2, <1>7, <1>11 DEF Publishes, TypeOK
<1>18. RowTypeOK'
  BY <1>3 DEF SameTasks
<1>19. OwnedAreActive'
  BY <1>1, <1>2, <1>5 DEF IInv, OwnedAreActive
<1>20. OneActive'
  BY <1>5 DEF IInv, OneActive
<1>21. KindAtPoint'
  BY <1>1, <1>2, <1>5 DEF IInv, KindAtPoint, KindAt
<1>22. BoundAsAsked'
  BY <1>2, <1>5 DEF IInv, BoundAsAsked
<1>23. ItemsNameTheirOwn'
  BY <1>2, <1>5 DEF IInv, ItemsNameTheirOwn
<1>24. RequestsHold'
  BY <1>2, <1>7 DEF IInv, RequestsHold
<1>25. ActiveIsStored'
  BY <1>2 DEF IInv, ActiveIsStored
<1>26. ServedIsOwn'
  BY <1>1, <1>4, <1>5, <1>7 DEF IInv, ServedIsOwn
<1>27. ServedIsStored'
  BY <1>2, <1>7, <1>10 DEF IInv, ServedIsStored
<1>28. DriftHasTask'
  BY <1>1, <1>2, <1>5, <1>7 DEF IInv, DriftHasTask, Publishes
<1>29. DeletedIsGone'
  BY <1>2, <1>5, <1>7, <1>9 DEF IInv, DeletedIsGone, ActiveTasks
<1>30. PublishedIsServed'
  BY <1>13, <1>14 DEF PublishedIsServed
<1>31. OrderIsNew'
  BY <1>2, <1>5 DEF IInv, OrderIsNew
<1>32. VersionAtPoint'
  BY <1>5, <1>15, <1>16 DEF VersionAtPoint
<1>33. ChallengeAtPoint'
  BY <1>1, <1>2, <1>5 DEF IInv, ChallengeAtPoint, ChallengeAt, ChallengeIsKnown, NoChallenge, EarlyPoints,
     CleanedPoints, MaterialPoints, BindingPoints, KindAt, OrderPoints, IsOrder
<1>34. OverIsClean'
  BY <1>2, <1>5 DEF IInv, OverIsClean, NoChallenge
<1> QED
  BY <1>17, <1>18, <1>19, <1>20, <1>21, <1>22, <1>23, <1>24, <1>25, <1>26, <1>27, <1>28, <1>29, <1>30, <1>31,
     <1>32, <1>33, <1>34 DEF IInv

\* The release of the version of an order.
LEMMA PublishVersionKeeps ==
  ASSUME IInv, NEW t \in Tasks, PublishVersion(t)
  PROVE  IInv'
<1>1. /\ at[t] = "deploying" /\ UNCHANGED <<rows, vault, include, txt, edits, ui, requests, orphan, damaged>>
      /\ IsOrder(t) /\ VersionOf(t) = t /\ TypeOK /\ CertOf(t) \in Certs /\ row[t].bound \in BOOLEAN
  BY OrderAt, TaskFacts DEF PublishVersion, OrderPoints, MaterialPoints, VersionOf, IsOrder
<1>2. /\ Follows(t, "deploying", "discard") /\ KindAt(t, "deployed") /\ KindAt(t, "doubt")
      /\ ~row[t].bound => Follows(t, "deploying", "deployed")
  BY <1>1 DEF Follows, KindAt, PublishedAt, VersionAt, ChallengeAt, ChallengeIsKnown, NoChallenge,
     EarlyPoints, ChallengePoints, CleanedPoints, MaterialPoints, BindingPoints, OrderPoints
<1>3. CASE ~row[t].bound /\ Works /\ Keeps(t, "deployed") /\ UNCHANGED <<served, drift>>
  BY <1>1, <1>2, <1>3, GoesKeeps DEF Points, world, history
<1>4. CASE row[t].bound /\ Publication(t, "published") /\ Keeps(t, "deployed") /\ UNCHANGED drift
           /\ served' = [served EXCEPT ![CertOf(t)] = t]
  <2>1. left' \in 0..Budget
    BY <1>1, <1>4, LeftStays DEF Publication
  <2>2. Publishes(t, "deployed")
    BY <1>1, <1>4, <2>1 DEF Publishes, Keeps, GoTo
  <2>3. PublishedAt(t, "deployed")'
    BY <1>1, <1>4 DEF PublishedAt, CertOf, TypeOK, rows
  <2> QED
    BY <1>1, <1>2, <2>2, <2>3, PublishesKeeps
<1>5. CASE row[t].bound /\ Keeps(t, "discard") /\ UNCHANGED <<served, drift>>
           /\ ((~PlanHolds(t) /\ Works) \/ Publication(t, "refused"))
  <2>1. Works \/ CallFails(t, "release")
    BY <1>5 DEF Publication
  <2> QED
    BY <1>1, <1>2, <1>5, <2>1, GoesKeeps DEF Points, world, history
<1>6. CASE row[t].bound /\ Publication(t, "doubt") /\ Keeps(t, "doubt") /\ drift' = drift \cup {CertOf(t)}
           /\ served' \in {served, [served EXCEPT ![CertOf(t)] = t]}
  <2>1. left' \in 0..Budget
    BY <1>1, <1>6, LeftStays DEF Publication
  <2>2. Publishes(t, "doubt")
    BY <1>1, <1>6, <2>1 DEF Publishes, Keeps, GoTo
  <2>3. PublishedAt(t, "doubt")'
    BY DEF PublishedAt
  <2> QED
    BY <1>1, <1>2, <2>2, <2>3, PublishesKeeps
<1> QED
  BY <1>3, <1>4, <1>5, <1>6 DEF PublishVersion

\* The release of a binding.
LEMMA PublishBindingKeeps ==
  ASSUME IInv, NEW t \in Tasks, PublishBinding(t)
  PROVE  IInv'
<1> DEFINE bound == [served EXCEPT ![CertOf(t)] = VersionOf(t)]
<1>1. /\ at[t] = "binding" /\ UNCHANGED <<rows, vault, include, txt, edits, ui, requests, orphan, damaged>>
      /\ TypeOK /\ CertOf(t) \in Certs /\ IsActive(t) /\ KindAt(t, "binding")
  BY TaskFacts DEF PublishBinding
<1>2. ~IsOrder(t) /\ VersionOf(t) = item[CertOf(t)].version /\ row[t].bound
  BY <1>1 DEF KindAt, BindingPoints, VersionOf, IsOrder, IInv, BoundAsAsked
<1>3. /\ Follows(t, "binding", "doubt") /\ Follows(t, "binding", "failing") /\ KindAt(t, "bound") /\ KindAt(t, "doubt")
  BY <1>2 DEF Follows, KindAt, PublishedAt, VersionAt, ChallengeAt, ChallengeIsKnown, NoChallenge,
     EarlyPoints, ChallengePoints, CleanedPoints, MaterialPoints, BindingPoints, OrderPoints
<1>4. CASE Publication(t, "published") /\ Keeps(t, "bound") /\ served' = bound /\ UNCHANGED drift
  <2>1. left' \in 0..Budget
    BY <1>1, <1>4, LeftStays DEF Publication
  <2>2. Publishes(t, "bound")
    BY <1>1, <1>2, <1>4, <2>1 DEF Publishes, Keeps, GoTo
  <2>3. PublishedAt(t, "bound")'
    BY <1>1, <1>2, <1>4 DEF PublishedAt, CertOf, TypeOK, rows
  <2> QED
    BY <1>1, <1>3, <2>2, <2>3, PublishesKeeps
<1>5. CASE Publication(t, "published") /\ Keeps(t, "doubt") /\ UNCHANGED <<served, drift>>
  <2>1. CallWorks(t)
    BY <1>5 DEF Publication
  <2> QED
    BY <1>1, <1>3, <1>5, <2>1, GoesKeeps DEF Points, world, history
<1>6. CASE Keeps(t, "failing") /\ UNCHANGED <<served, drift>> /\ ((~PlanHolds(t) /\ Works) \/ Publication(t, "refused"))
  <2>1. Works \/ CallFails(t, "release")
    BY <1>6 DEF Publication
  <2> QED
    BY <1>1, <1>3, <1>6, <2>1, GoesKeeps DEF Points, world, history
<1>7. CASE Publication(t, "doubt") /\ Keeps(t, "doubt") /\ drift' = drift \cup {CertOf(t)} /\ served' \in {served, bound}
  <2>1. left' \in 0..Budget
    BY <1>1, <1>7, LeftStays DEF Publication
  <2>2. Publishes(t, "doubt")
    BY <1>1, <1>7, <2>1 DEF Publishes, Keeps, GoTo
  <2>3. PublishedAt(t, "doubt")'
    BY DEF PublishedAt
  <2> QED
    BY <1>1, <1>3, <2>2, <2>3, PublishesKeeps
<1> QED
  BY <1>4, <1>5, <1>6, <1>7 DEF PublishBinding

\* A publication whose rows do not follow ends in doubt.
LEMMA DoubtsKeeps ==
  ASSUME IInv, NEW t \in Tasks, at[t] \in {"deployed", "bound"}, Keeps(t, "doubt"),
         NEW what, Works \/ Fails(what) \/ CallFails(t, what),
         UNCHANGED <<rows, vault, world, ui, requests, orphan, damaged>>,
         drift' = IF row[t].bound THEN drift \cup {CertOf(t)} ELSE drift
  PROVE  IInv'
<1>1. TypeOK /\ CertOf(t) \in Certs /\ IsActive(t) /\ left' \in 0..Budget /\ KindAt(t, at[t])
  BY TaskFacts, LeftStays
<1>2. CASE row[t].bound
  <2>1. Publishes(t, "doubt")
    BY <1>1, <1>2 DEF Publishes, Keeps, GoTo, world
  <2>2. PublishedAt(t, "doubt")' /\ KindAt(t, "doubt") /\ served' = served
    BY DEF PublishedAt, KindAt, BindingPoints, OrderPoints, ChallengePoints, MaterialPoints, world
  <2> QED
    BY <2>1, <2>2, PublishesKeeps
<1>3. CASE ~row[t].bound
  <2>1. at[t] = "deployed"
    BY <1>1, <1>3 DEF KindAt, BindingPoints, IsOrder, IInv, BoundAsAsked
  <2>2. Follows(t, "deployed", "doubt")
    BY <1>3 DEF Follows, KindAt, PublishedAt, VersionAt, ChallengeAt, ChallengeIsKnown, NoChallenge,
       EarlyPoints, ChallengePoints, CleanedPoints, MaterialPoints, BindingPoints, OrderPoints
  <2>3. UNCHANGED <<rows, vault, world, ui, requests, history>>
    BY <1>3 DEF history
  <2> QED
    BY <2>1, <2>2, <2>3, GoesKeeps DEF Points
<1> QED
  BY <1>2, <1>3

-------------------------------------------------------------------------------
(* How a task ends. *)

\* What the row of the certificate of a task may become when the task ends.
ItemFits(c) ==
  /\ item' \in [Certs -> Items] /\ \A d \in Certs \ {c} : item'[d] = item[d]
  /\ item'[c].version \in VersionsOf(c) \cup {NoVersion}
  /\ item'[c].bound \in VersionsOf(c) \cup {NoVersion}
  /\ item'[c].state \in {"none", "deleted"} => item'[c].version = NoVersion /\ item'[c].bound = NoVersion
  /\ item'[c].state # "deleted"
  /\ item'[c].version # NoVersion => item'[c].version \in vault \cup damaged
  /\ item'[c].bound # served[c] => c \in drift' \cup unbinding
  /\ c \in unbinding => item'[c].bound # NoVersion \/ c \in drift'

\* A task ends, its goroutine returns if it has one, and of its challenge a part may go.
Closes(t, state) ==
  /\ RowTypeOK' /\ row'[t].state = state /\ row'[t].kind = row[t].kind /\ row'[t].cert = row[t].cert
  /\ \A u \in Tasks \ {t} : row'[u] = row[u]
  /\ at' = [at EXCEPT ![t] = "none"] /\ gone' \subseteq Tasks /\ left' \in 0..Budget
  /\ UNCHANGED <<vault, served, edits, ui, requests, damaged>> /\ drift' \in {drift, drift \cup {CertOf(t)}}
  /\ artifact' \in [Tasks -> {"none", "created", "cleaned", "needs_attention"}]
  /\ include' \subseteq Tasks /\ txt' \subseteq Tasks /\ orphan' \subseteq Tasks /\ orphan \subseteq orphan'
  /\ \A u \in Tasks \ {t} :
       /\ artifact'[u] = artifact[u] /\ ((u \in include') <=> (u \in include)) /\ ((u \in txt') <=> (u \in txt))

\* The end of a task keeps the invariant: the certificate fits, and a verdict leaves no challenge.
LEMMA EndKeeps ==
  ASSUME IInv, NEW t \in Tasks, NEW state \in TaskStates \ Active, IsActive(t), Closes(t, state),
         ItemFits(CertOf(t)), state \in Verdicts => NoChallenge(t)'
  PROVE  IInv'
<1>1. /\ TypeOK /\ RowTypeOK /\ RowTypeOK' /\ CertOf(t) \in Certs /\ row[t].state # "none"
      /\ item[CertOf(t)].state # "deleted" /\ removal[CertOf(t)] # "committed"
  <2>1. TypeOK /\ RowTypeOK /\ RowTypeOK' /\ CertOf(t) \in Certs /\ row[t].state # "none"
    BY RowFacts DEF IInv, IsActive, Active, CertOf, Closes
  <2>2. item[CertOf(t)].state # "deleted"
    BY <2>1 DEF IInv, DeletedIsGone, ActiveTasks, IsActive
  <2> QED
    BY <2>1, <2>2 DEF IInv, RequestsHold
<1>2. /\ at \in [Tasks -> Points] /\ at' \in [Tasks -> Points] /\ at'[t] = "none"
      /\ \A u \in Tasks \ {t} : at'[u] = at[u]
  BY <1>1 DEF TypeOK, Points, Closes
<1>3. /\ UNCHANGED <<vault, served, edits, ui, inquiry, asked, unbinding, removal, damaged>>
      /\ drift \subseteq drift' /\ drift' \subseteq drift \cup {CertOf(t)}
      /\ \A u \in Tasks \ {t} : row'[u] = row[u]
      /\ row'[t].state = state /\ row'[t].kind = row[t].kind /\ row'[t].cert = row[t].cert
  BY DEF Closes, requests
<1>4. /\ ~IsActive(t)' /\ row'[t].state # "none"
      /\ \A u \in Tasks \ {t} : /\ IsActive(u)' = IsActive(u) /\ row'[u].bound = row[u].bound
      /\ \A u \in Tasks : CertOf(u)' = CertOf(u) /\ IsOrder(u)' = IsOrder(u)
  BY <1>3 DEF IsActive, CertOf, IsOrder, TaskStates, Active
<1>5. \A c \in Certs : VersionsOf(c)' = VersionsOf(c)
  BY <1>1, <1>3, <1>4, SameVersions DEF CertOf
<1>6. ASSUME NEW u \in Tasks \ {t}, IsActive(u)
      PROVE  CertOf(u) \in Certs \ {CertOf(t)}
  <2>1. CertOf(u) \in Certs
    BY <1>1, <1>6, RowFacts DEF IsActive, Active, CertOf
  <2> QED
    BY <1>6, <2>1 DEF IInv, OneActive
<1>7. ASSUME NEW u \in Tasks \ {t}, at[u] # "none"
      PROVE  IsActive(u)
  BY <1>7 DEF IInv, OwnedAreActive
<1>8. \A u \in Tasks : IsTask(row[u])'
  BY <1>1, RowIsTask DEF RowTypeOK, CertOf
<1>9. ASSUME NEW c \in Certs, c # CertOf(t)
      PROVE  item'[c] = item[c]
  BY <1>9 DEF ItemFits
<1>10. /\ CertOf(t)' = CertOf(t)
       /\ VersionsOf(CertOf(t))' = VersionsOf(CertOf(t))
  BY <1>1, <1>4, <1>5
<1>11. ASSUME NEW u \in Tasks \ {t}
       PROVE  /\ KindAt(u, at[u])' /\ PublishedAt(u, at[u])'
              /\ IsActive(u)' => ChallengeAt(u, at[u])'
              /\ IsActive(u)' /\ IsOrder(u)' => VersionAt(u, at[u])'
  <2>1. KindAt(u, at[u])'
    BY <1>2, <1>4 DEF IInv, KindAtPoint, KindAt
  <2>2. PublishedAt(u, at[u])'
    <3>1. PublishedAt(u, at[u]) /\ (at[u] # "none" => item'[CertOf(u)] = item[CertOf(u)])
      BY <1>6, <1>7, <1>9 DEF IInv, PublishedIsServed
    <3> QED
      BY <3>1, <1>2, <1>3, <1>4 DEF PublishedAt
  <2>3. IsActive(u)' => ChallengeAt(u, at[u])'
    BY <1>2, <1>3, <1>4 DEF IInv, ChallengeAtPoint, ChallengeAt, ChallengeIsKnown, NoChallenge, Closes
  <2>4. IsActive(u)' /\ IsOrder(u)' => VersionAt(u, at[u])'
    BY <1>2, <1>3, <1>4 DEF IInv, VersionAtPoint, VersionAt
  <2> QED
    BY <2>1, <2>2, <2>3, <2>4
<1>12. TypeOK'
  BY <1>1, <1>2, <1>3, <1>8 DEF Closes, ItemFits, TypeOK
<1>13. RowTypeOK'
  BY <1>1
<1>14. OwnedAreActive'
  BY <1>2, <1>3, <1>4 DEF IInv, OwnedAreActive
<1>15. OneActive'
  BY <1>4 DEF IInv, OneActive
<1>16. KindAtPoint'
  BY <1>2, <1>11 DEF KindAtPoint, KindAt, OrderPoints, BindingPoints, ChallengePoints, MaterialPoints
<1>17. BoundAsAsked'
  BY <1>3, <1>4, <1>6, <1>9 DEF IInv, BoundAsAsked
<1>18. ItemsNameTheirOwn'
  BY <1>5, <1>9 DEF IInv, ItemsNameTheirOwn, ItemFits
<1>19. RequestsHold'
  BY <1>1, <1>3, <1>9 DEF IInv, RequestsHold, ItemFits
<1>20. ActiveIsStored'
  BY <1>3, <1>9 DEF IInv, ActiveIsStored, ItemFits
<1>21. ServedIsOwn'
  BY <1>3, <1>5 DEF IInv, ServedIsOwn
<1>22. ServedIsStored'
  BY <1>1, <1>3, <1>9 DEF IInv, ServedIsStored
<1>23. DriftHasTask'
  BY <1>2, <1>3, <1>4, <1>9 DEF IInv, DriftHasTask, ItemFits
<1>24. DeletedIsGone'
  BY <1>3, <1>4, <1>9 DEF IInv, DeletedIsGone, ItemFits, ActiveTasks, IsActive
<1>25. PublishedIsServed'
  BY <1>2, <1>11 DEF PublishedIsServed, PublishedAt
<1>26. OrderIsNew'
  BY <1>4, <1>6, <1>9 DEF IInv, OrderIsNew
<1>27. VersionAtPoint'
  BY <1>4, <1>11 DEF VersionAtPoint
<1>28. ChallengeAtPoint'
  BY <1>4, <1>11 DEF ChallengeAtPoint
<1>29. OverIsClean'
  BY <1>3, <1>4 DEF IInv, OverIsClean, NoChallenge, Closes
<1> QED
  BY <1>12, <1>13, <1>14, <1>15, <1>16, <1>17, <1>18, <1>19, <1>20, <1>21, <1>22, <1>23, <1>24, <1>25, <1>26,
     <1>27, <1>28, <1>29 DEF IInv

\* The row of the certificate fits as it is, and so it does expired, unless the task has published.
LEMMA SameItemFits ==
  ASSUME IInv, NEW t \in Tasks, IsActive(t), at[t] \notin {"deployed", "bound"} \/ ~row[t].bound, drift' = drift,
         item' = item \/ item' \in Backoff(CertOf(t))
  PROVE  ItemFits(CertOf(t))
<1>1. /\ TypeOK /\ CertOf(t) \in Certs /\ item[CertOf(t)].state # "deleted" /\ item \in [Certs -> Items]
  <2>1. TypeOK /\ CertOf(t) \in Certs
    BY RowFacts DEF IInv, IsActive, Active, CertOf
  <2> QED
    BY <2>1 DEF IInv, DeletedIsGone, ActiveTasks, IsActive, TypeOK
<1>2. /\ item' \in [Certs -> Items] /\ \A d \in Certs \ {CertOf(t)} : item'[d] = item[d]
      /\ item'[CertOf(t)].version = item[CertOf(t)].version /\ item'[CertOf(t)].bound = item[CertOf(t)].bound
      /\ item'[CertOf(t)].state \in {item[CertOf(t)].state, "expired"}
  <2>1. CASE item' = item
    BY <1>1, <2>1
  <2>2. CASE item' \in Backoff(CertOf(t))
    <3>1. PICK state \in {item[CertOf(t)].state, "expired"} : item' = [item EXCEPT ![CertOf(t)].state = state]
      BY <2>2 DEF Backoff
    <3>2. item[CertOf(t)] \in Items /\ state \in CertificateStates
      BY <1>1, <3>1 DEF Items, CertificateStates
    <3> DEFINE new == [item[CertOf(t)] EXCEPT !.state = state]
    <3>3. new \in Items /\ new.state = state /\ new.version = item[CertOf(t)].version /\ new.bound = item[CertOf(t)].bound
      BY <3>2 DEF Items
    <3>4. item' = [item EXCEPT ![CertOf(t)] = new]
      BY <3>1
    <3> QED
      BY <1>1, <3>3, <3>4
  <2> QED
    BY <2>1, <2>2
<1>3. item[CertOf(t)].bound # served[CertOf(t)] => CertOf(t) \in drift \cup unbinding
  BY <1>1 DEF IInv, DriftHasTask, OneActive, OwnedAreActive
<1> QED
  BY <1>1, <1>2, <1>3 DEF ItemFits, IInv, ItemsNameTheirOwn, ActiveIsStored, RequestsHold

\* The end of a task that leaves its challenge and its material alone.
LEMMA ReturnKeeps ==
  ASSUME IInv, NEW t \in Tasks, NEW state \in TaskStates \ Active, NEW stage \in Stages, NEW what,
         at[t] # "none", TransitionCertificateTask(t, state, stage), Returns(t), ItemFits(CertOf(t)),
         Works \/ Fails(what) \/ CallFails(t, what) \/ CallWorks(t), state \in Verdicts => NoChallenge(t),
         UNCHANGED <<artifact, vault, world, ui, requests, orphan, damaged>>, drift' \in {drift, drift \cup {CertOf(t)}}
  PROVE  IInv'
<1>1. TypeOK /\ RowTypeOK /\ IsActive(t) /\ left' \in 0..Budget
  BY TaskFacts, LeftStays
<1>2. /\ row[t].state \in Active /\ RowTypeOK'
      /\ row'[t].state = state /\ row'[t].kind = row[t].kind /\ row'[t].cert = row[t].cert
      /\ \A u \in Tasks \ {t} : row'[u] = row[u]
  BY <1>1, Ended
<1>3. UNCHANGED <<artifact, include, txt, orphan, vault, served, edits, ui, requests, damaged>>
  BY DEF world
<1>4. Closes(t, state)
  BY <1>1, <1>2, <1>3 DEF Closes, Returns, GoTo, TypeOK
<1>5. state \in Verdicts => NoChallenge(t)'
  BY <1>3 DEF NoChallenge
<1> QED
  BY <1>1, <1>4, <1>5, EndKeeps

\* A staging task is over once its certificate is valid.
LEMMA SucceedStagingKeeps ==
  ASSUME IInv, NEW t \in Tasks, SucceedStaging(t)
  PROVE  IInv'
<1>1. /\ at[t] = "validating" /\ UNCHANGED <<item, artifact, vault, world, ui, requests, history>>
      /\ IsOrder(t) /\ IsActive(t) /\ ChallengeAt(t, "validating")
  BY OrderAt, TaskFacts DEF SucceedStaging, OrderPoints
<1>2. NoChallenge(t)
  BY <1>1 DEF ChallengeAt, CleanedPoints
<1>3. CASE CallWorks(t) /\ TransitionCertificateTask(t, "succeeded", "completed") /\ Returns(t)
  <2>1. ItemFits(CertOf(t))
    BY <1>1, SameItemFits DEF history
  <2> QED
    BY <1>1, <1>2, <1>3, <2>1, ReturnKeeps DEF history, TaskStates, Active, Stages
<1>4. CASE Strands(t)
  <2>1. UNCHANGED rows /\ CallFails(t, "store") /\ Returns(t)
    BY <1>1, <1>4 DEF Strands, rows
  <2> QED
    BY <1>1, <2>1, GoesKeeps, OrdersFollow DEF Points
<1> QED
  BY <1>3, <1>4 DEF SucceedStaging

\* fail: the challenge is clean by now, and the version is not in production.
LEMMA FailTaskKeeps ==
  ASSUME IInv, NEW t \in Tasks, FailTask(t)
  PROVE  IInv'
<1> DEFINE end == IF t \in gone /\ (row[t].cancel \/ ~IsOrder(t)) THEN "cancelled" ELSE "failed"
<1>1. /\ at[t] = "failing" /\ Returns(t) /\ UNCHANGED <<artifact, vault, world, ui, requests, history>>
      /\ IsActive(t) /\ ChallengeAt(t, "failing")
  BY TaskFacts DEF FailTask
<1>2. NoChallenge(t)
  BY <1>1 DEF ChallengeAt, CleanedPoints
<1>3. CASE Works /\ TransitionCertificateTask(t, end, end) /\ (item' = item \/ item' \in Backoff(CertOf(t)))
  <2>1. ItemFits(CertOf(t))
    BY <1>1, <1>3, SameItemFits DEF history
  <2>2. end \in TaskStates \ Active /\ end \in Stages
    BY DEF TaskStates, Active, Stages
  <2> HIDE DEF end
  <2> QED
    BY <1>1, <1>2, <1>3, <2>1, <2>2, ReturnKeeps DEF history
<1>4. CASE Fails("store") /\ UNCHANGED <<row, item>>
  <2>1. Follows(t, "failing", "none") /\ UNCHANGED rows
    BY <1>1, <1>4 DEF Follows, KindAt, PublishedAt, VersionAt, ChallengeAt, ChallengeIsKnown, NoChallenge,
       EarlyPoints, ChallengePoints, CleanedPoints, MaterialPoints, BindingPoints, OrderPoints, rows
  <2> QED
    BY <1>1, <1>4, <2>1, GoesKeeps DEF Points
<1> QED
  BY <1>3, <1>4 DEF FailTask

\* A task cancelled before it began has done nothing.
LEMMA CancelTaskKeeps ==
  ASSUME IInv, NEW t \in Tasks, CancelTask(t)
  PROVE  IInv'
<1>1. /\ at[t] = "quitting" /\ Returns(t) /\ UNCHANGED <<item, artifact, vault, world, ui, requests, history>>
      /\ IsActive(t) /\ ChallengeAt(t, "quitting")
  BY TaskFacts DEF CancelTask
<1>2. NoChallenge(t)
  BY <1>1 DEF ChallengeAt, EarlyPoints
<1>3. CASE Works /\ TransitionCertificateTask(t, "cancelled", "cancelled")
  <2>1. ItemFits(CertOf(t))
    BY <1>1, SameItemFits DEF history
  <2> QED
    BY <1>1, <1>2, <1>3, <2>1, ReturnKeeps DEF history, TaskStates, Active, Stages
<1>4. CASE Fails("store") /\ UNCHANGED row
  <2>1. Follows(t, "quitting", "none") /\ UNCHANGED rows
    BY <1>1, <1>4 DEF Follows, KindAt, PublishedAt, VersionAt, ChallengeAt, ChallengeIsKnown, NoChallenge,
       EarlyPoints, ChallengePoints, CleanedPoints, MaterialPoints, BindingPoints, OrderPoints, rows
  <2> QED
    BY <1>1, <1>4, <2>1, GoesKeeps DEF Points
<1> QED
  BY <1>3, <1>4 DEF CancelTask

\* A binding has no challenge to leave behind, and an order in doubt gets no verdict.
LEMMA DoubtKeeps ==
  ASSUME IInv, NEW t \in Tasks, Doubt(t)
  PROVE  IInv'
<1> DEFINE end == IF ~IsOrder(t) /\ t \in gone THEN "cancelled" ELSE "needs_attention"
<1>1. /\ at[t] = "doubt" /\ Returns(t) /\ UNCHANGED <<item, artifact, vault, world, ui, requests, drift, damaged>>
      /\ IsActive(t) /\ ChallengeAt(t, "doubt") /\ TypeOK /\ RowTypeOK /\ (IsOrder(t) => VersionAt(t, "doubt"))
  BY TaskFacts DEF Doubt
<1>2. CASE Works /\ TransitionCertificateTask(t, end, end) /\ UNCHANGED orphan
  <2>1. ItemFits(CertOf(t))
    BY <1>1, SameItemFits
  <2>2. end \in TaskStates \ Active /\ end \in Stages
    BY DEF TaskStates, Active, Stages
  <2>3. end \in Verdicts => NoChallenge(t)
    BY <1>1 DEF ChallengeAt, Verdicts
  <2>4. UNCHANGED history
    BY <1>1, <1>2 DEF history
  <2> HIDE DEF end
  <2> QED
    BY <1>1, <1>2, <2>1, <2>2, <2>3, <2>4, ReturnKeeps DEF history
<1>3. CASE /\ Fails("store") /\ UNCHANGED row
           /\ orphan' = IF t \in txt /\ artifact[t] = "none" THEN orphan \cup {t} ELSE orphan
  <2>1. /\ UNCHANGED <<row, artifact, include, txt, served, item, vault>>
        /\ UNCHANGED <<item, served, edits, ui, requests, drift, damaged>>
    BY <1>1, <1>3 DEF world
  <2>2. SameTasks /\ at' = [at EXCEPT ![t] = "none"] /\ left' \in 0..Budget /\ gone' \subseteq Tasks
    BY <1>1, <1>3, RowsStay, LeftStays DEF Returns, GoTo, TypeOK
  <2>3. OnlyOf(t)
    BY <1>1, <1>3, <2>1 DEF OnlyOf, TypeOK
  <2>4. Moves(t, "none")
    BY <2>1, <2>2, <2>3 DEF Moves
  <2>5. ChallengeAt(t, "none")'
    BY <1>1, <1>3, <2>1 DEF ChallengeAt, ChallengeIsKnown, NoChallenge, IsOrder, EarlyPoints, CleanedPoints,
       MaterialPoints, BindingPoints, ChallengePoints
  <2>6. IsOrder(t) => VersionAt(t, "none")'
    BY <1>1, <2>1 DEF VersionAt, CertOf, EarlyPoints, ChallengePoints, CleanedPoints
  <2>7. KindAt(t, "none") /\ PublishedAt(t, "none") /\ "none" \in Points
    BY DEF KindAt, PublishedAt, OrderPoints, ChallengePoints, MaterialPoints, BindingPoints, Points
  <2> QED
    BY <1>1, <2>4, <2>5, <2>6, <2>7, MoveKeeps
<1> QED
  BY <1>2, <1>3 DEF Doubt

\* A version that is published, or was to be only stored, becomes the active one.
LEMMA CompletedFits ==
  ASSUME IInv, NEW t \in Tasks, at[t] = "deployed", row[t].kind \in {"issue", "renew"},
         row[t].kind = "issue" => item[CertOf(t)].state = "none",
         item' = [item EXCEPT ![CertOf(t)] = Completed(t)],
         drift' = IF Overtaken(t) THEN drift \cup {CertOf(t)} ELSE drift
  PROVE  ItemFits(CertOf(t)) /\ drift' \in {drift, drift \cup {CertOf(t)}}
<1>1. /\ TypeOK /\ IsActive(t) /\ CertOf(t) \in Certs /\ row[t].state # "none" /\ IsOrder(t)
      /\ PublishedAt(t, "deployed") /\ VersionAt(t, "deployed") /\ row[t].bound \in BOOLEAN
      /\ row[t].challenge \in {"http", "dns"} /\ item \in [Certs -> Items]
  BY TaskFacts DEF IsOrder, TypeOK
<1>2. t \in VersionsOf(CertOf(t)) /\ t \in vault \cup damaged /\ t \in Versions
  BY <1>1 DEF VersionsOf, IsOrder, VersionAt, Versions
<1>3. Completed(t).auto \in BOOLEAN
  BY <1>1 DEF Completed, Items
<1>4. /\ Completed(t) \in Items /\ Completed(t).version = t
      /\ Completed(t).bound = (IF row[t].bound THEN t ELSE NoVersion)
      /\ Completed(t).state \in {"active", "unbound"}
  BY <1>1, <1>2, <1>3 DEF Completed, Items, CertificateStates
<1>5. item' \in [Certs -> Items] /\ item'[CertOf(t)] = Completed(t) /\ \A d \in Certs \ {CertOf(t)} : item'[d] = item[d]
  BY <1>1, <1>4
<1>6. row[t].bound => served[CertOf(t)] = t /\ t # NoVersion
  BY <1>1 DEF PublishedAt
<1>7. /\ ~row[t].bound => item[CertOf(t)].bound = NoVersion \/ CertOf(t) \in drift'
      /\ drift \subseteq drift' /\ drift' \in {drift, drift \cup {CertOf(t)}}
  BY DEF Overtaken
<1>8. ~row[t].bound /\ served[CertOf(t)] # NoVersion => CertOf(t) \in drift' \cup unbinding
  BY <1>1, <1>7 DEF IInv, DriftHasTask, OneActive, OwnedAreActive
<1>9. ~row[t].bound /\ CertOf(t) \in unbinding => CertOf(t) \in drift'
  BY <1>1, <1>7 DEF IInv, RequestsHold
<1> QED
  BY <1>2, <1>4, <1>5, <1>6, <1>7, <1>8, <1>9 DEF ItemFits

\* The rows follow the release of an order, or the task ends in doubt.
LEMMA CompleteProductionKeeps ==
  ASSUME IInv, NEW t \in Tasks, CompleteProduction(t)
  PROVE  IInv'
<1>1. /\ at[t] = "deployed" /\ UNCHANGED <<artifact, vault, world, ui, requests, orphan, damaged>>
      /\ IsActive(t) /\ ChallengeAt(t, "deployed")
  BY TaskFacts DEF CompleteProduction
<1>2. NoChallenge(t)
  BY <1>1 DEF ChallengeAt, MaterialPoints
<1>3. CASE /\ CallWorks(t) /\ Returns(t) /\ (CompleteIssuedCertificateTask(t) \/ CompleteRenewedCertificateTask(t))
           /\ drift' = IF Overtaken(t) THEN drift \cup {CertOf(t)} ELSE drift
  <2>1. /\ TransitionCertificateTask(t, "succeeded", "completed") /\ row[t].kind \in {"issue", "renew"}
        /\ item' = [item EXCEPT ![CertOf(t)] = Completed(t)]
        /\ row[t].kind = "issue" => item[CertOf(t)].state = "none"
    BY <1>3 DEF CompleteIssuedCertificateTask, CompleteRenewedCertificateTask
  <2>2. ItemFits(CertOf(t)) /\ drift' \in {drift, drift \cup {CertOf(t)}}
    BY <1>1, <1>3, <2>1, CompletedFits
  <2> QED
    BY <1>1, <1>2, <1>3, <2>1, <2>2, ReturnKeeps DEF TaskStates, Active, Stages
<1>4. CASE CallFails(t, "store") /\ Keeps(t, "doubt") /\ UNCHANGED <<row, item>>
           /\ drift' = IF row[t].bound THEN drift \cup {CertOf(t)} ELSE drift
  BY <1>1, <1>4, DoubtsKeeps DEF rows
<1> QED
  BY <1>3, <1>4 DEF CompleteProduction

\* The rows follow the release of a binding, or the task ends in doubt.
LEMMA CompleteBindingKeeps ==
  ASSUME IInv, NEW t \in Tasks, CompleteBinding(t)
  PROVE  IInv'
<1>1. /\ at[t] = "bound" /\ UNCHANGED <<artifact, vault, world, ui, requests, orphan, damaged>>
      /\ TypeOK /\ IsActive(t) /\ ChallengeAt(t, "bound") /\ KindAt(t, "bound") /\ PublishedAt(t, "bound")
      /\ CertOf(t) \in Certs /\ item \in [Certs -> Items]
  BY TaskFacts DEF CompleteBinding, TypeOK
<1>2. NoChallenge(t) /\ ~IsOrder(t) /\ row[t].bound
  BY <1>1 DEF ChallengeAt, KindAt, BindingPoints, IInv, BoundAsAsked, IsOrder
<1>3. CASE Works /\ CompleteCertificateBindingTask(t) /\ Returns(t) /\ UNCHANGED drift
  <2>1. /\ TransitionCertificateTask(t, "succeeded", "completed")
        /\ VersionOf(t) = item[CertOf(t)].version
        /\ item[CertOf(t)].state \in Renewable /\ item[CertOf(t)].bound = NoVersion
    BY <1>3, <1>2 DEF CompleteCertificateBindingTask, Bindable, VersionOf, IsOrder
  <2>2. PICK state \in {"active", "expired"} :
          item' = [item EXCEPT ![CertOf(t)].bound = VersionOf(t), ![CertOf(t)].state = state]
    BY <1>3 DEF CompleteCertificateBindingTask
  <2> DEFINE old == item[CertOf(t)]
             new == [old EXCEPT !.bound = old.version, !.state = state]
  <2>3. old \in Items /\ state \in CertificateStates
    BY <1>1 DEF CertificateStates
  <2>4. new \in Items /\ new.state = state /\ new.version = old.version /\ new.bound = old.version
    BY <2>3 DEF Items
  <2>5. item' = [item EXCEPT ![CertOf(t)] = new]
    BY <1>1, <2>1, <2>2
  <2>6. /\ item' \in [Certs -> Items] /\ item'[CertOf(t)] = new
        /\ \A d \in Certs \ {CertOf(t)} : item'[d] = item[d]
    BY <1>1, <2>4, <2>5
  <2>7. old.version = served[CertOf(t)] /\ (CertOf(t) \in unbinding => CertOf(t) \in drift)
    BY <1>1, <2>1 DEF PublishedAt, IInv, RequestsHold
  <2>8. ItemFits(CertOf(t)) /\ UNCHANGED history
    BY <1>1, <1>3, <2>4, <2>6, <2>7 DEF ItemFits, IInv, ItemsNameTheirOwn, ActiveIsStored, history
  <2> QED
    BY <1>1, <1>2, <1>3, <2>1, <2>8, ReturnKeeps DEF history, TaskStates, Active, Stages
<1>4. CASE /\ (~Bindable(t) /\ Works) \/ Fails("store")
           /\ Keeps(t, "doubt") /\ UNCHANGED <<row, item>> /\ drift' = drift \cup {CertOf(t)}
  <2>1. Works \/ Fails("store")
    BY <1>4
  <2>2. drift' = IF row[t].bound THEN drift \cup {CertOf(t)} ELSE drift
    BY <1>2, <1>4
  <2> QED
    BY <1>1, <1>4, <2>1, <2>2, DoubtsKeeps DEF rows
<1> QED
  BY <1>3, <1>4 DEF CompleteBinding

-------------------------------------------------------------------------------
(* Requests. *)

\* A request that nobody makes is of its type.
LEMMA NoInquiryFacts == NoInquiry \in Inquiries /\ NoInquiry.step = "none"
<1>1. NoTask.plan \in Contents
  <2>1. [c \in Certs |-> NoVersion] \in [Certs -> Versions \cup {NoVersion}]
    OBVIOUS
  <2> QED
    BY <2>1 DEF NoTask, Contents
<1> QED
  BY <1>1 DEF NoInquiry, Inquiries, Steps

\* What a request reads is of its type.
LEMMA ReadFacts ==
  ASSUME TypeOK
  PROVE  /\ Content \in Contents /\ NoInquiry \in Inquiries /\ NoInquiry.step = "none"
         /\ \A c \in Certs : item[c] \in Items
         /\ \A t \in Tasks : inquiry[t] \in Inquiries /\ (inquiry[t].step # "none" => inquiry[t].cert \in Certs)
<1>1. Content \in Contents
  BY DEF Content, Contents, TypeOK
<1> QED
  BY <1>1, NoInquiryFacts DEF TypeOK

\* A row for a task that nobody has asked for yet keeps the invariant, with a place in the owner or without.
LEMMA QueueKeeps ==
  ASSUME IInv, NEW t \in Tasks, NEW c \in Certs, NEW new \in TaskRows, NEW point \in {"none", "pending"},
         Free(t, c), item[c].state # "deleted", new.state = "queued", new.cert = c, new.kind = "bind" => new.bound,
         row' = [row EXCEPT ![t] = new], at' = [at EXCEPT ![t] = point], point # "none" => ui = "up",
         left' \in 0..Budget, inquiry' = [inquiry EXCEPT ![t] = NoInquiry],
         UNCHANGED <<item, artifact, vault, world, ui, gone, asked, unbinding, removal, history>>
  PROVE  IInv'
<1>1. /\ TypeOK /\ RowTypeOK /\ ui \in {"up", "stopping"} /\ row[t].state = "none" /\ ActiveTasks(c) = {}
      /\ row \in [Tasks -> TaskRows]
  BY DEF IInv, Free, RowTypeOK
<1>2. /\ row'[t] = new /\ (\A u \in Tasks \ {t} : row'[u] = row[u]) /\ row' \in [Tasks -> TaskRows]
      /\ at' \in [Tasks -> Points] /\ at'[t] = point /\ (\A u \in Tasks \ {t} : at'[u] = at[u])
      /\ UNCHANGED <<item, artifact, vault, served, include, txt, edits, ui, gone, asked, unbinding, removal, drift,
                     orphan, damaged>>
  BY <1>1 DEF TypeOK, Points, world, history
<1>3. RowTypeOK'
  BY <1>1, <1>2 DEF RowTypeOK, CertOf
<1>4. /\ ~IsActive(t) /\ at[t] = "none" /\ NoChallenge(t) /\ artifact[t] = "none" /\ t \notin vault
  BY <1>1 DEF IInv, OwnedAreActive, OverIsClean, IsActive, Active
<1>5. /\ IsActive(t)' /\ CertOf(t)' = c
      /\ \A u \in Tasks \ {t} : /\ CertOf(u)' = CertOf(u) /\ IsOrder(u)' = IsOrder(u) /\ IsActive(u)' = IsActive(u)
                                /\ row'[u].bound = row[u].bound /\ row'[u].kind = row[u].kind
                                /\ row'[u].state = row[u].state
  BY <1>2 DEF IsActive, Active, CertOf, IsOrder
<1>6. \A u \in Tasks : IsActive(u) => CertOf(u) # c
  BY <1>1 DEF ActiveTasks, IsActive
<1>7. \A d \in Certs : /\ VersionsOf(d) \subseteq VersionsOf(d)'
                       /\ t \notin VersionsOf(d)
  BY <1>1, <1>2, <1>5 DEF VersionsOf, CertOf
<1>8. /\ item[c].version # t /\ item[c].bound # t /\ served[c] # t
  BY <1>7 DEF IInv, ItemsNameTheirOwn, ServedIsOwn
<1>9. \A u \in Tasks : IsTask(row[u])'
  BY <1>3, RowIsTask DEF RowTypeOK, CertOf
<1>10. /\ NoChallenge(t)' /\ artifact'[t] = "none" /\ ui' \in {"up", "stopping"}
  BY <1>1, <1>2, <1>4 DEF NoChallenge
<1>11. /\ KindAt(t, point) /\ PublishedAt(t, at[t])' /\ ChallengeAt(t, at[t])' /\ VersionAt(t, at[t])'
  <2>1. KindAt(t, point)
    BY DEF KindAt, OrderPoints, ChallengePoints, MaterialPoints, BindingPoints
  <2>2. PublishedAt(t, at[t])'
    BY <1>2 DEF PublishedAt
  <2>3. ChallengeAt(t, at[t])'
    BY <1>2, <1>10 DEF ChallengeAt, ChallengeIsKnown, NoChallenge
  <2>4. VersionAt(t, at[t])'
    BY <1>2, <1>4, <1>5, <1>8 DEF VersionAt
  <2> QED
    BY <2>1, <2>2, <2>3, <2>4
<1>12. ASSUME NEW u \in Tasks \ {t}
       PROVE  /\ KindAt(u, at[u])' /\ PublishedAt(u, at[u])'
              /\ IsActive(u)' => ChallengeAt(u, at[u])'
              /\ IsActive(u)' /\ IsOrder(u)' => VersionAt(u, at[u])'
  <2>1. KindAt(u, at[u])'
    BY <1>2, <1>5 DEF IInv, KindAtPoint, KindAt
  <2>2. PublishedAt(u, at[u])'
    BY <1>2, <1>5 DEF IInv, PublishedIsServed, PublishedAt
  <2>3. IsActive(u)' => ChallengeAt(u, at[u])'
    BY <1>2, <1>5 DEF IInv, ChallengeAtPoint, ChallengeAt, ChallengeIsKnown, NoChallenge
  <2>4. IsActive(u)' /\ IsOrder(u)' => VersionAt(u, at[u])'
    BY <1>2, <1>5 DEF IInv, VersionAtPoint, VersionAt
  <2> QED
    BY <2>1, <2>2, <2>3, <2>4
<1>13. TypeOK'
  <2>1. /\ inquiry' \in [Tasks -> Inquiries]
        /\ \A u \in Tasks : inquiry'[u].step # "none" => inquiry'[u].cert \in Certs
    BY <1>1, ReadFacts DEF TypeOK
  <2> QED
    BY <1>1, <1>2, <1>9, <2>1 DEF TypeOK
<1>14. RowTypeOK'
  BY <1>3
<1>15. OwnedAreActive'
  BY <1>2, <1>5, <1>10 DEF IInv, OwnedAreActive
<1>16. OneActive'
  BY <1>5, <1>6 DEF IInv, OneActive
<1>17. KindAtPoint'
  BY <1>2, <1>12 DEF KindAtPoint, KindAt, OrderPoints, BindingPoints, ChallengePoints, MaterialPoints
<1>18. BoundAsAsked'
  BY <1>2, <1>5 DEF IInv, BoundAsAsked
<1>19. ItemsNameTheirOwn'
  BY <1>2, <1>7 DEF IInv, ItemsNameTheirOwn
<1>20. RequestsHold'
  BY <1>2 DEF IInv, RequestsHold
<1>21. ActiveIsStored'
  BY <1>2 DEF IInv, ActiveIsStored
<1>22. ServedIsOwn'
  BY <1>2, <1>7 DEF IInv, ServedIsOwn
<1>23. ServedIsStored'
  BY <1>2 DEF IInv, ServedIsStored
<1>24. DriftHasTask'
  BY <1>2, <1>4, <1>5 DEF IInv, DriftHasTask
<1>25. DeletedIsGone'
  BY <1>2, <1>5 DEF IInv, DeletedIsGone, ActiveTasks, IsActive
<1>26. PublishedIsServed'
  BY <1>11, <1>12 DEF PublishedIsServed
<1>27. OrderIsNew'
  BY <1>2, <1>5, <1>8 DEF IInv, OrderIsNew
<1>28. VersionAtPoint'
  BY <1>11, <1>12 DEF VersionAtPoint
<1>29. ChallengeAtPoint'
  BY <1>11, <1>12 DEF ChallengeAtPoint
<1>30. OverIsClean'
  BY <1>2, <1>5 DEF IInv, OverIsClean, NoChallenge, IsActive, Active, Verdicts
<1> QED
  BY <1>13, <1>14, <1>15, <1>16, <1>17, <1>18, <1>19, <1>20, <1>21, <1>22, <1>23, <1>24, <1>25, <1>26, <1>27,
     <1>28, <1>29, <1>30 DEF IInv

\* What a request asks for is a task.
LEMMA RequestedFacts ==
  ASSUME TypeOK, NEW t \in Tasks, NEW kind \in TaskKinds, NEW challenge \in {"http", "dns"}, NEW bound \in BOOLEAN,
         NEW cancels \in BOOLEAN, inquiry[t].step = "reviewed"
  PROVE  /\ inquiry[t].cert \in Certs
         /\ Requested(t, kind, challenge, bound) \in TaskRows
         /\ [Requested(t, kind, challenge, bound) EXCEPT !.cancel = cancels] \in TaskRows
<1>1. inquiry[t] \in Inquiries /\ inquiry[t].cert \in Certs
  BY ReadFacts
<1>2. inquiry[t].plan \in Contents
  BY <1>1 DEF Inquiries
<1>3. Requested(t, kind, challenge, bound) \in TaskRows
  BY <1>1, <1>2 DEF Requested, TaskRows, TaskStates, Stages
<1> QED
  BY <1>1, <1>3 DEF TaskRows

\* A request is queued, whether the owner takes it or not.
LEMMA QueuesKeeps ==
  ASSUME IInv, NEW t \in Tasks, NEW kind \in TaskKinds, NEW challenge \in {"http", "dns"},
         NEW bound \in BOOLEAN, NEW cancels \in BOOLEAN, inquiry[t].step = "reviewed",
         item[inquiry[t].cert].state # "deleted", kind = "bind" => bound,
         Queues(t, Requested(t, kind, challenge, bound), cancels)
  PROVE  IInv'
<1> DEFINE new == Requested(t, kind, challenge, bound)
           refused == [new EXCEPT !.cancel = cancels]
           c == inquiry[t].cert
<1>1. TypeOK /\ row[t].state = "none" /\ at \in [Tasks -> Points] /\ Free(t, c)
  BY DEF IInv, Free, TypeOK, Queues
<1>2. at[t] = "none"
  BY <1>1 DEF IInv, OwnedAreActive, IsActive, Active
<1>3. /\ left' \in 0..Budget /\ inquiry' = [inquiry EXCEPT ![t] = NoInquiry]
      /\ UNCHANGED <<item, artifact, vault, world, ui, gone, asked, unbinding, removal, history>>
  BY <1>1 DEF Queues, Works, TypeOK
<1>4. /\ c \in Certs /\ new \in TaskRows /\ refused \in TaskRows
      /\ new.state = "queued" /\ new.cert = c /\ new.kind = kind /\ new.bound = bound
  BY <1>1, RequestedFacts DEF Requested
<1>5. refused.state = "queued" /\ refused.cert = c /\ refused.kind = kind /\ refused.bound = bound
  BY <1>4 DEF TaskRows
<1>6. \/ row' = [row EXCEPT ![t] = new] /\ at' = [at EXCEPT ![t] = "pending"] /\ ui = "up"
      \/ row' = [row EXCEPT ![t] = refused] /\ at' = at
  BY DEF Start, GoTo, Queues
<1>7. at' = at => at' = [at EXCEPT ![t] = "none"]
  BY <1>1, <1>2
<1>8. item[c].state # "deleted"
  OBVIOUS
<1> HIDE DEF new, refused, c
<1>9. CASE row' = [row EXCEPT ![t] = new] /\ at' = [at EXCEPT ![t] = "pending"] /\ ui = "up"
  BY <1>1, <1>3, <1>4, <1>8, <1>9, QueueKeeps
<1>10. CASE row' = [row EXCEPT ![t] = refused] /\ at' = at
  BY <1>1, <1>3, <1>4, <1>5, <1>7, <1>8, <1>10, QueueKeeps
<1> QED
  BY <1>6, <1>9, <1>10

\* The order of a certificate that there is not.
LEMMA QueueIssueKeeps ==
  ASSUME IInv, NEW t \in Tasks, QueueIssue(t)
  PROVE  IInv'
<1>1. PICK kind \in {"issue", "staging"}, challenge \in {"http", "dns"}, bound \in BOOLEAN :
        Queues(t, Requested(t, kind, challenge, bound), TRUE)
  BY DEF QueueIssue
<1>2. kind \in TaskKinds /\ kind # "bind"
  BY DEF TaskKinds
<1>3. inquiry[t].step = "reviewed" /\ item[inquiry[t].cert].state # "deleted"
  BY DEF QueueIssue, Reviewed, New
<1> QED
  BY <1>1, <1>2, <1>3, QueuesKeeps

\* A renewal, for a user or for the scheduler.
LEMMA QueueRenewalKeeps ==
  ASSUME IInv, NEW t \in Tasks, QueueRenewal(t)
  PROVE  IInv'
<1> DEFINE c == inquiry[t].cert
           bound == inquiry[t].bound
           cancels == ~inquiry[t].automatic
<1>1. /\ inquiry[t].step = "reviewed" /\ item[c].state # "deleted"
      /\ Queues(t, Requested(t, "renew", item[c].challenge, bound), cancels)
  BY DEF QueueRenewal, Reviewed, Renewable
<1>2. TypeOK
  BY DEF IInv
<1>3. c \in Certs /\ item[c] \in Items /\ inquiry[t] \in Inquiries
  BY <1>1, <1>2, ReadFacts
<1>4. item[c].challenge \in {"http", "dns"} /\ bound \in BOOLEAN /\ cancels \in BOOLEAN /\ "renew" \in TaskKinds
  BY <1>3 DEF Items, Inquiries, TaskKinds
<1> HIDE DEF bound, cancels
<1> QED
  BY <1>1, <1>4, QueuesKeeps

\* A binding.
LEMMA QueueBindingKeeps ==
  ASSUME IInv, NEW t \in Tasks, QueueBinding(t)
  PROVE  IInv'
<1> DEFINE c == inquiry[t].cert
<1>1. /\ inquiry[t].step = "reviewed" /\ item[c].state # "deleted"
      /\ Queues(t, Requested(t, "bind", item[c].challenge, TRUE), TRUE)
  BY DEF QueueBinding, Reviewed, Renewable
<1>2. TypeOK
  BY DEF IInv
<1>3. c \in Certs /\ item[c] \in Items
  BY <1>1, <1>2, ReadFacts
<1>4. item[c].challenge \in {"http", "dns"} /\ "bind" \in TaskKinds
  BY <1>3 DEF Items, TaskKinds
<1> QED
  BY <1>1, <1>4, QueuesKeeps

\* A step that changes no more than what requests have read, cancellations, contexts, policies, the life of
\* the process and what others have released.
Beside ==
  /\ SameTasks
  /\ item' \in [Certs -> Items]
  /\ \A c \in Certs : /\ item'[c].state = item[c].state /\ item'[c].version = item[c].version
                      /\ item'[c].bound = item[c].bound
  /\ removal' \in [Certs -> {"none", "checked", "committed"}]
  /\ \A c \in Certs : removal'[c] = "committed" => removal[c] = "committed"
  /\ ui' \in {"down", "tasks", "up", "stopping"} /\ (ui' \in {"down", "tasks"} => ui \in {"down", "tasks"})
  /\ edits' \in 0..Edits /\ gone' \subseteq Tasks /\ asked' \subseteq Tasks /\ left' \in 0..Budget
  /\ inquiry' \in [Tasks -> Inquiries] /\ (\A t \in Tasks : inquiry'[t].step # "none" => inquiry'[t].cert \in Certs)
  /\ UNCHANGED <<artifact, vault, served, include, txt, at, unbinding, history>>

\* Such a step keeps the invariant.
LEMMA BesideKeeps ==
  ASSUME IInv, Beside
  PROVE  IInv'
<1>1. /\ TypeOK /\ RowTypeOK' /\ \A u \in Tasks : SameTask(u)
      /\ UNCHANGED <<artifact, vault, served, include, txt, at, unbinding, drift, orphan, damaged>>
  BY DEF IInv, Beside, SameTasks, history
<1>2. /\ \A c \in Certs : VersionsOf(c)' = VersionsOf(c)
      /\ \A u \in Tasks : /\ CertOf(u)' = CertOf(u) /\ IsOrder(u)' = IsOrder(u) /\ IsActive(u)' = IsActive(u)
                          /\ row'[u].bound = row[u].bound /\ row'[u].kind = row[u].kind
  BY <1>1, SameVersions DEF SameTask, CertOf, IsOrder, IsActive
<1>3. \A c \in Certs : /\ item'[c].state = item[c].state /\ item'[c].version = item[c].version
                       /\ item'[c].bound = item[c].bound
                       /\ (removal'[c] = "committed" => removal[c] = "committed")
  BY DEF Beside
<1>4. \A u \in Tasks : IsTask(row[u])'
  BY <1>1, RowIsTask DEF RowTypeOK, CertOf
<1>5. \A u \in Tasks : row[u].state # "none" => CertOf(u) \in Certs
  BY DEF IInv, RowTypeOK
<1>6. \A u \in Tasks : IsActive(u) => row[u].state # "none"
  BY DEF IsActive, Active
<1>7. \A u \in Tasks : at[u] # "none" => IsActive(u)
  BY DEF IInv, OwnedAreActive
<1>8. \A u \in Tasks : PublishedAt(u, at[u])'
  <2> TAKE u \in Tasks
  <2>1. PublishedAt(u, at[u])
    BY DEF IInv, PublishedIsServed
  <2>2. CASE at[u] = "none"
    BY <1>1, <2>2 DEF PublishedAt
  <2>3. CASE at[u] # "none"
    BY <1>1, <1>2, <1>3, <1>5, <1>6, <1>7, <2>1, <2>3 DEF PublishedAt
  <2> QED
    BY <2>2, <2>3
<1>9. TypeOK'
  BY <1>1, <1>4 DEF Beside, TypeOK
<1>10. RowTypeOK'
  BY <1>1
<1>11. OwnedAreActive'
  BY <1>1, <1>2 DEF IInv, OwnedAreActive, Beside
<1>12. OneActive'
  BY <1>2 DEF IInv, OneActive
<1>13. KindAtPoint'
  BY <1>1, <1>2 DEF IInv, KindAtPoint, KindAt
<1>14. BoundAsAsked'
  BY <1>2, <1>3, <1>5, <1>6 DEF IInv, BoundAsAsked
<1>15. ItemsNameTheirOwn'
  BY <1>2, <1>3 DEF IInv, ItemsNameTheirOwn
<1>16. RequestsHold'
  BY <1>1, <1>3 DEF IInv, RequestsHold
<1>17. ActiveIsStored'
  BY <1>1, <1>3 DEF IInv, ActiveIsStored
<1>18. ServedIsOwn'
  BY <1>1, <1>2 DEF IInv, ServedIsOwn
<1>19. ServedIsStored'
  BY <1>1, <1>3 DEF IInv, ServedIsStored
<1>20. DriftHasTask'
  BY <1>1, <1>2, <1>3 DEF IInv, DriftHasTask
<1>21. DeletedIsGone'
  BY <1>1, <1>2, <1>3 DEF IInv, DeletedIsGone, ActiveTasks, IsActive
<1>22. PublishedIsServed'
  BY <1>8 DEF PublishedIsServed
<1>23. OrderIsNew'
  BY <1>2, <1>3, <1>5, <1>6 DEF IInv, OrderIsNew
<1>24. VersionAtPoint'
  BY <1>1, <1>2 DEF IInv, VersionAtPoint, VersionAt
<1>25. ChallengeAtPoint'
  BY <1>1, <1>2 DEF IInv, ChallengeAtPoint, ChallengeAt, ChallengeIsKnown, NoChallenge, SameTask
<1>26. OverIsClean'
  BY <1>1 DEF IInv, OverIsClean, NoChallenge, SameTask
<1> QED
  BY <1>9, <1>10, <1>11, <1>12, <1>13, <1>14, <1>15, <1>16, <1>17, <1>18, <1>19, <1>20, <1>21, <1>22, <1>23,
     <1>24, <1>25, <1>26 DEF IInv

\* A request reads, and no more.
LEMMA InquiresKeeps ==
  ASSUME IInv, NEW t \in Tasks, NEW reads \in Inquiries, reads.step # "none" => reads.cert \in Certs,
         Inquires(t, reads), left' \in 0..Budget
  PROVE  IInv'
<1>1. TypeOK /\ RowTypeOK
  BY DEF IInv
<1>2. SameTasks
  BY <1>1, RowsStay DEF Inquires, rows
<1>3. /\ inquiry' \in [Tasks -> Inquiries]
      /\ \A u \in Tasks : inquiry'[u].step # "none" => inquiry'[u].cert \in Certs
  BY <1>1 DEF Inquires, TypeOK
<1> QED
  BY <1>1, <1>2, <1>3, BesideKeeps DEF Beside, Inquires, TypeOK, rows, world, history

\* A request begins: with a review of production, with a plan, with what is due, or with a certificate.
LEMMA OpensKeeps ==
  ASSUME IInv, NEW t \in Tasks, NEW c \in Certs,
         ReviewOrder(t, c) \/ CreatePlan(t, c) \/ ListDue(t, c) \/ RequestRenewal(t, c)
  PROVE  IInv'
<1>1. TypeOK /\ Content \in Contents /\ NoInquiry \in Inquiries /\ item[c] \in Items
  BY ReadFacts DEF IInv
<1>2. item[c].version \in Versions \cup {NoVersion}
  BY <1>1 DEF Items
<1>3. PICK reads \in Inquiries : reads.cert \in Certs /\ Opens(t, reads)
  <2>1. CASE ReviewOrder(t, c)
    <3>1. [NoInquiry EXCEPT !.step = "reviewed", !.cert = c, !.plan = Content] \in Inquiries
      BY <1>1 DEF NoInquiry, Inquiries, Steps
    <3> QED
      BY <2>1, <3>1 DEF ReviewOrder, NoInquiry
  <2>2. CASE CreatePlan(t, c)
    <3>1. [NoInquiry EXCEPT !.step = "planned", !.kind = "bind", !.cert = c,
                            !.version = item[c].version, !.plan = Content] \in Inquiries
      BY <1>1, <1>2 DEF NoInquiry, Inquiries, Steps
    <3> QED
      BY <2>2, <3>1 DEF CreatePlan, NoInquiry
  <2>3. CASE ListDue(t, c)
    <3>1. [NoInquiry EXCEPT !.step = "due", !.kind = "renew", !.cert = c, !.automatic = TRUE] \in Inquiries
      BY <1>1 DEF NoInquiry, Inquiries, Steps
    <3> QED
      BY <2>3, <3>1 DEF ListDue, NoInquiry
  <2>4. CASE RequestRenewal(t, c)
    <3>1. [NoInquiry EXCEPT !.step = "certificate", !.kind = "renew", !.cert = c,
                            !.version = item[c].version] \in Inquiries
      BY <1>1, <1>2 DEF NoInquiry, Inquiries, Steps
    <3> QED
      BY <2>4, <3>1 DEF RequestRenewal, NoInquiry
  <2> QED
    BY <2>1, <2>2, <2>3, <2>4
<1>4. left' \in 0..Budget
  BY <1>1, <1>3 DEF Opens, CountsAfterFirst, Counts, TypeOK
<1> QED
  BY <1>3, <1>4, InquiresKeeps DEF Opens

\* A request goes on with its certificate, its bindings and production, or is given up.
LEMMA ReadsKeep ==
  ASSUME IInv, NEW t \in Tasks,
         ReadCertificate(t) \/ ReadBindings(t) \/ ReviewProduction(t) \/ Refuse(t)
  PROVE  IInv'
<1> DEFINE ask == inquiry[t]
<1>1. /\ TypeOK /\ Content \in Contents /\ NoInquiry \in Inquiries /\ NoInquiry.step = "none"
      /\ ask \in Inquiries /\ (ask.step # "none" => ask.cert \in Certs)
      /\ \A c \in Certs : item[c] \in Items
  BY ReadFacts DEF IInv
<1>2. left' \in 0..Budget
  BY <1>1 DEF ReadCertificate, ReadBindings, ReviewProduction, Refuse, Works, TypeOK
<1>3. CASE ReadCertificate(t)
  <2> DEFINE reads == [ask EXCEPT !.step = "certificate", !.version = item[ask.cert].version]
  <2>1. ask.cert \in Certs /\ Inquires(t, reads)
    BY <1>1, <1>3 DEF ReadCertificate
  <2>2. item[ask.cert].version \in Versions \cup {NoVersion}
    BY <1>1, <2>1 DEF Items
  <2>3. reads \in Inquiries /\ reads.cert = ask.cert
    BY <1>1, <2>2 DEF Inquiries, Steps
  <2> QED
    BY <1>2, <2>1, <2>3, InquiresKeeps
<1>4. CASE ReadBindings(t)
  <2> DEFINE bound == ask.kind = "bind" \/ item[ask.cert].bound # NoVersion
             reads == [ask EXCEPT !.step = "bindings", !.bound = bound]
  <2>1. ask.cert \in Certs /\ Inquires(t, reads)
    BY <1>1, <1>4 DEF ReadBindings
  <2>2. bound \in BOOLEAN
    OBVIOUS
  <2> HIDE DEF bound
  <2>3. reads \in Inquiries /\ reads.cert = ask.cert
    BY <1>1, <2>2 DEF Inquiries, Steps
  <2> QED
    BY <1>2, <2>1, <2>3, InquiresKeeps
<1>5. CASE ReviewProduction(t)
  <2> DEFINE reads == [ask EXCEPT !.step = "reviewed", !.plan = Content]
  <2>1. ask.cert \in Certs /\ Inquires(t, reads)
    BY <1>1, <1>5 DEF ReviewProduction
  <2>2. reads \in Inquiries /\ reads.cert = ask.cert
    BY <1>1 DEF Inquiries, Steps
  <2> QED
    BY <1>2, <2>1, <2>2, InquiresKeeps
<1>6. CASE Refuse(t)
  BY <1>1, <1>2, <1>6, InquiresKeeps DEF Refuse
<1> QED
  BY <1>3, <1>4, <1>5, <1>6

\* What a request for a task does.
LEMMA RequestStepKeeps ==
  ASSUME IInv, NEW t \in Tasks, RequestStep(t)
  PROVE  IInv'
  BY ReadsKeep, QueueIssueKeeps, QueueRenewalKeeps, QueueBindingKeeps DEF RequestStep

\* A cancellation is recorded.
LEMMA RequestCancellationKeeps ==
  ASSUME IInv, NEW t \in Tasks, RequestCancellation(t)
  PROVE  IInv'
<1>1. TypeOK /\ RowTypeOK
  BY DEF IInv
<1>2. SameTasks
  BY <1>1, Cancels DEF RequestCancellation, rows
<1>3. left' \in 0..Budget
  BY <1>1 DEF RequestCancellation, TypeOK, Works, Fails, Counts
<1> QED
  BY <1>1, <1>2, <1>3, BesideKeeps DEF Beside, RequestCancellation, TypeOK, rows, world, requests, history

\* The owner is told of it.
LEMMA SignalKeeps ==
  ASSUME IInv, NEW t \in Tasks, Signal(t)
  PROVE  IInv'
<1>1. TypeOK /\ RowTypeOK
  BY DEF IInv
<1>2. SameTasks
  BY <1>1, RowsStay DEF Signal, rows
<1>3. left' \in 0..Budget
  BY <1>1 DEF Signal, TypeOK, Works, Fails, Counts
<1> QED
  BY <1>1, <1>2, <1>3, BesideKeeps DEF Beside, Signal, TypeOK, rows, world, requests, history

\* The thirty minutes of a task are over.
LEMMA TimesOutKeeps ==
  ASSUME IInv, NEW t \in Tasks, TimesOut(t)
  PROVE  IInv'
<1>1. TypeOK /\ RowTypeOK
  BY DEF IInv
<1>2. SameTasks
  BY <1>1, RowsStay DEF TimesOut, rows
<1>3. left' \in 0..Budget
  BY <1>1 DEF TimesOut, TypeOK, Works, Fails, Counts
<1> QED
  BY <1>1, <1>2, <1>3, BesideKeeps DEF Beside, TimesOut, TypeOK, rows, world, requests, history

\* Somebody else releases.
LEMMA OtherReleaseKeeps ==
  ASSUME IInv, OtherRelease
  PROVE  IInv'
<1>1. TypeOK /\ RowTypeOK
  BY DEF IInv
<1>2. SameTasks
  BY <1>1, RowsStay DEF OtherRelease, rows
<1>3. left' \in 0..Budget
  BY <1>1 DEF OtherRelease, TypeOK, Works, Fails, Counts
<1>4. edits' \in 0..Edits
  BY <1>1 DEF OtherRelease, TypeOK
<1> QED
  BY <1>1, <1>2, <1>3, <1>4, BesideKeeps DEF Beside, OtherRelease, TypeOK, rows, world, requests, history

\* The UI stops, and the context of every goroutine ends.
LEMMA StopKeeps ==
  ASSUME IInv, Stop
  PROVE  IInv'
<1>1. TypeOK /\ RowTypeOK
  BY DEF IInv
<1>2. SameTasks
  BY <1>1, RowsStay DEF Stop, rows
<1>3. left' \in 0..Budget
  BY <1>1 DEF Stop, TypeOK, Works, Fails, Counts
<1> QED
  BY <1>1, <1>2, <1>3, BesideKeeps DEF Beside, Stop, TypeOK, rows, world, requests, history, Owned

\* The UI serves once every task is settled.
LEMMA ServeKeeps ==
  ASSUME IInv, Serve
  PROVE  IInv'
<1>1. TypeOK /\ RowTypeOK
  BY DEF IInv
<1>2. SameTasks
  BY <1>1, RowsStay DEF Serve, rows
<1>3. left' \in 0..Budget
  BY <1>1 DEF Serve, TypeOK, Works, Fails, Counts
<1>4. /\ ui' = "up"
      /\ UNCHANGED <<row, item, artifact, vault, served, include, txt, edits, at, gone, inquiry, asked, unbinding, removal, history>>
  BY DEF Serve, rows, world, requests
<1> QED
  BY <1>1, <1>2, <1>3, <1>4, BesideKeeps DEF Beside, TypeOK, rows, world, requests, history

\* Delete looks for bindings and at production.
LEMMA CheckDeletionKeeps ==
  ASSUME IInv, NEW c \in Certs, CheckDeletion(c)
  PROVE  IInv'
<1>1. TypeOK /\ RowTypeOK
  BY DEF IInv
<1>2. SameTasks
  BY <1>1, RowsStay DEF CheckDeletion, rows
<1>3. left' \in 0..Budget
  BY <1>1 DEF CheckDeletion, TypeOK, Works, Fails, Counts
<1>4. /\ removal' \in [Certs -> {"none", "checked", "committed"}]
      /\ \A d \in Certs : removal'[d] = "committed" => removal[d] = "committed"
  BY <1>1 DEF CheckDeletion, TypeOK
<1> QED
  BY <1>1, <1>2, <1>3, <1>4, BesideKeeps DEF Beside, CheckDeletion, TypeOK, rows, world, requests, history

\* The policy of renewal changes.
LEMMA UpdateRenewalPolicyKeeps ==
  ASSUME IInv, NEW c \in Certs, UpdateRenewalPolicy(c)
  PROVE  IInv'
<1>1. TypeOK /\ RowTypeOK
  BY DEF IInv
<1>2. SameTasks
  BY <1>1, RowsStay DEF UpdateRenewalPolicy, rows
<1>3. left' \in 0..Budget
  BY <1>1 DEF UpdateRenewalPolicy, TypeOK, Works, Fails, Counts
<1>4. /\ item' \in [Certs -> Items]
      /\ \A d \in Certs : /\ item'[d].state = item[d].state /\ item'[d].version = item[d].version
                          /\ item'[d].bound = item[d].bound
  <2>1. item \in [Certs -> Items] /\ item' = [item EXCEPT ![c].auto = ~@]
    BY <1>1 DEF UpdateRenewalPolicy, TypeOK
  <2> DEFINE new == [item[c] EXCEPT !.auto = ~item[c].auto]
  <2>2. item[c] \in Items /\ (~item[c].auto) \in BOOLEAN
    BY <2>1
  <2>3. new \in Items /\ new.state = item[c].state /\ new.version = item[c].version /\ new.bound = item[c].bound
    BY <2>2 DEF Items
  <2>4. item' = [item EXCEPT ![c] = new]
    BY <2>1
  <2> QED
    BY <2>1, <2>3, <2>4
<1> QED
  BY <1>1, <1>2, <1>3, <1>4, BesideKeeps DEF Beside, UpdateRenewalPolicy, TypeOK, rows, world, requests, history

-------------------------------------------------------------------------------
(* Certificates and material. *)

\* A step of a request about a certificate, or of the world: no task moves.
TasksStay ==
  /\ UNCHANGED <<row, artifact, at, include, txt, orphan>>
  /\ ui' \in {"down", "tasks", "up", "stopping"} /\ (ui' \in {"down", "tasks"} => ui \in {"down", "tasks"})
  /\ vault' \subseteq vault

\* Such a step keeps what is said of tasks alone.
LEMMA TasksStayKeeps ==
  ASSUME IInv, TasksStay
  PROVE  /\ RowTypeOK' /\ OwnedAreActive' /\ OneActive' /\ KindAtPoint' /\ ChallengeAtPoint' /\ OverIsClean'
         /\ \A u \in Tasks : IsTask(row[u])'
         /\ \A c \in Certs : VersionsOf(c)' = VersionsOf(c) /\ ActiveTasks(c)' = ActiveTasks(c)
         /\ \A u \in Tasks : /\ CertOf(u)' = CertOf(u) /\ IsOrder(u)' = IsOrder(u) /\ IsActive(u)' = IsActive(u)
                             /\ (IsActive(u) => CertOf(u) \in Certs)
                             /\ (at[u] # "none" => IsActive(u))
                             /\ row'[u] = row[u] /\ at'[u] = at[u]
<1>1. UNCHANGED <<row, artifact, at, include, txt, orphan>>
  BY DEF TasksStay
<1>2. TypeOK /\ RowTypeOK
  BY DEF IInv
<1>3. RowTypeOK' /\ OneActive' /\ KindAtPoint'
  BY <1>1 DEF IInv, RowTypeOK, OneActive, KindAtPoint, KindAt, IsActive, CertOf, IsOrder
<1>4. OwnedAreActive'
  BY <1>1 DEF IInv, OwnedAreActive, IsActive, TasksStay
<1>5. ChallengeAtPoint'
  BY <1>1 DEF IInv, ChallengeAtPoint, ChallengeAt, ChallengeIsKnown, NoChallenge, IsActive, IsOrder
<1>6. OverIsClean'
  BY <1>1 DEF IInv, OverIsClean, NoChallenge, TasksStay
<1>7. \A u \in Tasks : IsTask(row[u])'
  BY <1>1, <1>2 DEF TypeOK
<1>8. \A c \in Certs : VersionsOf(c)' = VersionsOf(c) /\ ActiveTasks(c)' = ActiveTasks(c)
  BY <1>1 DEF VersionsOf, ActiveTasks, CertOf
<1>9. \A u \in Tasks : /\ CertOf(u)' = CertOf(u) /\ IsOrder(u)' = IsOrder(u) /\ IsActive(u)' = IsActive(u)
                       /\ (IsActive(u) => CertOf(u) \in Certs)
                       /\ (at[u] # "none" => IsActive(u))
                       /\ row'[u] = row[u] /\ at'[u] = at[u]
  BY <1>1, <1>2 DEF CertOf, IsOrder, IsActive, Active, RowTypeOK, IInv, OwnedAreActive
<1> QED
  BY <1>3, <1>4, <1>5, <1>6, <1>7, <1>8, <1>9

\* Unbind publishes: no task of the certificate can be between its release and its rows.
LEMMA PublishUnbindingKeeps ==
  ASSUME IInv, NEW c \in Certs, PublishUnbinding(c)
  PROVE  IInv'
<1>1. /\ UNCHANGED <<row, item, artifact, vault, include, txt, edits, ui, at, gone, inquiry, asked, removal, orphan, damaged>>
      /\ TypeOK /\ item[c].bound # NoVersion /\ item[c].state # "deleted" /\ served[c] = item[c].version
  BY DEF PublishUnbinding, rows, IInv
<1>2. /\ RowTypeOK' /\ OwnedAreActive' /\ OneActive' /\ KindAtPoint' /\ ChallengeAtPoint' /\ OverIsClean'
      /\ \A u \in Tasks : IsTask(row[u])'
      /\ \A d \in Certs : VersionsOf(d)' = VersionsOf(d) /\ ActiveTasks(d)' = ActiveTasks(d)
      /\ \A u \in Tasks : /\ CertOf(u)' = CertOf(u) /\ IsOrder(u)' = IsOrder(u) /\ IsActive(u)' = IsActive(u)
                          /\ (IsActive(u) => CertOf(u) \in Certs)
                          /\ (at[u] # "none" => IsActive(u))
                          /\ row'[u] = row[u] /\ at'[u] = at[u]
  <2>1. TasksStay
    BY <1>1 DEF TasksStay, IInv, TypeOK
  <2> QED
    BY <2>1, TasksStayKeeps
<1>3. /\ served' \in {served, [served EXCEPT ![c] = NoVersion]}
      /\ unbinding' \in {unbinding, unbinding \cup {c}} /\ drift' \in {drift, drift \cup {c}}
      /\ c \in drift' \cup unbinding' /\ left' \in 0..Budget
  BY <1>1 DEF PublishUnbinding, Counts, Fails, TypeOK
<1>4. /\ served' \in [Certs -> Versions \cup {NoVersion}] /\ served'[c] \in {served[c], NoVersion}
      /\ \A d \in Certs \ {c} : served'[d] = served[d]
  BY <1>1, <1>3 DEF TypeOK
<1>5. ASSUME NEW u \in Tasks
      PROVE  PublishedAt(u, at[u])'
  <2>1. PublishedAt(u, at[u]) /\ KindAt(u, at[u])
    BY DEF IInv, PublishedIsServed, KindAtPoint
  <2>2. CASE CertOf(u) = c /\ at[u] \in {"deployed", "bound"}
    <3>1. IsActive(u) /\ (at[u] = "bound" => row[u].kind = "bind")
      BY <1>2, <2>1, <2>2 DEF KindAt, BindingPoints, IsOrder
    <3>2. CASE at[u] = "bound"
      BY <1>1, <1>2, <2>2, <3>2 DEF PublishedAt
    <3>3. CASE at[u] = "deployed"
      <4>1. IsOrder(u) /\ item[c].version # u
        BY <2>1, <2>2, <3>1, <3>3 DEF KindAt, OrderPoints, MaterialPoints, IInv, OrderIsNew
      <4>2. ~row[u].bound
        BY <1>1, <2>1, <2>2, <3>3, <4>1 DEF PublishedAt
      <4> QED
        BY <1>2, <3>3, <4>2 DEF PublishedAt
    <3> QED
      BY <2>2, <3>2, <3>3
  <2>3. CASE CertOf(u) # c \/ at[u] \notin {"deployed", "bound"}
    BY <1>1, <1>2, <1>4, <2>1, <2>3 DEF PublishedAt
  <2> QED
    BY <2>2, <2>3
<1>6. ASSUME NEW u \in Tasks, IsActive(u), IsOrder(u)
      PROVE  VersionAt(u, at[u])'
  <2>1. VersionAt(u, at[u]) /\ CertOf(u) \in Certs
    BY <1>2, <1>6 DEF IInv, VersionAtPoint
  <2>2. served'[CertOf(u)] \in {served[CertOf(u)], NoVersion} /\ u # NoVersion
    BY <1>4, <2>1
  <2> QED
    BY <1>1, <1>2, <2>1, <2>2 DEF VersionAt
<1>7. TypeOK'
  BY <1>1, <1>2, <1>3, <1>4 DEF TypeOK
<1>8. RowTypeOK'
  BY <1>2
<1>9. OwnedAreActive'
  BY <1>2
<1>10. OneActive'
  BY <1>2
<1>11. KindAtPoint'
  BY <1>2
<1>12. BoundAsAsked'
  BY <1>1, <1>2 DEF IInv, BoundAsAsked
<1>13. ItemsNameTheirOwn'
  BY <1>1, <1>2 DEF IInv, ItemsNameTheirOwn
<1>14. RequestsHold'
  BY <1>1, <1>3 DEF IInv, RequestsHold
<1>15. ActiveIsStored'
  BY <1>1 DEF IInv, ActiveIsStored
<1>16. ServedIsOwn'
  BY <1>2, <1>4 DEF IInv, ServedIsOwn
<1>17. ServedIsStored'
  BY <1>1, <1>3, <1>4 DEF IInv, ServedIsStored
<1>18. DriftHasTask'
  BY <1>1, <1>2, <1>3, <1>4 DEF IInv, DriftHasTask
<1>19. DeletedIsGone'
  BY <1>1, <1>2, <1>3, <1>4 DEF IInv, DeletedIsGone
<1>20. PublishedIsServed'
  BY <1>5 DEF PublishedIsServed
<1>21. OrderIsNew'
  BY <1>1, <1>2 DEF IInv, OrderIsNew
<1>22. VersionAtPoint'
  BY <1>2, <1>6 DEF VersionAtPoint
<1>23. ChallengeAtPoint'
  BY <1>2
<1>24. OverIsClean'
  BY <1>2
<1> QED
  BY <1>7, <1>8, <1>9, <1>10, <1>11, <1>12, <1>13, <1>14, <1>15, <1>16, <1>17, <1>18, <1>19, <1>20, <1>21,
     <1>22, <1>23, <1>24 DEF IInv

\* The rows follow an unbinding, unless a task has begun meanwhile.
LEMMA CompleteUnbindingKeeps ==
  ASSUME IInv, NEW c \in Certs, CompleteUnbinding(c)
  PROVE  IInv'
<1>1. /\ UNCHANGED <<row, artifact, vault, served, include, txt, edits, ui, at, gone, inquiry, asked, removal, orphan, damaged>>
      /\ TypeOK /\ c \in unbinding /\ unbinding' = unbinding \ {c} /\ item \in [Certs -> Items]
  BY DEF CompleteUnbinding, world, IInv, TypeOK
<1>2. /\ RowTypeOK' /\ OwnedAreActive' /\ OneActive' /\ KindAtPoint' /\ ChallengeAtPoint' /\ OverIsClean'
      /\ \A u \in Tasks : IsTask(row[u])'
      /\ \A d \in Certs : VersionsOf(d)' = VersionsOf(d) /\ ActiveTasks(d)' = ActiveTasks(d)
      /\ \A u \in Tasks : /\ CertOf(u)' = CertOf(u) /\ IsOrder(u)' = IsOrder(u) /\ IsActive(u)' = IsActive(u)
                          /\ (IsActive(u) => CertOf(u) \in Certs)
                          /\ (at[u] # "none" => IsActive(u))
                          /\ row'[u] = row[u] /\ at'[u] = at[u]
  <2>1. TasksStay
    BY <1>1 DEF TasksStay, IInv, TypeOK
  <2> QED
    BY <2>1, TasksStayKeeps
<1>3. /\ drift' \in {drift, drift \cup {c}} /\ left' \in 0..Budget
      /\ \/ item' = item /\ c \in drift'
         \/ /\ Unbindable(c) /\ item' = [item EXCEPT ![c].bound = NoVersion, ![c].state = "unbound"]
            /\ served[c] = NoVersion \/ c \in drift'
  BY <1>1 DEF CompleteUnbinding, CompleteCertificateUnbinding, Works, Fails, TypeOK
<1>4. Unbindable(c) => ActiveTasks(c) = {} /\ item[c].state \notin {"none", "deleted"} /\ removal[c] # "committed"
  BY <1>1 DEF Unbindable, IInv, RequestsHold, ItemsNameTheirOwn
<1>5. /\ item' \in [Certs -> Items] /\ \A d \in Certs \ {c} : item'[d] = item[d]
      /\ item'[c].version = item[c].version
      /\ \/ item' = item /\ c \in drift'
         \/ /\ Unbindable(c) /\ item'[c].bound = NoVersion /\ item'[c].state = "unbound"
            /\ served[c] = NoVersion \/ c \in drift'
  <2>1. CASE item' = item /\ c \in drift'
    BY <1>1, <2>1
  <2>2. CASE /\ Unbindable(c) /\ item' = [item EXCEPT ![c].bound = NoVersion, ![c].state = "unbound"]
             /\ served[c] = NoVersion \/ c \in drift'
    <3> DEFINE new == [item[c] EXCEPT !.bound = NoVersion, !.state = "unbound"]
    <3>1. item[c] \in Items
      BY <1>1
    <3>2. new \in Items /\ new.state = "unbound" /\ new.bound = NoVersion /\ new.version = item[c].version
      BY <3>1 DEF Items, CertificateStates
    <3>3. item' = [item EXCEPT ![c] = new]
      BY <1>1, <2>2
    <3> QED
      BY <1>1, <2>2, <3>2, <3>3
  <2> QED
    BY <1>3, <2>1, <2>2
<1>6. item'[c].bound # served[c] => c \in drift'
  BY <1>3, <1>5
<1>7. \A u \in Tasks : IsActive(u) /\ CertOf(u) = c => item' = item
  BY <1>4, <1>5 DEF ActiveTasks, IsActive
<1>8. /\ item'[c].bound \in {item[c].bound, NoVersion}
      /\ item'[c].state \in {"none", "deleted"} => item' = item
      /\ removal[c] = "committed" => item' = item
  BY <1>4, <1>5
<1>9. ASSUME NEW u \in Tasks
      PROVE  PublishedAt(u, at[u])'
  <2>1. PublishedAt(u, at[u]) /\ (at[u] # "none" => CertOf(u) \in Certs)
    BY <1>2 DEF IInv, PublishedIsServed
  <2>2. at[u] # "none" => item'[CertOf(u)] = item[CertOf(u)]
    BY <1>2, <1>5, <1>7, <2>1
  <2> QED
    BY <1>1, <1>2, <2>1, <2>2 DEF PublishedAt
<1>10. TypeOK'
  BY <1>1, <1>2, <1>3, <1>5 DEF TypeOK
<1>11. RowTypeOK'
  BY <1>2
<1>12. OwnedAreActive'
  BY <1>2
<1>13. OneActive'
  BY <1>2
<1>14. KindAtPoint'
  BY <1>2
<1>15. BoundAsAsked'
  BY <1>2, <1>5, <1>7 DEF IInv, BoundAsAsked
<1>16. ItemsNameTheirOwn'
  BY <1>2, <1>5, <1>8 DEF IInv, ItemsNameTheirOwn
<1>17. RequestsHold'
  BY <1>1, <1>3, <1>5, <1>8 DEF IInv, RequestsHold
<1>18. ActiveIsStored'
  BY <1>1, <1>5 DEF IInv, ActiveIsStored
<1>19. ServedIsOwn'
  BY <1>1, <1>2 DEF IInv, ServedIsOwn
<1>20. ServedIsStored'
  BY <1>1, <1>3, <1>4, <1>5, <1>8 DEF IInv, ServedIsStored
<1>21. DriftHasTask'
  BY <1>1, <1>2, <1>3, <1>5, <1>6 DEF IInv, DriftHasTask
<1>22. DeletedIsGone'
  BY <1>1, <1>2, <1>3, <1>5, <1>8 DEF IInv, DeletedIsGone
<1>23. PublishedIsServed'
  BY <1>9 DEF PublishedIsServed
<1>24. OrderIsNew'
  BY <1>2, <1>5, <1>7 DEF IInv, OrderIsNew
<1>25. VersionAtPoint'
  BY <1>1, <1>2 DEF IInv, VersionAtPoint, VersionAt
<1>26. ChallengeAtPoint'
  BY <1>2
<1>27. OverIsClean'
  BY <1>2
<1> QED
  BY <1>10, <1>11, <1>12, <1>13, <1>14, <1>15, <1>16, <1>17, <1>18, <1>19, <1>20, <1>21, <1>22, <1>23, <1>24,
     <1>25, <1>26, <1>27 DEF IInv

\* The row of a certificate is deleted, if it is still unused.
LEMMA CommitDeletionKeeps ==
  ASSUME IInv, NEW c \in Certs, CommitDeletion(c)
  PROVE  IInv'
<1>1. /\ UNCHANGED <<row, artifact, vault, served, include, txt, edits, ui, at, gone, inquiry, asked, unbinding, drift, orphan, damaged>>
      /\ TypeOK /\ removal[c] = "checked" /\ item \in [Certs -> Items]
  BY DEF CommitDeletion, world, history, IInv, TypeOK
<1>2. /\ RowTypeOK' /\ OwnedAreActive' /\ OneActive' /\ KindAtPoint' /\ ChallengeAtPoint' /\ OverIsClean'
      /\ \A u \in Tasks : IsTask(row[u])'
      /\ \A d \in Certs : VersionsOf(d)' = VersionsOf(d) /\ ActiveTasks(d)' = ActiveTasks(d)
      /\ \A u \in Tasks : /\ CertOf(u)' = CertOf(u) /\ IsOrder(u)' = IsOrder(u) /\ IsActive(u)' = IsActive(u)
                          /\ (IsActive(u) => CertOf(u) \in Certs)
                          /\ (at[u] # "none" => IsActive(u))
                          /\ row'[u] = row[u] /\ at'[u] = at[u]
  <2>1. TasksStay
    BY <1>1 DEF TasksStay, IInv, TypeOK
  <2> QED
    BY <2>1, TasksStayKeeps
<1>3. /\ left' \in 0..Budget
      /\ \/ item' = item /\ removal' = [removal EXCEPT ![c] = "none"]
         \/ /\ Deletable(c) /\ removal' = [removal EXCEPT ![c] = "committed"]
            /\ item' = [item EXCEPT ![c].state = "deleted", ![c].version = NoVersion, ![c].auto = FALSE]
  BY <1>1 DEF CommitDeletion, Works, Fails, TypeOK
<1>4. /\ item' \in [Certs -> Items] /\ \A d \in Certs \ {c} : item'[d] = item[d]
      /\ item'[c].bound = item[c].bound
      /\ removal' \in [Certs -> {"none", "checked", "committed"}] /\ \A d \in Certs \ {c} : removal'[d] = removal[d]
      /\ \/ item' = item /\ removal'[c] = "none"
         \/ Deletable(c) /\ item'[c].state = "deleted" /\ item'[c].version = NoVersion
  <2>1. removal \in [Certs -> {"none", "checked", "committed"}]
    BY <1>1 DEF TypeOK
  <2>2. CASE item' = item /\ removal' = [removal EXCEPT ![c] = "none"]
    BY <1>1, <2>1, <2>2
  <2>3. CASE /\ Deletable(c) /\ removal' = [removal EXCEPT ![c] = "committed"]
             /\ item' = [item EXCEPT ![c].state = "deleted", ![c].version = NoVersion, ![c].auto = FALSE]
    <3> DEFINE new == [item[c] EXCEPT !.state = "deleted", !.version = NoVersion, !.auto = FALSE]
    <3>1. item[c] \in Items
      BY <1>1
    <3>2. new \in Items /\ new.state = "deleted" /\ new.version = NoVersion /\ new.bound = item[c].bound
      BY <3>1 DEF Items, CertificateStates
    <3>3. item' = [item EXCEPT ![c] = new]
      BY <1>1, <2>3
    <3> QED
      BY <1>1, <2>1, <2>3, <3>2, <3>3
  <2> QED
    BY <1>3, <2>2, <2>3
<1>5. Deletable(c) => /\ item[c].bound = NoVersion /\ (c \in unbinding => c \in drift) /\ ActiveTasks(c) = {}
                      /\ \A u \in Tasks : IsActive(u) => CertOf(u) # c
  BY DEF Deletable, Unused, IInv, RequestsHold, ActiveTasks, IsActive
<1>6. Deletable(c) => served[c] = NoVersion \/ c \in drift
  BY <1>2, <1>5 DEF IInv, DriftHasTask
<1>7. \A u \in Tasks : IsActive(u) /\ CertOf(u) = c => item' = item
  BY <1>4, <1>5
<1>8. ASSUME NEW u \in Tasks
      PROVE  PublishedAt(u, at[u])'
  <2>1. PublishedAt(u, at[u]) /\ (at[u] # "none" => CertOf(u) \in Certs)
    BY <1>2 DEF IInv, PublishedIsServed
  <2>2. at[u] # "none" => item'[CertOf(u)] = item[CertOf(u)]
    BY <1>2, <1>4, <1>7, <2>1
  <2> QED
    BY <1>1, <1>2, <2>1, <2>2 DEF PublishedAt
<1>9. TypeOK'
  BY <1>1, <1>2, <1>3, <1>4 DEF TypeOK
<1>10. RowTypeOK'
  BY <1>2
<1>11. OwnedAreActive'
  BY <1>2
<1>12. OneActive'
  BY <1>2
<1>13. KindAtPoint'
  BY <1>2
<1>14. BoundAsAsked'
  BY <1>2, <1>4, <1>7 DEF IInv, BoundAsAsked
<1>15. ItemsNameTheirOwn'
  BY <1>2, <1>4, <1>5 DEF IInv, ItemsNameTheirOwn
<1>16. RequestsHold'
  BY <1>1, <1>4, <1>5 DEF IInv, RequestsHold
<1>17. ActiveIsStored'
  BY <1>1, <1>4 DEF IInv, ActiveIsStored
<1>18. ServedIsOwn'
  BY <1>1, <1>2 DEF IInv, ServedIsOwn
<1>19. ServedIsStored'
  BY <1>1, <1>4, <1>6 DEF IInv, ServedIsStored
<1>20. DriftHasTask'
  BY <1>1, <1>2, <1>4 DEF IInv, DriftHasTask
<1>21. DeletedIsGone'
  BY <1>1, <1>2, <1>4, <1>5, <1>6 DEF IInv, DeletedIsGone
<1>22. PublishedIsServed'
  BY <1>8 DEF PublishedIsServed
<1>23. OrderIsNew'
  BY <1>2, <1>4, <1>7 DEF IInv, OrderIsNew
<1>24. VersionAtPoint'
  BY <1>1, <1>2 DEF IInv, VersionAtPoint, VersionAt
<1>25. ChallengeAtPoint'
  BY <1>2
<1>26. OverIsClean'
  BY <1>2
<1> QED
  BY <1>9, <1>10, <1>11, <1>12, <1>13, <1>14, <1>15, <1>16, <1>17, <1>18, <1>19, <1>20, <1>21, <1>22, <1>23,
     <1>24, <1>25, <1>26 DEF IInv

\* The directory of a deleted certificate goes: it holds no version of another.
LEMMA PurgeMaterialKeeps ==
  ASSUME IInv, NEW c \in Certs, PurgeMaterial(c)
  PROVE  IInv'
<1>1. /\ UNCHANGED <<row, item, artifact, served, include, txt, edits, ui, at, gone, inquiry, asked, unbinding, drift, orphan, damaged>>
      /\ TypeOK /\ removal[c] = "committed" /\ vault' \in {vault, vault \ VersionsOf(c)}
      /\ removal' = [removal EXCEPT ![c] = "none"]
  BY DEF PurgeMaterial, world, rows, history, IInv
<1>2. /\ RowTypeOK' /\ OwnedAreActive' /\ OneActive' /\ KindAtPoint' /\ ChallengeAtPoint' /\ OverIsClean'
      /\ \A u \in Tasks : IsTask(row[u])'
      /\ \A d \in Certs : VersionsOf(d)' = VersionsOf(d) /\ ActiveTasks(d)' = ActiveTasks(d)
      /\ \A u \in Tasks : /\ CertOf(u)' = CertOf(u) /\ IsOrder(u)' = IsOrder(u) /\ IsActive(u)' = IsActive(u)
                          /\ (IsActive(u) => CertOf(u) \in Certs)
                          /\ (at[u] # "none" => IsActive(u))
                          /\ row'[u] = row[u] /\ at'[u] = at[u]
  <2>1. TasksStay
    BY <1>1 DEF TasksStay, IInv, TypeOK
  <2> QED
    BY <2>1, TasksStayKeeps
<1>3. left' \in 0..Budget
  BY <1>1 DEF PurgeMaterial, TypeOK, Works, Fails
<1>4. /\ item[c].state = "deleted" /\ item[c].version = NoVersion /\ (served[c] = NoVersion \/ c \in drift)
      /\ \A u \in Tasks : IsActive(u) => CertOf(u) # c
  BY <1>1 DEF IInv, RequestsHold, ItemsNameTheirOwn, DeletedIsGone, ActiveTasks, IsActive
<1>5. ASSUME NEW d \in Certs \ {c}, NEW v \in VersionsOf(d), v \in vault
      PROVE  v \in vault'
  <2>1. v \notin VersionsOf(c)
    BY VersionsDiffer
  <2> QED
    BY <1>1, <1>5, <2>1
<1>6. \A u \in Tasks : IsActive(u) /\ IsOrder(u) => u \in VersionsOf(CertOf(u)) /\ CertOf(u) \in Certs \ {c}
  BY <1>2, <1>4 DEF VersionsOf, IsOrder, IsActive, Active
<1>7. ASSUME NEW u \in Tasks, IsActive(u), IsOrder(u)
      PROVE  VersionAt(u, at[u])'
  <2>1. VersionAt(u, at[u]) /\ (u \in vault => u \in vault') /\ (u \notin vault => u \notin vault')
    BY <1>1, <1>5, <1>6, <1>7 DEF IInv, VersionAtPoint
  <2> QED
    BY <1>1, <1>2, <2>1 DEF VersionAt
<1>8. \A d \in Certs \ {c} : /\ item[d].version # NoVersion => item[d].version \in VersionsOf(d)
                             /\ served[d] # NoVersion => served[d] \in VersionsOf(d)
  BY DEF IInv, ItemsNameTheirOwn, ServedIsOwn
<1>9. removal' \in [Certs -> {"none", "checked", "committed"}] /\ \A d \in Certs : removal'[d] \in {removal[d], "none"}
  BY <1>1 DEF TypeOK
<1>10. TypeOK'
  BY <1>1, <1>2, <1>3, <1>9 DEF TypeOK
<1>11. RowTypeOK'
  BY <1>2
<1>12. OwnedAreActive'
  BY <1>2
<1>13. OneActive'
  BY <1>2
<1>14. KindAtPoint'
  BY <1>2
<1>15. BoundAsAsked'
  BY <1>1, <1>2 DEF IInv, BoundAsAsked
<1>16. ItemsNameTheirOwn'
  BY <1>1, <1>2 DEF IInv, ItemsNameTheirOwn
<1>17. RequestsHold'
  BY <1>1, <1>9 DEF IInv, RequestsHold
<1>18. ActiveIsStored'
  BY <1>1, <1>4, <1>5, <1>8 DEF IInv, ActiveIsStored
<1>19. ServedIsOwn'
  BY <1>1, <1>2 DEF IInv, ServedIsOwn
<1>20. ServedIsStored'
  BY <1>1, <1>4, <1>5, <1>8 DEF IInv, ServedIsStored
<1>21. DriftHasTask'
  BY <1>1, <1>2 DEF IInv, DriftHasTask
<1>22. DeletedIsGone'
  BY <1>1, <1>2 DEF IInv, DeletedIsGone
<1>23. PublishedIsServed'
  BY <1>1, <1>2 DEF IInv, PublishedIsServed, PublishedAt
<1>24. OrderIsNew'
  BY <1>1, <1>2 DEF IInv, OrderIsNew
<1>25. VersionAtPoint'
  BY <1>2, <1>7 DEF VersionAtPoint
<1>26. ChallengeAtPoint'
  BY <1>2
<1>27. OverIsClean'
  BY <1>2
<1> QED
  BY <1>10, <1>11, <1>12, <1>13, <1>14, <1>15, <1>16, <1>17, <1>18, <1>19, <1>20, <1>21, <1>22, <1>23, <1>24,
     <1>25, <1>26, <1>27 DEF IInv

\* A version is lost from the vault.
LEMMA DamageKeeps ==
  ASSUME IInv, NEW v \in Versions, Damage(v)
  PROVE  IInv'
<1>1. /\ UNCHANGED <<row, item, artifact, served, include, txt, edits, ui, at, gone, inquiry, asked, unbinding, removal, drift, orphan>>
      /\ TypeOK /\ vault' = vault \ {v} /\ damaged' = damaged \cup {v}
  BY DEF Damage, world, rows, requests, IInv
<1>2. /\ RowTypeOK' /\ OwnedAreActive' /\ OneActive' /\ KindAtPoint' /\ ChallengeAtPoint' /\ OverIsClean'
      /\ \A u \in Tasks : IsTask(row[u])'
      /\ \A d \in Certs : VersionsOf(d)' = VersionsOf(d) /\ ActiveTasks(d)' = ActiveTasks(d)
      /\ \A u \in Tasks : /\ CertOf(u)' = CertOf(u) /\ IsOrder(u)' = IsOrder(u) /\ IsActive(u)' = IsActive(u)
                          /\ (IsActive(u) => CertOf(u) \in Certs)
                          /\ (at[u] # "none" => IsActive(u))
                          /\ row'[u] = row[u] /\ at'[u] = at[u]
  <2>1. TasksStay
    BY <1>1 DEF TasksStay, IInv, TypeOK
  <2> QED
    BY <2>1, TasksStayKeeps
<1>3. left' \in 0..Budget
  BY <1>1 DEF Damage, TypeOK, Fails
<1>4. TypeOK'
  BY <1>1, <1>2, <1>3 DEF TypeOK
<1>5. RowTypeOK'
  BY <1>2
<1>6. OwnedAreActive'
  BY <1>2
<1>7. OneActive'
  BY <1>2
<1>8. KindAtPoint'
  BY <1>2
<1>9. BoundAsAsked'
  BY <1>1, <1>2 DEF IInv, BoundAsAsked
<1>10. ItemsNameTheirOwn'
  BY <1>1, <1>2 DEF IInv, ItemsNameTheirOwn
<1>11. RequestsHold'
  BY <1>1 DEF IInv, RequestsHold
<1>12. ActiveIsStored'
  BY <1>1 DEF IInv, ActiveIsStored
<1>13. ServedIsOwn'
  BY <1>1, <1>2 DEF IInv, ServedIsOwn
<1>14. ServedIsStored'
  BY <1>1 DEF IInv, ServedIsStored
<1>15. DriftHasTask'
  BY <1>1, <1>2 DEF IInv, DriftHasTask
<1>16. DeletedIsGone'
  BY <1>1, <1>2 DEF IInv, DeletedIsGone
<1>17. PublishedIsServed'
  BY <1>1, <1>2 DEF IInv, PublishedIsServed, PublishedAt
<1>18. OrderIsNew'
  BY <1>1, <1>2 DEF IInv, OrderIsNew
<1>19. VersionAtPoint'
  BY <1>1, <1>2 DEF IInv, VersionAtPoint, VersionAt
<1>20. ChallengeAtPoint'
  BY <1>2
<1>21. OverIsClean'
  BY <1>2
<1> QED
  BY <1>4, <1>5, <1>6, <1>7, <1>8, <1>9, <1>10, <1>11, <1>12, <1>13, <1>14, <1>15, <1>16, <1>17, <1>18, <1>19,
     <1>20, <1>21 DEF IInv

\* At startup a certificate whose version cannot be read asks for attention.
LEMMA ReconcileMaterialKeeps ==
  ASSUME IInv, ReconcileMaterial
  PROVE  IInv'
<1>1. /\ UNCHANGED <<row, artifact, vault, served, include, txt, edits, at, gone, inquiry, asked, unbinding, removal, drift, orphan, damaged>>
      /\ TypeOK /\ ui = "down" /\ ui' = "tasks" /\ item \in [Certs -> Items]
      /\ item' = [c \in Certs |-> IF Readable(c) THEN item[c] ELSE [item[c] EXCEPT !.state = "needs_attention"]]
  BY DEF ReconcileMaterial, world, requests, history, IInv, TypeOK
<1>2. /\ RowTypeOK' /\ OwnedAreActive' /\ OneActive' /\ KindAtPoint' /\ ChallengeAtPoint' /\ OverIsClean'
      /\ \A u \in Tasks : IsTask(row[u])'
      /\ \A d \in Certs : VersionsOf(d)' = VersionsOf(d) /\ ActiveTasks(d)' = ActiveTasks(d)
      /\ \A u \in Tasks : /\ CertOf(u)' = CertOf(u) /\ IsOrder(u)' = IsOrder(u) /\ IsActive(u)' = IsActive(u)
                          /\ (IsActive(u) => CertOf(u) \in Certs)
                          /\ (at[u] # "none" => IsActive(u))
                          /\ row'[u] = row[u] /\ at'[u] = at[u]
  <2>1. TasksStay
    BY <1>1 DEF TasksStay, IInv, TypeOK
  <2> QED
    BY <2>1, TasksStayKeeps
<1>3. left' \in 0..Budget
  BY <1>1 DEF ReconcileMaterial, TypeOK, Works
<1>4. ASSUME NEW c \in Certs
      PROVE  /\ item'[c] \in Items /\ item'[c].version = item[c].version /\ item'[c].bound = item[c].bound
             /\ \/ item'[c].state = item[c].state
                \/ item'[c].state = "needs_attention" /\ item[c].state # "deleted"
  <2>1. item[c] \in Items /\ (item[c].state = "deleted" => item[c].version = NoVersion)
    BY <1>1 DEF IInv, ItemsNameTheirOwn
  <2>2. CASE Readable(c)
    BY <1>1, <2>1, <2>2
  <2>3. CASE ~Readable(c)
    <3> DEFINE new == [item[c] EXCEPT !.state = "needs_attention"]
    <3>1. new \in Items /\ new.state = "needs_attention" /\ new.version = item[c].version /\ new.bound = item[c].bound
      BY <2>1 DEF Items, CertificateStates
    <3>2. item'[c] = new
      BY <1>1, <2>3
    <3>3. item[c].state # "deleted"
      BY <2>1, <2>3 DEF Readable
    <3> QED
      BY <3>1, <3>2, <3>3
  <2> QED
    BY <2>2, <2>3
<1>5. item' \in [Certs -> Items]
  BY <1>1, <1>4
<1>6. \A c \in Certs : /\ item'[c].version = item[c].version /\ item'[c].bound = item[c].bound
                       /\ (item'[c].state \in {"none", "deleted"} => item'[c].state = item[c].state)
                       /\ (item[c].state = "deleted" => item'[c].state = "deleted")
  BY <1>4
<1>7. TypeOK'
  BY <1>1, <1>2, <1>3, <1>5 DEF TypeOK
<1>8. RowTypeOK'
  BY <1>2
<1>9. OwnedAreActive'
  BY <1>2
<1>10. OneActive'
  BY <1>2
<1>11. KindAtPoint'
  BY <1>2
<1>12. BoundAsAsked'
  BY <1>1, <1>2, <1>6 DEF IInv, BoundAsAsked
<1>13. ItemsNameTheirOwn'
  BY <1>1, <1>2, <1>6 DEF IInv, ItemsNameTheirOwn
<1>14. RequestsHold'
  BY <1>1, <1>6 DEF IInv, RequestsHold
<1>15. ActiveIsStored'
  BY <1>1, <1>6 DEF IInv, ActiveIsStored
<1>16. ServedIsOwn'
  BY <1>1, <1>2 DEF IInv, ServedIsOwn
<1>17. ServedIsStored'
  BY <1>1, <1>6 DEF IInv, ServedIsStored
<1>18. DriftHasTask'
  BY <1>1, <1>2, <1>6 DEF IInv, DriftHasTask
<1>19. DeletedIsGone'
  BY <1>1, <1>2, <1>6 DEF IInv, DeletedIsGone
<1>20. PublishedIsServed'
  BY <1>1, <1>2, <1>6 DEF IInv, PublishedIsServed, PublishedAt, OwnedAreActive
<1>21. OrderIsNew'
  BY <1>1, <1>2, <1>6 DEF IInv, OrderIsNew
<1>22. VersionAtPoint'
  BY <1>1, <1>2 DEF IInv, VersionAtPoint, VersionAt
<1>23. ChallengeAtPoint'
  BY <1>2
<1>24. OverIsClean'
  BY <1>2
<1> QED
  BY <1>7, <1>8, <1>9, <1>10, <1>11, <1>12, <1>13, <1>14, <1>15, <1>16, <1>17, <1>18, <1>19, <1>20, <1>21,
     <1>22, <1>23, <1>24 DEF IInv

-------------------------------------------------------------------------------
(* The process. *)

\* A process that ends forgets what its goroutines were about to say.
LEMMA EndsKeeps ==
  ASSUME IInv, Ends, left' \in 0..Budget
  PROVE  IInv'
<1>1. /\ TypeOK /\ UNCHANGED <<row, item, artifact, vault, served, include, txt, edits, damaged>>
      /\ ui' = "down" /\ at' = [t \in Tasks |-> "none"] /\ gone' = {} /\ asked' = {} /\ unbinding' = {}
      /\ removal' = [c \in Certs |-> "none"] /\ inquiry' = [t \in Tasks |-> NoInquiry]
      /\ drift' = drift \cup unbinding \cup {CertOf(t) : t \in {u \in Owned : at[u] \in {"deployed", "bound"} /\ row[u].bound}}
      /\ orphan' = orphan \cup {t \in Owned \cap txt : artifact[t] = "none"}
  BY DEF Ends, rows, world, IInv
<1>2. /\ \A u \in Tasks : at'[u] = "none"
      /\ \A u \in Tasks : u \in txt /\ artifact[u] = "none" /\ at[u] # "none" => u \in orphan'
      /\ orphan \subseteq orphan' /\ drift \subseteq drift' /\ unbinding \subseteq drift'
      /\ \A u \in Tasks : at[u] \in {"deployed", "bound"} /\ row[u].bound => CertOf(u) \in drift'
  BY <1>1 DEF Owned
<1>3. \A u \in Tasks : at[u] # "none" => CertOf(u) \in Certs
  BY TaskFacts
<1>4. drift' \subseteq Certs /\ orphan' \subseteq Tasks
  BY <1>1, <1>3 DEF TypeOK, Owned
<1>5. /\ \A c \in Certs : VersionsOf(c)' = VersionsOf(c) /\ ActiveTasks(c)' = ActiveTasks(c)
      /\ \A u \in Tasks : /\ CertOf(u)' = CertOf(u) /\ IsOrder(u)' = IsOrder(u) /\ IsActive(u)' = IsActive(u)
                          /\ row'[u] = row[u]
  BY <1>1 DEF VersionsOf, ActiveTasks, CertOf, IsOrder, IsActive
<1>6. \A u \in Tasks : IsTask(row[u])'
  BY <1>1 DEF TypeOK
<1>7. "none" \in Points /\ "none" \notin OrderPoints \cup BindingPoints \cup {"deployed", "bound"}
  BY DEF Points, OrderPoints, BindingPoints, ChallengePoints, MaterialPoints
<1>8. ASSUME NEW u \in Tasks, IsActive(u)
      PROVE  ChallengeAt(u, at[u])'
  <2>1. ChallengeAt(u, at[u])
    BY <1>8 DEF IInv, ChallengeAtPoint
  <2>2. (~IsOrder(u) => NoChallenge(u)) /\ (NoChallenge(u) => NoChallenge(u)')
    BY <1>1, <1>2, <2>1 DEF ChallengeAt, NoChallenge
  <2>3. ChallengeIsKnown(u, at[u])'
    BY <1>1, <1>2, <2>1 DEF ChallengeAt, ChallengeIsKnown
  <2> QED
    BY <1>2, <1>5, <2>2, <2>3 DEF ChallengeAt, EarlyPoints, CleanedPoints, MaterialPoints, BindingPoints
<1>9. TypeOK'
  <2>1. /\ inquiry' \in [Tasks -> Inquiries]
        /\ \A u \in Tasks : inquiry'[u].step # "none" => inquiry'[u].cert \in Certs
    BY <1>1, ReadFacts
  <2> QED
    BY <1>1, <1>4, <1>6, <1>7, <2>1 DEF TypeOK
<1>10. RowTypeOK'
  BY <1>1, <1>5 DEF IInv, RowTypeOK
<1>11. OwnedAreActive'
  BY <1>2 DEF OwnedAreActive
<1>12. OneActive'
  BY <1>5 DEF IInv, OneActive
<1>13. KindAtPoint'
  BY <1>2, <1>7 DEF KindAtPoint, KindAt
<1>14. BoundAsAsked'
  BY <1>1, <1>5 DEF IInv, BoundAsAsked
<1>15. ItemsNameTheirOwn'
  BY <1>1, <1>5 DEF IInv, ItemsNameTheirOwn
<1>16. RequestsHold'
  BY <1>1 DEF RequestsHold
<1>17. ActiveIsStored'
  BY <1>1 DEF IInv, ActiveIsStored
<1>18. ServedIsOwn'
  BY <1>1, <1>5 DEF IInv, ServedIsOwn
<1>19. ServedIsStored'
  BY <1>1, <1>2 DEF IInv, ServedIsStored
<1>20. DriftHasTask'
  BY <1>1, <1>2 DEF IInv, DriftHasTask
<1>21. DeletedIsGone'
  BY <1>1, <1>2, <1>5 DEF IInv, DeletedIsGone
<1>22. PublishedIsServed'
  BY <1>2, <1>7 DEF PublishedIsServed, PublishedAt
<1>23. OrderIsNew'
  BY <1>1, <1>5 DEF IInv, OrderIsNew
<1>24. VersionAtPoint'
  BY <1>1, <1>2, <1>5 DEF VersionAtPoint, VersionAt, EarlyPoints, ChallengePoints, CleanedPoints
<1>25. ChallengeAtPoint'
  BY <1>5, <1>8 DEF ChallengeAtPoint
<1>26. OverIsClean'
  BY <1>1, <1>2 DEF IInv, OverIsClean, NoChallenge
<1> QED
  BY <1>9, <1>10, <1>11, <1>12, <1>13, <1>14, <1>15, <1>16, <1>17, <1>18, <1>19, <1>20, <1>21, <1>22, <1>23,
     <1>24, <1>25, <1>26 DEF IInv

\* The settlement of a task that nobody runs: its challenge is cleaned up, or it asks for attention.
LEMMA ReconcileTaskKeeps ==
  ASSUME IInv, NEW t \in Tasks, ReconcileTask(t)
  PROVE  IInv'
<1>1. /\ TypeOK /\ RowTypeOK /\ ui = "tasks" /\ IsActive(t) /\ at[t] = "none" /\ at' = [at EXCEPT ![t] = "none"] /\ at' = at
      /\ UNCHANGED <<item, vault, served, edits, gone, requests, history>> /\ orphan' = orphan
      /\ row[t].challenge \in {"http", "dns"}
  <2>1. TypeOK /\ RowTypeOK /\ ui = "tasks" /\ IsActive(t) /\ at' = at /\ at \in [Tasks -> Points]
    BY DEF ReconcileTask, IInv, IsActive, TypeOK
  <2>2. at[t] = "none"
    BY <2>1 DEF IInv, OwnedAreActive
  <2> QED
    BY <2>1, <2>2, RowFacts DEF ReconcileTask, history
<1>2. ChallengeIsKnown(t, "none") /\ ItemFits(CertOf(t))
  BY <1>1, SameItemFits DEF IInv, ChallengeAtPoint, ChallengeAt, history
<1>3. ASSUME NEW state \in {"failed", "needs_attention"}, TransitionCertificateTask(t, state, state), UNCHANGED ui,
             left' \in 0..Budget,
             artifact' \in [Tasks -> {"none", "created", "cleaned", "needs_attention"}],
             include' \subseteq Tasks, txt' \subseteq Tasks,
             \A u \in Tasks \ {t} : /\ artifact'[u] = artifact[u] /\ ((u \in include') <=> (u \in include))
                                    /\ ((u \in txt') <=> (u \in txt)),
             state = "failed" => NoChallenge(t)'
      PROVE  IInv'
  <2>1. state \in TaskStates \ Active /\ state \in Stages
    BY DEF TaskStates, Active, Stages
  <2>2. /\ RowTypeOK'
        /\ row'[t].state = state /\ row'[t].kind = row[t].kind /\ row'[t].cert = row[t].cert
        /\ \A u \in Tasks \ {t} : row'[u] = row[u]
    BY <1>1, <1>3, <2>1, Ended
  <2>3. Closes(t, state)
    BY <1>1, <1>3, <2>2 DEF Closes, TypeOK, history
  <2>4. state \in Verdicts => NoChallenge(t)'
    BY <1>3 DEF Verdicts
  <2> QED
    BY <1>1, <1>2, <2>1, <2>3, <2>4, EndKeeps
<1>4. CASE CleansUp(t) /\ TransitionCertificateTask(t, Settled(t), Settled(t)) /\ UNCHANGED ui
  <2>1. /\ NoChallenge(t)' /\ left' \in 0..Budget
        /\ artifact' \in [Tasks -> {"none", "created", "cleaned", "needs_attention"}]
        /\ include' \subseteq Tasks /\ txt' \subseteq Tasks
        /\ \A u \in Tasks \ {t} : /\ artifact'[u] = artifact[u] /\ ((u \in include') <=> (u \in include))
                                  /\ ((u \in txt') <=> (u \in txt))
    BY <1>1, <1>2, <1>4, CleanedUp
  <2>2. Settled(t) \in {"failed", "needs_attention"}
    BY DEF Settled
  <2> QED
    BY <1>3, <1>4, <2>1, <2>2
<1>5. CASE CleanupBreaks(t) /\ TransitionCertificateTask(t, "needs_attention", "needs_attention") /\ UNCHANGED ui
  <2>1. ~IsActive(t)'
    BY <1>1, <1>5, Ended DEF IsActive, TaskStates, Active, Stages
  <2>2. /\ left' \in 0..Budget
        /\ artifact' \in [Tasks -> {"none", "created", "cleaned", "needs_attention"}]
        /\ include' \subseteq Tasks /\ txt' \subseteq Tasks
        /\ \A u \in Tasks \ {t} : /\ artifact'[u] = artifact[u] /\ ((u \in include') <=> (u \in include))
                                  /\ ((u \in txt') <=> (u \in txt))
    BY <1>1, <1>2, <1>5, <2>1, CleanupBroken
  <2> QED
    BY <1>3, <1>5, <2>2
<1>6. CASE Fails("store") /\ ui' = "down" /\ UNCHANGED <<row, artifact, include, txt>>
  <2>1. SameTasks /\ left' \in 0..Budget
    BY <1>1, <1>6, RowsStay DEF Fails, TypeOK
  <2>2. Beside
    BY <1>1, <1>6, <2>1 DEF Beside, TypeOK, requests
  <2> QED
    BY <2>2, BesideKeeps
<1> QED
  BY <1>4, <1>5, <1>6 DEF ReconcileTask

-------------------------------------------------------------------------------
(* The invariant. *)

\* The invariant holds at the start: every task is yet to be asked for.
LEMMA InitIsGood ==
  ASSUME Init
  PROVE  IInv
<1>1. PICK state \in [Certs -> {"none", "unbound", "active"}], challenge \in {"http", "dns"} :
        item = Issued(state, challenge)
  BY DEF Init
<1>2. ASSUME NEW c \in Certs
      PROVE  /\ item[c] \in Items /\ item[c].bound \in {NoVersion, item[c].version}
             /\ item[c].version \in {c, NoVersion} /\ item[c].state \in {"none", "unbound", "active"}
             /\ item[c].state = "none" <=> item[c].version = NoVersion
  BY <1>1 DEF Issued, NoItem, Items, CertificateStates, Versions
<1>3. item \in [Certs -> Items]
  <2>1. item = [c \in Certs |-> item[c]]
    BY <1>1 DEF Issued
  <2> QED
    BY <1>2, <2>1
<1>4. /\ row = [t \in Tasks |-> NoTask] /\ artifact = [t \in Tasks |-> "none"]
      /\ vault = {c \in Certs : item[c].state # "none"} /\ served = [c \in Certs |-> item[c].bound]
      /\ include = {} /\ txt = {} /\ edits = 0
      /\ ui = "up" /\ at = [t \in Tasks |-> "none"] /\ gone = {} /\ asked = {} /\ unbinding = {}
      /\ removal = [c \in Certs |-> "none"] /\ inquiry = [t \in Tasks |-> NoInquiry]
      /\ drift = {} /\ orphan = {} /\ damaged = {} /\ left = Budget
  BY DEF Init
<1>5. /\ row \in [Tasks -> TaskRows]
      /\ \A t \in Tasks : row[t].state = "none" /\ IsTask(row[t]) /\ at[t] = "none" /\ ~IsActive(t)
  BY <1>4, NoTaskFacts, RowIsTask DEF IsActive, Active
<1>6. \A c \in Certs : c \in VersionsOf(c) /\ c # NoVersion
  BY DEF VersionsOf
<1>7. "none" \in Points /\ "none" \notin OrderPoints \cup BindingPoints \cup {"deployed", "bound"}
  BY DEF Points, OrderPoints, BindingPoints, ChallengePoints, MaterialPoints
<1>8. served \in [Certs -> Versions \cup {NoVersion}] /\ \A c \in Certs : served[c] = item[c].bound
  BY <1>2, <1>4 DEF Items
<1>9. vault \subseteq Versions
  BY <1>4 DEF Versions
<1>10. TypeOK
  BY <1>3, <1>4, <1>5, <1>7, <1>8, <1>9, NoInquiryFacts DEF TypeOK
<1>11. RowTypeOK
  BY <1>5 DEF RowTypeOK
<1>12. OwnedAreActive
  BY <1>4 DEF OwnedAreActive
<1>13. OneActive
  BY <1>5 DEF OneActive
<1>14. KindAtPoint
  BY <1>5, <1>7 DEF KindAtPoint, KindAt
<1>15. BoundAsAsked
  BY <1>5 DEF BoundAsAsked
<1>16. ItemsNameTheirOwn
  BY <1>2, <1>6 DEF ItemsNameTheirOwn
<1>17. RequestsHold
  BY <1>4 DEF RequestsHold
<1>18. ActiveIsStored
  BY <1>2, <1>4 DEF ActiveIsStored
<1>19. ServedIsOwn
  BY <1>2, <1>6, <1>8 DEF ServedIsOwn
<1>20. ServedIsStored
  BY <1>2, <1>4, <1>8 DEF ServedIsStored
<1>21. DriftHasTask
  BY <1>8 DEF DriftHasTask
<1>22. DeletedIsGone
  BY <1>2 DEF DeletedIsGone
<1>23. PublishedIsServed
  BY <1>5, <1>7 DEF PublishedIsServed, PublishedAt
<1>24. OrderIsNew
  BY <1>5 DEF OrderIsNew
<1>25. VersionAtPoint
  BY <1>5 DEF VersionAtPoint
<1>26. ChallengeAtPoint
  BY <1>5 DEF ChallengeAtPoint
<1>27. OverIsClean
  BY <1>4, <1>9 DEF OverIsClean, NoChallenge, Versions
<1> QED
  BY <1>10, <1>11, <1>12, <1>13, <1>14, <1>15, <1>16, <1>17, <1>18, <1>19, <1>20, <1>21, <1>22, <1>23, <1>24,
     <1>25, <1>26, <1>27 DEF IInv

\* A task that does nothing changes nothing the invariant speaks of.
LEMMA StutterKeeps ==
  ASSUME IInv, UNCHANGED vars
  PROVE  IInv'
<1>1. TypeOK /\ RowTypeOK /\ UNCHANGED <<row, item, ui, edits, gone, inquiry, asked, left, removal>>
  BY DEF IInv, vars, rows, world, requests
<1>2. SameTasks
  BY <1>1, RowsStay
<1>3. Beside
  BY <1>1, <1>2 DEF Beside, TypeOK, vars, rows, world, requests, history
<1> QED
  BY <1>3, BesideKeeps

\* Every step of a goroutine keeps the invariant.
LEMMA TaskStepKeeps ==
  ASSUME IInv, NEW t \in Tasks, TaskStep(t)
  PROVE  IInv'
  BY TakeKeeps, RemovePendingKeeps, ReadKeeps, PrepareKeeps, OrderKeeps, CreateOrderKeeps,
     PropagateKeeps, ProvisionNothingKeeps, CreateTXTKeeps, OwnTXTKeeps, RetractTXTKeeps,
     OwnIncludeKeeps, PublishIncludeKeeps, AwaitTXTKeeps, AuthorizeKeeps, CleanKeeps, CleanUpKeeps,
     FinalizeKeeps, ValidateKeeps, RejectKeeps, SucceedStagingKeeps, StoreCertificateVersionKeeps,
     DeployKeeps, AbandonKeeps, PublishVersionKeeps, DiscardKeeps, CompleteProductionKeeps,
     FailTaskKeeps, CancelTaskKeeps, DoubtKeeps, PrepareBindingKeeps, StageBindingKeeps,
     PublishBindingKeeps, CompleteBindingKeeps
  DEF TaskStep

\* Every step of a request about a certificate keeps the invariant.
LEMMA CertificateStepKeeps ==
  ASSUME IInv, NEW c \in Certs, CertificateStep(c)
  PROVE  IInv'
  BY OpensKeeps, PublishUnbindingKeeps, CompleteUnbindingKeeps,
     CheckDeletionKeeps, CommitDeletionKeeps, PurgeMaterialKeeps, UpdateRenewalPolicyKeeps
  DEF CertificateStep

\* Every step keeps the invariant.
LEMMA NextKeeps ==
  ASSUME IInv, [Next]_vars
  PROVE  IInv'
<1>1. CASE Die \/ Stopped
  <2>1. Ends /\ left' \in 0..Budget
    BY <1>1 DEF Die, Stopped, Fails, Works, IInv, TypeOK
  <2> QED
    BY <2>1, EndsKeeps
<1>2. CASE UNCHANGED vars
  BY <1>2, StutterKeeps
<1>3. ASSUME NEW t \in Tasks,
             \/ TaskStep(t) \/ RequestStep(t)
             \/ RequestCancellation(t) \/ Signal(t) \/ TimesOut(t) \/ ReconcileTask(t)
      PROVE  IInv'
  BY <1>3, TaskStepKeeps, RequestStepKeeps, RequestCancellationKeeps, SignalKeeps, TimesOutKeeps, ReconcileTaskKeeps
<1>4. ASSUME NEW c \in Certs, CertificateStep(c)
      PROVE  IInv'
  BY <1>4, CertificateStepKeeps
<1>5. CASE OtherRelease \/ (\E v \in Versions : Damage(v)) \/ Stop \/ ReconcileMaterial \/ Serve
  BY <1>5, OtherReleaseKeeps, DamageKeeps, StopKeeps, ReconcileMaterialKeeps, ServeKeeps
<1> QED
  BY <1>1, <1>2, <1>3, <1>4, <1>5 DEF Next

\* The invariant holds in every state: whatever fails, ends or interleaves (the certificate services).
THEOREM Invariance == Spec => []IInv
<1>1. Init => IInv
  BY InitIsGood
<1>2. IInv /\ [Next]_vars => IInv'
  BY NextKeeps
<1> QED
  BY <1>1, <1>2, PTL DEF Spec

\* Every variable keeps its type (rows of tasks, certificates, artifacts, the vault and production).
THEOREM TypeCorrect == Spec => []TypeOK
<1>1. IInv => TypeOK
  BY DEF IInv
<1> QED
  BY <1>1, Invariance, PTL

\* A task that ends with a verdict has cleaned up after itself (Cleanup and the ends of an order).
THEOREM ChallengesClean == Spec => []ChallengesAreCleaned
<1>1. IInv => ChallengesAreCleaned
  BY DEF IInv, OverIsClean, NoChallenge, ChallengesAreCleaned, Verdicts
<1> QED
  BY <1>1, Invariance, PTL

\* What nginx serves is in the vault and in the bindings, and what was deleted is not served (the release
\* of a version, Unbind, Delete and the ends of a task).
THEOREM UsedIsKept == Spec => []InUseIsKept
<1>1. IInv => DriftHasCause
  BY DEF IInv, DriftHasTask, DriftHasCause
<1>2. IInv => InUseIsKept
  BY <1>1 DEF IInv, InUseIsKept
<1> QED
  BY <1>2, Invariance, PTL

-------------------------------------------------------------------------------
(* What the rows say. *)

VerdictIsTrueNow ==
  \A t \in Tasks :
    (ui # "tasks" /\ IsOrder(t) /\ row[t].state \in Active /\ row'[t].state \in {"failed", "cancelled"})
    => served[CertOf(t)] # t /\ t \notin vault

RowsFollowNow ==
  \A c \in Certs : (item'[c].bound # item[c].bound /\ item'[c].bound # NoVersion)
                     => served[c] = item'[c].bound

\* No step but the ends of a task gives one a verdict of failed or cancelled.
Undecided == \A t \in Tasks : row[t].state \in Active => row'[t].state \notin {"failed", "cancelled"}

\* A goroutine that goes on, or a request, decides nothing.
LEMMA SameUndecided ==
  ASSUME SameTasks
  PROVE  Undecided
  BY DEF SameTasks, SameTask, Undecided, Active

\* advance gives no verdict.
LEMMA AdvanceUndecided ==
  ASSUME IInv, NEW t \in Tasks, NEW from, NEW stage \in Stages, NEW point, Advance(t, from, stage, point)
  PROVE  Undecided /\ item' = item
<1>1. item' = item /\ RowTypeOK
  BY DEF Advance, IInv
<1>2. CASE AdvanceAs(t, stage, point)
  BY <1>1, <1>2, Advances, SameUndecided DEF AdvanceAs
<1>3. CASE Strands(t)
  BY <1>1, <1>3, RowsStay, SameUndecided DEF Strands
<1> QED
  BY <1>1, <1>2, <1>3 DEF Advance

\* The end of one task is no verdict on another.
LEMMA OneDecided ==
  ASSUME IInv, NEW t \in Tasks, NEW state \in TaskStates \ Active, NEW stage \in Stages,
         TransitionCertificateTask(t, state, stage)
  PROVE  /\ row'[t].state = state /\ \A u \in Tasks \ {t} : row'[u] = row[u]
         /\ state \notin {"failed", "cancelled"} => Undecided
<1>1. row'[t].state = state /\ \A u \in Tasks \ {t} : row'[u] = row[u]
  BY Ended DEF IInv
<1> QED
  BY <1>1 DEF Undecided, Active

\* Steps of a goroutine that leave the rows of certificates alone and give no verdict.
GoesOn(t) ==
  \/ Take(t) \/ RemovePending(t) \/ Read(t) \/ ProvisionNothing(t) \/ CreateTXT(t) \/ OwnTXT(t)
  \/ RetractTXT(t) \/ OwnInclude(t) \/ PublishInclude(t) \/ AwaitTXT(t) \/ CleanUp(t) \/ Reject(t)
  \/ StoreCertificateVersion(t) \/ Abandon(t) \/ PublishVersion(t) \/ Discard(t) \/ PublishBinding(t) \/ Prepare(t)
  \/ Order(t) \/ CreateOrder(t) \/ Propagate(t) \/ Authorize(t) \/ Clean(t) \/ Finalize(t)
  \/ Validate(t) \/ PrepareBinding(t) \/ StageBinding(t) \/ Deploy(t)
\* They do.
LEMMA GoesOnQuietly ==
  ASSUME IInv, NEW t \in Tasks, GoesOn(t)
  PROVE  Undecided /\ item' = item
<1>1. row' = row => Undecided
  BY DEF Undecided, Active
<1>2. CASE Take(t)
  BY <1>1, <1>2 DEF Take, rows
<1>3. CASE RemovePending(t)
  BY <1>1, <1>3 DEF RemovePending, rows
<1>4. CASE Read(t)
  BY <1>1, <1>4 DEF Read, rows
<1>5. CASE ProvisionNothing(t)
  BY <1>1, <1>5 DEF ProvisionNothing, rows
<1>6. CASE CreateTXT(t)
  BY <1>1, <1>6 DEF CreateTXT, rows
<1>7. CASE OwnTXT(t)
  BY <1>1, <1>7 DEF OwnTXT, rows
<1>8. CASE RetractTXT(t)
  BY <1>1, <1>8 DEF RetractTXT, rows
<1>9. CASE OwnInclude(t)
  BY <1>1, <1>9 DEF OwnInclude, rows
<1>10. CASE PublishInclude(t)
  BY <1>1, <1>10 DEF PublishInclude, rows
<1>11. CASE AwaitTXT(t)
  BY <1>1, <1>11 DEF AwaitTXT, rows, Breaks
<1>12. CASE CleanUp(t)
  BY <1>1, <1>12 DEF CleanUp, rows
<1>13. CASE Reject(t)
  BY <1>1, <1>13 DEF Reject, rows, Breaks
<1>14. CASE StoreCertificateVersion(t)
  BY <1>1, <1>14 DEF StoreCertificateVersion, rows
<1>15. CASE Abandon(t)
  BY <1>1, <1>15 DEF Abandon, rows
<1>16. CASE PublishVersion(t)
  BY <1>1, <1>16 DEF PublishVersion, rows
<1>17. CASE Discard(t)
  BY <1>1, <1>17 DEF Discard, rows
<1>18. CASE PublishBinding(t)
  BY <1>1, <1>18 DEF PublishBinding, rows
<1>19. CASE Prepare(t)
  BY <1>1, <1>19, AdvanceUndecided DEF Prepare, Breaks, rows, Stages
<1>20. CASE Order(t)
  BY <1>1, <1>20, AdvanceUndecided DEF Order, Breaks, rows, Stages
<1>21. CASE CreateOrder(t)
  BY <1>1, <1>21, AdvanceUndecided DEF CreateOrder, Breaks, rows, Stages
<1>22. CASE Propagate(t)
  BY <1>1, <1>22, AdvanceUndecided DEF Propagate, Breaks, rows, Stages
<1>23. CASE Authorize(t)
  BY <1>1, <1>23, AdvanceUndecided DEF Authorize, Breaks, rows, Stages
<1>24. CASE Clean(t)
  BY <1>1, <1>24, AdvanceUndecided DEF Clean, Breaks, rows, Stages
<1>25. CASE Finalize(t)
  BY <1>1, <1>25, AdvanceUndecided DEF Finalize, Breaks, rows, Stages
<1>26. CASE Validate(t)
  BY <1>1, <1>26, AdvanceUndecided DEF Validate, Breaks, rows, Stages
<1>27. CASE PrepareBinding(t)
  BY <1>1, <1>27, AdvanceUndecided DEF PrepareBinding, Breaks, rows, Stages
<1>28. CASE StageBinding(t)
  BY <1>1, <1>28, AdvanceUndecided DEF StageBinding, Breaks, rows, Stages
<1>29. CASE Deploy(t)
  <2>1. item' = item /\ RowTypeOK
    BY <1>29 DEF Deploy, IInv
  <2>2. CASE AdvanceAs(t, "deploying", "deploying")
    BY <2>1, <2>2, Advances, SameUndecided DEF AdvanceAs, Stages
  <2> QED
    BY <1>1, <1>29, <2>1, <2>2 DEF Deploy
<1> QED
  BY <1>2, <1>3, <1>4, <1>5, <1>6, <1>7, <1>8, <1>9, <1>10, <1>11, <1>12, <1>13, <1>14, <1>15, <1>16,
     <1>17, <1>18, <1>19, <1>20, <1>21, <1>22, <1>23, <1>24, <1>25, <1>26, <1>27, <1>28, <1>29 DEF GoesOn

\* What a step without a verdict says of orders is true.
LEMMA UndecidedIsTrue ==
  ASSUME Undecided
  PROVE  VerdictIsTrueNow
  BY DEF Undecided, VerdictIsTrueNow

\* An order that fails or is cancelled has no version in production, and none in the vault.
LEMMA EndIsTrue ==
  ASSUME IInv, NEW t \in Tasks, at[t] \in {"failing", "quitting"}, \A u \in Tasks \ {t} : row'[u] = row[u]
  PROVE  VerdictIsTrueNow
<1>1. IsOrder(t) => VersionAt(t, at[t])
  BY TaskFacts
<1>2. IsOrder(t) => served[CertOf(t)] # t /\ t \notin vault
  BY <1>1 DEF VersionAt, EarlyPoints, CleanedPoints
<1> QED
  BY <1>2 DEF VerdictIsTrueNow, Active

\* The steps of a goroutine that end a task.
LEMMA EndingSteps ==
  ASSUME IInv, NEW t \in Tasks,
         SucceedStaging(t) \/ CompleteProduction(t) \/ FailTask(t) \/ CancelTask(t) \/ Doubt(t) \/ CompleteBinding(t)
  PROVE  VerdictIsTrueNow /\ RowsFollowNow
<1>1. /\ row' = row => VerdictIsTrueNow
      /\ item' = item => RowsFollowNow
  BY DEF VerdictIsTrueNow, RowsFollowNow, Active
<1>2. /\ {"succeeded", "needs_attention", "failed", "cancelled"} \subseteq TaskStates \ Active
      /\ {"completed", "needs_attention", "failed", "cancelled"} \subseteq Stages /\ TypeOK
  BY DEF TaskStates, Active, Stages, IInv
<1>3. TransitionCertificateTask(t, "succeeded", "completed") => VerdictIsTrueNow
  BY <1>2, OneDecided, UndecidedIsTrue
<1>4. CASE SucceedStaging(t)
  BY <1>1, <1>3, <1>4 DEF SucceedStaging, Strands
<1>5. CASE CompleteProduction(t)
  <2>1. CASE UNCHANGED <<row, item>>
    BY <1>1, <2>1
  <2>2. CASE CompleteIssuedCertificateTask(t) \/ CompleteRenewedCertificateTask(t)
    <3>1. /\ TransitionCertificateTask(t, "succeeded", "completed")
          /\ item' = [item EXCEPT ![CertOf(t)] = Completed(t)] /\ at[t] = "deployed" /\ IsOrder(t)
      BY <1>5, <2>2 DEF CompleteProduction, CompleteIssuedCertificateTask, CompleteRenewedCertificateTask, IsOrder
    <3>2. row[t].bound => served[CertOf(t)] = t
      BY <3>1, TaskFacts DEF PublishedAt
    <3>3. /\ Completed(t).bound = (IF row[t].bound THEN t ELSE NoVersion) /\ CertOf(t) \in Certs
          /\ item \in [Certs -> Items]
      BY <1>2, <3>1, TaskFacts DEF Completed, TypeOK
    <3>4. RowsFollowNow
      BY <3>1, <3>2, <3>3 DEF RowsFollowNow
    <3> QED
      BY <1>3, <3>1, <3>4
  <2> QED
    BY <1>5, <2>1, <2>2 DEF CompleteProduction
<1>6. CASE FailTask(t)
  <2>1. at[t] = "failing" /\ IsActive(t) /\ (item' = item \/ item' \in Backoff(CertOf(t)))
    BY <1>6, TaskFacts DEF FailTask
  <2>2. \A u \in Tasks \ {t} : row'[u] = row[u]
    <3> DEFINE end == IF t \in gone /\ (row[t].cancel \/ ~IsOrder(t)) THEN "cancelled" ELSE "failed"
    <3>1. row' = row \/ TransitionCertificateTask(t, end, end)
      BY <1>6 DEF FailTask
    <3>2. end \in TaskStates \ Active /\ end \in Stages
      BY <1>2
    <3> HIDE DEF end
    <3> QED
      BY <3>1, <3>2, OneDecided
  <2>3. CASE item' = item
    BY <1>1, <2>1, <2>2, <2>3, EndIsTrue
  <2>4. CASE item' \in Backoff(CertOf(t))
    <3>1. PICK state : item' = [item EXCEPT ![CertOf(t)].state = state]
      BY <2>4 DEF Backoff
    <3>2. item \in [Certs -> Items] /\ CertOf(t) \in Certs
      BY <1>2, <2>1, TaskFacts DEF TypeOK
    <3> DEFINE new == [item[CertOf(t)] EXCEPT !.state = state]
    <3>3. new.bound = item[CertOf(t)].bound
      BY <3>2 DEF Items
    <3>4. item' = [item EXCEPT ![CertOf(t)] = new]
      BY <3>1
    <3>5. \A c \in Certs : item'[c].bound = item[c].bound
      BY <3>2, <3>3, <3>4
    <3> QED
      BY <2>1, <2>2, <3>5, EndIsTrue DEF RowsFollowNow
  <2> QED
    BY <2>1, <2>3, <2>4
<1>7. CASE CancelTask(t)
  <2>1. at[t] = "quitting" /\ item' = item /\ \A u \in Tasks \ {t} : row'[u] = row[u]
    BY <1>2, <1>7, OneDecided DEF CancelTask
  <2> QED
    BY <1>1, <2>1, EndIsTrue
<1>8. CASE Doubt(t)
  <2> DEFINE end == IF ~IsOrder(t) /\ t \in gone THEN "cancelled" ELSE "needs_attention"
  <2>1. item' = item /\ (row' = row \/ TransitionCertificateTask(t, end, end))
    BY <1>8 DEF Doubt
  <2>2. end \in TaskStates \ Active /\ end \in Stages /\ (end = "cancelled" => ~IsOrder(t))
        /\ end \in {"cancelled", "needs_attention"}
    BY <1>2
  <2> HIDE DEF end
  <2>3. TransitionCertificateTask(t, end, end) => VerdictIsTrueNow
    BY <2>2, OneDecided DEF VerdictIsTrueNow, Active
  <2> QED
    BY <1>1, <2>1, <2>3
<1>9. CASE CompleteBinding(t)
  <2>1. CASE UNCHANGED <<row, item>>
    BY <1>1, <2>1
  <2>2. CASE CompleteCertificateBindingTask(t)
    <3>1. /\ TransitionCertificateTask(t, "succeeded", "completed") /\ item[CertOf(t)].version = VersionOf(t)
          /\ item[CertOf(t)].bound = NoVersion
          /\ at[t] = "bound" /\ PublishedAt(t, "bound") /\ CertOf(t) \in Certs /\ item \in [Certs -> Items]
      BY <1>2, <1>9, <2>2, TaskFacts DEF CompleteBinding, CompleteCertificateBindingTask, Bindable, TypeOK, VersionOf,
         KindAt, BindingPoints, IsOrder
    <3>2. PICK state : item' = [item EXCEPT ![CertOf(t)].bound = VersionOf(t), ![CertOf(t)].state = state]
      BY <2>2 DEF CompleteCertificateBindingTask
    <3>3. served[CertOf(t)] = VersionOf(t)
      BY <3>1 DEF PublishedAt
    <3> DEFINE old == item[CertOf(t)]
               new == [old EXCEPT !.bound = VersionOf(t), !.state = state]
    <3>4. new.bound = VersionOf(t)
      BY <3>1 DEF Items
    <3>5. item' = [item EXCEPT ![CertOf(t)] = new]
      BY <3>1, <3>2
    <3>6. item'[CertOf(t)].bound = VersionOf(t) /\ \A d \in Certs \ {CertOf(t)} : item'[d] = item[d]
      BY <3>1, <3>4, <3>5
    <3>7. RowsFollowNow
      BY <3>3, <3>6 DEF RowsFollowNow
    <3> QED
      BY <1>3, <3>1, <3>7
  <2> QED
    BY <1>9, <2>1, <2>2 DEF CompleteBinding
<1> QED
  BY <1>4, <1>5, <1>6, <1>7, <1>8, <1>9

\* Requests for tasks give no verdict, and bind nothing.
LEMMA RequestStepIsTrue ==
  ASSUME IInv, NEW t \in Tasks, RequestStep(t)
  PROVE  VerdictIsTrueNow /\ RowsFollowNow
<1>1. item' = item
  BY DEF RequestStep, ReadCertificate, ReadBindings, ReviewProduction, Refuse, Inquires, rows,
     QueueIssue, QueueRenewal, QueueBinding, Queues
<1>2. CASE row' = row
  BY <1>1, <1>2 DEF VerdictIsTrueNow, RowsFollowNow, Active
<1>3. CASE QueueIssue(t) \/ QueueRenewal(t) \/ QueueBinding(t)
  <2>1. row[t].state = "none" /\ \E new : row' = [row EXCEPT ![t] = new]
    BY <1>3 DEF QueueIssue, QueueRenewal, QueueBinding, Queues, Free, Start
  <2>2. \A u \in Tasks \ {t} : row'[u] = row[u]
    BY <2>1 DEF IInv, RowTypeOK
  <2>3. Undecided
    BY <2>1, <2>2 DEF Undecided, Active
  <2> QED
    BY <1>1, <2>3, UndecidedIsTrue DEF RowsFollowNow
<1>4. (QueueIssue(t) \/ QueueRenewal(t) \/ QueueBinding(t)) \/ row' = row
  BY DEF RequestStep, ReadCertificate, ReadBindings, ReviewProduction, Refuse, Inquires, rows
<1> QED
  BY <1>2, <1>3, <1>4

\* Requests about certificates give no verdict, and take bindings away at most.
LEMMA CertificateStepIsTrue ==
  ASSUME IInv, NEW c \in Certs, CertificateStep(c)
  PROVE  VerdictIsTrueNow /\ RowsFollowNow
<1>1. /\ row' = row => Undecided
      /\ item' = item => RowsFollowNow
      /\ TypeOK /\ item \in [Certs -> Items]
  BY DEF Undecided, RowsFollowNow, Active, IInv, TypeOK
<1>2. ASSUME NEW t \in Tasks, ReviewOrder(t, c) \/ CreatePlan(t, c) \/ ListDue(t, c) \/ RequestRenewal(t, c)
      PROVE  row' = row /\ item' = item
  BY <1>2 DEF ReviewOrder, CreatePlan, ListDue, RequestRenewal, Opens, Inquires, rows
<1>3. CASE PublishUnbinding(c) \/ CheckDeletion(c) \/ PurgeMaterial(c)
  BY <1>1, <1>3, UndecidedIsTrue DEF PublishUnbinding, CheckDeletion, PurgeMaterial, rows
<1>4. CASE CompleteUnbinding(c)
  <2>1. row' = row /\ (item' = item \/ item' = [item EXCEPT ![c].bound = NoVersion, ![c].state = "unbound"])
    BY <1>4 DEF CompleteUnbinding, CompleteCertificateUnbinding
  <2>2. CASE item' = [item EXCEPT ![c].bound = NoVersion, ![c].state = "unbound"]
    <3> DEFINE new == [item[c] EXCEPT !.bound = NoVersion, !.state = "unbound"]
    <3>1. new.bound = NoVersion /\ item' = [item EXCEPT ![c] = new]
      BY <1>1, <2>2 DEF Items
    <3>2. item'[c].bound = NoVersion /\ \A d \in Certs \ {c} : item'[d] = item[d]
      BY <1>1, <3>1
    <3>3. RowsFollowNow
      BY <3>2 DEF RowsFollowNow
    <3> QED
      BY <1>1, <2>1, <3>3, UndecidedIsTrue
  <2> QED
    BY <1>1, <2>1, <2>2, UndecidedIsTrue
<1>5. CASE CommitDeletion(c)
  <2>1. /\ row' = row
        /\ item' = item \/ item' = [item EXCEPT ![c].state = "deleted", ![c].version = NoVersion, ![c].auto = FALSE]
    BY <1>5 DEF CommitDeletion
  <2>2. CASE item' = [item EXCEPT ![c].state = "deleted", ![c].version = NoVersion, ![c].auto = FALSE]
    <3> DEFINE new == [item[c] EXCEPT !.state = "deleted", !.version = NoVersion, !.auto = FALSE]
    <3>1. new.bound = item[c].bound /\ item' = [item EXCEPT ![c] = new]
      BY <1>1, <2>2 DEF Items
    <3>2. item'[c].bound = item[c].bound /\ \A d \in Certs \ {c} : item'[d] = item[d]
      BY <1>1, <3>1
    <3>3. RowsFollowNow
      BY <3>2 DEF RowsFollowNow
    <3> QED
      BY <1>1, <2>1, <3>3, UndecidedIsTrue
  <2> QED
    BY <1>1, <2>1, <2>2, UndecidedIsTrue
<1>6. CASE UpdateRenewalPolicy(c)
  <2>1. row' = row /\ item' = [item EXCEPT ![c].auto = ~@]
    BY <1>6 DEF UpdateRenewalPolicy
  <2> DEFINE new == [item[c] EXCEPT !.auto = ~item[c].auto]
  <2>2. new.bound = item[c].bound /\ item' = [item EXCEPT ![c] = new]
    BY <1>1, <2>1 DEF Items
  <2>3. item'[c].bound = item[c].bound /\ \A d \in Certs \ {c} : item'[d] = item[d]
    BY <1>1, <2>2
  <2>4. RowsFollowNow
    BY <2>3 DEF RowsFollowNow
  <2> QED
    BY <1>1, <2>1, <2>4, UndecidedIsTrue
<1> QED
  BY <1>1, <1>2, <1>3, <1>4, <1>5, <1>6, UndecidedIsTrue DEF CertificateStep

\* Every step tells the truth.
LEMMA StepIsTrue ==
  ASSUME IInv, [Next]_vars
  PROVE  VerdictIsTrueNow /\ RowsFollowNow
<1>1. /\ row' = row => VerdictIsTrueNow
      /\ item' = item => RowsFollowNow
      /\ ui = "tasks" => VerdictIsTrueNow
  BY DEF VerdictIsTrueNow, RowsFollowNow, Active
<1>2. CASE UNCHANGED vars
  BY <1>1, <1>2 DEF vars, rows
<1>3. ASSUME NEW t \in Tasks, TaskStep(t)
      PROVE  VerdictIsTrueNow /\ RowsFollowNow
  <2>1. CASE SucceedStaging(t) \/ CompleteProduction(t) \/ FailTask(t) \/ CancelTask(t) \/ Doubt(t) \/ CompleteBinding(t)
    BY <2>1, EndingSteps
  <2>2. CASE GoesOn(t)
    BY <1>1, <2>2, GoesOnQuietly, UndecidedIsTrue
  <2> QED
    BY <1>3, <2>1, <2>2 DEF TaskStep, GoesOn
<1>4. ASSUME NEW t \in Tasks, RequestStep(t) \/ RequestCancellation(t)
      PROVE  VerdictIsTrueNow /\ RowsFollowNow
  BY <1>1, <1>4, RequestStepIsTrue, Cancels, SameUndecided, UndecidedIsTrue DEF RequestCancellation, IInv
<1>5. ASSUME NEW t \in Tasks, Signal(t) \/ TimesOut(t) \/ ReconcileTask(t)
      PROVE  VerdictIsTrueNow /\ RowsFollowNow
  BY <1>1, <1>5 DEF Signal, TimesOut, ReconcileTask, rows
<1>6. ASSUME NEW c \in Certs, CertificateStep(c)
      PROVE  VerdictIsTrueNow /\ RowsFollowNow
  BY <1>6, CertificateStepIsTrue
<1>7. CASE OtherRelease \/ (\E v \in Versions : Damage(v)) \/ Die \/ Stop \/ Stopped \/ Serve
  BY <1>1, <1>7 DEF OtherRelease, Damage, Die, Stop, Stopped, Serve, Ends, rows
<1>8. CASE ReconcileMaterial
  <2>1. row' = row /\ item \in [Certs -> Items]
        /\ item' = [c \in Certs |-> IF Readable(c) THEN item[c] ELSE [item[c] EXCEPT !.state = "needs_attention"]]
    BY <1>8 DEF ReconcileMaterial, IInv, TypeOK
  <2>2. ASSUME NEW c \in Certs
        PROVE  item'[c].bound = item[c].bound
    <3>1. [item[c] EXCEPT !.state = "needs_attention"].bound = item[c].bound
      BY <2>1 DEF Items
    <3> QED
      BY <2>1, <3>1
  <2> QED
    BY <1>1, <2>1, <2>2 DEF RowsFollowNow
<1> QED
  BY <1>2, <1>3, <1>4, <1>5, <1>6, <1>7, <1>8 DEF Next

\* A verdict that the goroutine of an order gives is true, and the bindings name only what is served when
\* they are written (fail, cancel and the Complete* transactions).
THEOREM RowsTrue == Spec => RowsTellTheTruth
<1>1. IInv /\ [Next]_vars => [VerdictIsTrueNow]_vars /\ [RowsFollowNow]_vars
  BY StepIsTrue
<1>2. Spec => [][VerdictIsTrueNow]_vars /\ [][RowsFollowNow]_vars
  BY <1>1, Invariance, PTL DEF Spec
<1> QED
  BY <1>2 DEF RowsTellTheTruth, VerdictIsTrue, RowsFollowProduction, VerdictIsTrueNow, RowsFollowNow

=============================================================================
