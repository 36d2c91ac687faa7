-------------------------- MODULE CertificateSecrets --------------------------
(***************************************************************************)
(* ACME accounts and DNS credentials of the UI.  Each has a row in the     *)
(* database, a secret in the vault (the key of the account, the token of   *)
(* the credential) and, the account, a registration with the authority;    *)
(* no transaction spans them.  A request creates from the outside in: the  *)
(* authority, the vault, the row; and it ends an account by reserving the  *)
(* row, deactivating the registration, and completing the row, while a     *)
(* credential loses its row before its token.                              *)
(*                                                                         *)
(* A task uses an account and a credential while it is active; a           *)
(* certificate keeps its credential in use, and so does a plan that may    *)
(* still be executed.  The tasks themselves are the module Certificates.   *)
(***************************************************************************)
EXTENDS Naturals, FiniteSets

CONSTANTS
  Accounts, Credentials,
  Requests,   \* requests in progress at once
  Tasks,      \* plans that may be made and executed
  Faults,     \* what may fail: "store", "vault", "acme", "reply", "ui"
  Budget      \* bound: faults

VARIABLES
  account,    \* certificate_accounts: status of the row
  credential, \* certificate_dns_credentials: status of the row
  work,       \* plan, task and certificate made from one plan: how far they got
  secret,     \* keys and tokens in the vault
  remote,     \* the registration of each account with the authority
  at,         \* the step and the subject of each request
  \* history, for the properties
  forgotten,  \* subjects for which a request failed or died half way
  left        \* what is left of Budget

vars == <<account, credential, work, secret, remote, at, forgotten, left>>

Subjects == Accounts \cup Credentials
NoRequest == [step |-> "idle", subject |-> "none"]
NoWork   == [state |-> "none", account |-> "none", credential |-> "none"]
Steps    == {"registered", "stored", "undo", "reserved", "loaded", "disabled", "erase"}

Fails(what) == what \in Faults /\ left > 0 /\ left' = left - 1
Works       == left' = left

TypeOK ==
  /\ account \in [Accounts -> {"none", "valid", "deactivating", "deactivated"}]
  /\ credential \in [Credentials -> {"none", "valid", "deleted"}]
  /\ work \in [Tasks -> {NoWork} \cup
       [state : {"planned", "active", "issued", "over"}, account : Accounts, credential : Credentials]]
  /\ secret \subseteq Subjects
  /\ remote \in [Accounts -> {"none", "valid", "deactivated"}]
  /\ at \in [Requests -> {NoRequest} \cup [step : Steps, subject : Subjects]]
  /\ forgotten \subseteq Subjects /\ left \in 0..Budget

Init ==
  /\ account = [a \in Accounts |-> "none"] /\ credential = [d \in Credentials |-> "none"]
  /\ work = [t \in Tasks |-> NoWork] /\ secret = {} /\ remote = [a \in Accounts |-> "none"]
  /\ at = [q \in Requests |-> NoRequest] /\ forgotten = {} /\ left = Budget

Goes(q, to) == at' = [at EXCEPT ![q].step = to]
Ends(q)     == at' = [at EXCEPT ![q] = NoRequest]
At(q, step, x) == at[q].step = step /\ at[q].subject = x
\* The name is new: nothing was made for it, and no request makes it.
Fresh(x) ==
  /\ x \notin secret /\ x \notin forgotten
  /\ \A q \in Requests : at[q].subject # x
  /\ IF x \in Accounts THEN account[x] = "none" ELSE credential[x] = "none"

-----------------------------------------------------------------------------
(* Creation.                                                               *)

\* Create registers a new key; an answer that is lost leaves a registration nobody knows.
Register(q, a) ==
  /\ at[q] = NoRequest /\ Fresh(a) /\ remote[a] = "none"
  /\ remote' = [remote EXCEPT ![a] = "valid"]
  /\ \/ at' = [at EXCEPT ![q] = [step |-> "registered", subject |-> a]] /\ Works /\ UNCHANGED forgotten
     \/ Fails("reply") /\ forgotten' = forgotten \cup {a} /\ UNCHANGED at
  /\ UNCHANGED <<account, credential, work, secret>>

\* Import looks a registration up that exists, with the key the user gives.
Import(q, a) ==
  /\ at[q] = NoRequest /\ remote[a] = "valid" /\ a \in forgotten
  /\ account[a] = "none" /\ a \notin secret /\ \A p \in Requests : at[p].subject # a
  /\ at' = [at EXCEPT ![q] = [step |-> "registered", subject |-> a]]
  /\ forgotten' = forgotten \ {a}
  /\ UNCHANGED <<account, credential, work, secret, remote, left>>

\* The token of a credential is verified before anything is written.
VerifyToken(q, d) ==
  /\ at[q] = NoRequest /\ Fresh(d)
  /\ at' = [at EXCEPT ![q] = [step |-> "registered", subject |-> d]]
  /\ UNCHANGED <<account, credential, work, secret, remote, forgotten, left>>

\* StoreAccountKey, StoreCloudflareToken. A failure after the link, to sync the directory, leaves the
\* token where it is; of an account the directory is removed then, if it can be.
StoreSecret(q) ==
  /\ at[q].step = "registered"
  /\ \/ secret' = secret \cup {at[q].subject} /\ Goes(q, "stored") /\ Works /\ UNCHANGED forgotten
     \/ /\ Fails("vault") /\ Ends(q)
        /\ secret' \in {secret, secret \cup {at[q].subject}}
        /\ forgotten' = forgotten \cup ({at[q].subject} \cap (Accounts \cup secret'))
  /\ UNCHANGED <<account, credential, work, remote>>

\* (Mutant: leave the key in the vault when the row is refused.)
InsertAccountKeepingKey(q) ==
  /\ at[q].step = "stored" /\ at[q].subject \in Accounts
  /\ \/ account' = [account EXCEPT ![at[q].subject] = "valid"] /\ Works
     \/ Fails("store") /\ UNCHANGED account
  /\ Ends(q)
  /\ UNCHANGED <<credential, work, secret, remote, forgotten>>

\* CreateCertificateAccount, CreateCertificateDNSCredential.
InsertAccount(q) ==
  /\ at[q].step = "stored" /\ at[q].subject \in Accounts
  /\ \/ account' = [account EXCEPT ![at[q].subject] = "valid"] /\ Ends(q) /\ Works
     \/ Fails("store") /\ Goes(q, "undo") /\ UNCHANGED account
  /\ UNCHANGED <<credential, work, secret, remote, forgotten>>

InsertCredential(q) ==
  /\ at[q].step = "stored" /\ at[q].subject \in Credentials
  /\ \/ credential' = [credential EXCEPT ![at[q].subject] = "valid"] /\ Ends(q) /\ Works
     \/ Fails("store") /\ Goes(q, "undo") /\ UNCHANGED credential
  /\ UNCHANGED <<account, work, secret, remote, forgotten>>

\* The secret goes again when the row is refused; a failure may come before or after it is gone.
Undo(q) ==
  /\ at[q].step = "undo" /\ Ends(q)
  /\ \/ secret' = secret \ {at[q].subject} /\ Works
        /\ forgotten' = forgotten \cup ({at[q].subject} \cap Accounts)
     \/ Fails("vault") /\ secret' \in {secret, secret \ {at[q].subject}}
        /\ forgotten' = forgotten \cup ({at[q].subject} \cap (Accounts \cup secret'))
  /\ UNCHANGED <<account, credential, work, remote>>

-----------------------------------------------------------------------------
(* The end of an account and of a credential.                              *)

Uses(t, x) == work[t].account = x \/ work[t].credential = x

\* BeginCertificateAccountDeactivation refuses an account an active task uses.
Unused(a) == \A t \in Tasks : Uses(t, a) => work[t].state # "active"

Reserve(q, a) ==
  /\ at[q] = NoRequest /\ account[a] \in {"valid", "deactivating"}
  /\ \/ /\ account[a] = "deactivating" \/ Unused(a)
        /\ account' = [account EXCEPT ![a] = "deactivating"]
        /\ at' = [at EXCEPT ![q] = [step |-> "reserved", subject |-> a]] /\ Works
     \/ Fails("store") /\ UNCHANGED <<account, at>>
  /\ UNCHANGED <<credential, work, secret, remote, forgotten>>

LoadKey(q) ==
  /\ at[q].step = "reserved"
  /\ \/ at[q].subject \in secret /\ Goes(q, "loaded") /\ Works
     \/ at[q].subject \notin secret /\ Ends(q) /\ Works
     \/ Fails("vault") /\ Ends(q)
  /\ UNCHANGED <<account, credential, work, secret, remote, forgotten>>

\* The authority refuses an account that is deactivated already, and an answer may be lost.
DeactivateRemote(q) ==
  /\ at[q].step = "loaded"
  /\ LET a == at[q].subject
     IN  \/ /\ remote[a] = "valid" /\ Works
            /\ remote' = [remote EXCEPT ![a] = "deactivated"] /\ Goes(q, "disabled")
         \/ remote[a] = "valid" /\ Fails("reply")
            /\ remote' = [remote EXCEPT ![a] = "deactivated"] /\ Ends(q)
         \/ Fails("acme") /\ Ends(q) /\ UNCHANGED remote
         \/ remote[a] = "deactivated" /\ Ends(q) /\ Works /\ UNCHANGED remote
  /\ UNCHANGED <<account, credential, work, secret, forgotten>>

\* CompleteCertificateAccountDeactivation.
CompleteDeactivation(q) ==
  /\ at[q].step = "disabled" /\ Ends(q)
  /\ \/ account' = [account EXCEPT ![at[q].subject] = "deactivated"] /\ Works
     \/ Fails("store") /\ UNCHANGED account
  /\ UNCHANGED <<credential, work, secret, remote, forgotten>>

\* DeleteCertificateDNSCredential refuses a credential that a certificate, an active task or a
\* plan refers to.
Unreferenced(d) == \A t \in Tasks : Uses(t, d) => work[t].state = "over"

Delete(q, d) ==
  /\ at[q] = NoRequest /\ credential[d] # "none"
  /\ \/ /\ credential[d] = "deleted" \/ Unreferenced(d)
        /\ credential' = [credential EXCEPT ![d] = "deleted"]
        /\ at' = [at EXCEPT ![q] = [step |-> "erase", subject |-> d]] /\ Works
     \/ Fails("store") /\ UNCHANGED <<credential, at>>
  /\ UNCHANGED <<account, work, secret, remote, forgotten>>

\* DeleteCloudflareToken, also when it is asked a second time.
Erase(q) ==
  /\ at[q].step = "erase" /\ Ends(q)
  /\ \/ secret' = secret \ {at[q].subject} /\ Works /\ forgotten' = forgotten \ {at[q].subject}
     \/ /\ Fails("vault") /\ secret' \in {secret, secret \ {at[q].subject}}
        /\ forgotten' = (forgotten \ {at[q].subject}) \cup ({at[q].subject} \cap secret')
  /\ UNCHANGED <<account, credential, work, remote>>

-----------------------------------------------------------------------------
(* Plans and tasks.                                                        *)

\* A plan reads the status of both, and is written later without another look.
Plan(t, a, d) ==
  /\ work[t] = NoWork /\ account[a] = "valid" /\ credential[d] # "none"
  /\ work' = [work EXCEPT ![t] = [state |-> "planned", account |-> a, credential |-> d]]
  /\ UNCHANGED <<account, credential, secret, remote, at, forgotten, left>>

\* insertCertificateTaskRecord looks again, in the transaction.
MayStart(t) == account[work[t].account] = "valid" /\ credential[work[t].credential] = "valid"

ExecutePlan(t) ==
  /\ work[t].state = "planned" /\ MayStart(t)
  /\ work' = [work EXCEPT ![t].state = "active"]
  /\ UNCHANGED <<account, credential, secret, remote, at, forgotten, left>>

\* The plan expires, the task fails or issues, the certificate is renewed or deleted.
Advance(t) ==
  /\ \E to \in {"issued", "over"} :
       /\ work[t].state = "active" \/ (work[t].state \in {"planned", "issued"} /\ to = "over")
       /\ work' = [work EXCEPT ![t].state = to]
  /\ UNCHANGED <<account, credential, secret, remote, at, forgotten, left>>

Renew(t) ==
  /\ work[t].state = "issued" /\ MayStart(t)
  /\ work' = [work EXCEPT ![t].state = "active"]
  /\ UNCHANGED <<account, credential, secret, remote, at, forgotten, left>>

\* The process of the UI dies: every request ends where it is.
UIDies ==
  /\ Fails("ui") /\ at' = [q \in Requests |-> NoRequest]
  /\ forgotten' = forgotten \cup {x \in Subjects :
       \E q \in Requests : at[q].step \in {"registered", "stored", "undo", "erase"} /\ at[q].subject = x}
  /\ UNCHANGED <<account, credential, work, secret, remote>>

Next ==
  \/ \E q \in Requests :
       \/ \E a \in Accounts : Register(q, a) \/ Import(q, a) \/ Reserve(q, a)
       \/ \E d \in Credentials : VerifyToken(q, d) \/ Delete(q, d)
       \/ StoreSecret(q) \/ InsertAccount(q) \/ InsertCredential(q) \/ Undo(q)
       \/ LoadKey(q) \/ DeactivateRemote(q) \/ CompleteDeactivation(q) \/ Erase(q)
  \/ \E t \in Tasks :
       \/ \E a \in Accounts, d \in Credentials : Plan(t, a, d)
       \/ ExecutePlan(t) \/ Advance(t) \/ Renew(t)
  \/ UIDies

Spec == Init /\ [][Next]_vars

-----------------------------------------------------------------------------
(* Properties.                                                             *)

\* A task that runs can use what it was started with: the account is not being deactivated and the
\* credential not deleted under it, and both secrets can be read.
TasksKeepTheirSecrets ==
  \A t \in Tasks : work[t].state \in {"active", "issued"} =>
    /\ credential[work[t].credential] = "valid"
    /\ {work[t].account, work[t].credential} \subseteq secret
    /\ work[t].state = "active" =>
         account[work[t].account] = "valid" /\ remote[work[t].account] = "valid"

\* No row says that an account can be used when the authority has deactivated it, and none says
\* that it is deactivated when it is not, wherever a request stops.
RowsFollowTheAuthority ==
  \A a \in Accounts :
    /\ account[a] = "valid" => remote[a] = "valid" /\ a \in secret
    /\ account[a] = "deactivated" => remote[a] = "deactivated"

\* A secret without a usable row is the work of a request in progress, or of one that failed or
\* died half way: creation and deletion leave nothing in the vault by themselves.
SecretsHaveRows ==
  \A x \in secret :
    \/ x \in Accounts /\ account[x] # "none"
    \/ x \in Credentials /\ credential[x] = "valid"
    \/ x \in forgotten
    \/ \E q \in Requests : at[q].subject = x
=============================================================================
