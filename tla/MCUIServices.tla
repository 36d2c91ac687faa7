------------------------------ MODULE MCUIServices ------------------------------
(***************************************************************************)
(* Services of the UI that share no state, on small instances: the Route   *)
(* Lab with its half in the Agent, the sessions with their throttles, the  *)
(* secrets certificates are ordered with, the streams by which a browser   *)
(* follows a task, and the life of the process around them; and the static *)
(* analysis of a route, whose inputs are built up step by step.  Each      *)
(* behaviour picks one and leaves the others where they begin.  The        *)
(* sessions, which SessionsProofs is about, keep the names of Sessions.    *)
(***************************************************************************)
EXTENDS Sessions, Sequences, Functions, TLC

\* The runs of the Route Lab, the requests and the tasks of the secrets and those of the process are
\* two of each, by the names of the clients of the sessions, so that one symmetry serves all.
CONSTANTS
  Accounts, Credentials,
  MaxServers, MaxNames, MaxLocations  \* the largest configurations to analyse

VARIABLES
  which,
  l_row, l_stages, l_ui, l_at, l_verdict, l_gone, l_asked, l_agent, l_job, l_off, l_outcome,
  l_stage, l_process, l_pidfile, l_tested, l_draft, l_stranded, l_kept, l_missed, l_left,
  k_account, k_credential, k_work, k_secret, k_remote, k_at, k_forgotten, k_left,
  s_kind, s_count, s_ended, s_at, s_after, s_batch, s_over, s_wire, s_browser, s_last, s_calls, s_crossed, s_view,
  s_lost,
  u_phase, u_position, u_open, u_owner, u_scheduler, u_cleaner, u_expired, u_gaveUp, u_task,
  servers,    \* of a configuration, in its order
  locations   \* of a server, in their order

\* One run may be active and one be executed at once, so that the second one waits for both.
Lab == INSTANCE RouteLab WITH
  Runs <- Clients,
  ActiveLimit <- 1, Slots <- 1, Edits <- 1, Budget <- 2,
  Faults <- {"store", "reply", "timeout", "ui", "stop", "agent", "nginx", "kill", "disk"},
  row <- l_row, stages <- l_stages, ui <- l_ui, at <- l_at, verdict <- l_verdict, gone <- l_gone,
  asked <- l_asked, agent <- l_agent, job <- l_job, off <- l_off, outcome <- l_outcome,
  stage <- l_stage, process <- l_process, pidfile <- l_pidfile, tested <- l_tested,
  draft <- l_draft, stranded <- l_stranded, kept <- l_kept, missed <- l_missed, left <- l_left

Vault == INSTANCE CertificateSecrets WITH
  Requests <- Clients, Tasks <- Clients,
  Faults <- {"store", "vault", "acme", "reply", "ui"}, Budget <- 2,
  account <- k_account, credential <- k_credential, work <- k_work, secret <- k_secret,
  remote <- k_remote, at <- k_at, forgotten <- k_forgotten, left <- k_left

\* Four stages are enough for a stage, and the end, between any two reads of the server.
Stream == INSTANCE TaskStreams WITH
  Kinds <- {"release", "route", "restore", "restart", "certificate"},
  MaxStages <- 4, MaxCalls <- 2, Losses <- 2,
  kind <- s_kind, count <- s_count, ended <- s_ended, at <- s_at, after <- s_after,
  batch <- s_batch, over <- s_over, wire <- s_wire, browser <- s_browser, last <- s_last,
  calls <- s_calls, crossed <- s_crossed, view <- s_view, lost <- s_lost

\* Three tasks, two of them of certificates: of three certificate tasks one can have a slot, the next
\* one waits and the last one is refused; or one task holds up the shutdown while another arrives.
Life == INSTANCE UILifecycle WITH
  Tasks <- Clients \union {"any"}, Slots <- 1, Limit <- 2,
  KindsOf <- [t \in Clients |-> {"certificate"}]
             @@ [any |-> {"release", "recovery", "route", "certificate"}],
  phase <- u_phase, position <- u_position, open <- u_open, owner <- u_owner,
  scheduler <- u_scheduler, cleaner <- u_cleaner, expired <- u_expired, gaveUp <- u_gaveUp,
  task <- u_task

Analysis == INSTANCE RouteAnalysis

l_vars == <<l_row, l_stages, l_ui, l_at, l_verdict, l_gone, l_asked, l_agent, l_job, l_off,
            l_outcome, l_stage, l_process, l_pidfile, l_tested, l_draft, l_stranded, l_kept,
            l_missed, l_left>>
k_vars == <<k_account, k_credential, k_work, k_secret, k_remote, k_at, k_forgotten, k_left>>
s_vars == <<s_kind, s_count, s_ended, s_at, s_after, s_batch, s_over, s_wire, s_browser, s_last,
            s_calls, s_crossed, s_view, s_lost>>
u_vars == <<u_phase, u_position, u_open, u_owner, u_scheduler, u_cleaner, u_expired, u_gaveUp, u_task>>
r_vars == <<servers, locations>>

-------------------------------------------------------------------------------
(* Servers with names of every form, and requests for one host. *)

Host == <<"www", "site">>
Asked == [port |-> 80, ssl |-> FALSE]

Name(form, labels, matches) == [form |-> form, labels |-> labels, matches |-> matches]
ServerNames ==
  {Name("exact", Host, {}), Name("leading", <<"site">>, {}), Name("leading", Host, {}),
   Name("dotted", <<"site">>, {}), Name("dotted", Host, {}),
   Name("trailing", <<"www">>, {}), Name("regex", <<>>, {Host}), Name("regex", <<>>, {}),
   Name("variable", <<>>, {}), Name("foreign", <<>>, {})}

Listener(port, options) == Analysis!ParseListener("*", port, options)
Listeners ==
  {{Listener(80, {})}, {Listener(80, {"default_server"})}, {Listener(81, {})}, {Listener(80, {"ssl"})},
   {Listener(80, {}), Listener(81, {"default_server"})}, {Listener(80, {"proxy_protocol"})},
   {Analysis!ParseListener("10.0.0.1", 80, {})}}

NameCount == FoldFunction(LAMBDA s, n : n + Len(s.names), 0, servers)

AddServer ==
  /\ Len(servers) < MaxServers
  /\ \E l \in Listeners : servers' = Append(servers, [listeners |-> l, names |-> <<>>])

AddName ==
  /\ servers # <<>> /\ NameCount < MaxNames
  /\ \E n \in ServerNames : servers' = [servers EXCEPT ![Len(servers)].names = Append(@, n)]

(* Locations in each other, as nginx accepts them. *)

Uris == {<<"a">>, <<"a", "b">>, <<"c">>}

Matcher(modifier, matcher, matches, compiles) ==
  [modifier |-> modifier, matcher |-> matcher, matches |-> matches, compiles |-> compiles]
Literals ==
  {Matcher(m, s, {}, TRUE) : m \in {"", "=", "^~"}, s \in {<<>>, <<"a">>, <<"a", "b">>}}
Others ==
  {Matcher("~", <<>>, {<<"a", "b">>}, TRUE), Matcher("~", <<>>, Uris, TRUE), Matcher("~", <<>>, {}, FALSE),
   Matcher("@", <<>>, {}, TRUE), Matcher("?", <<>>, {}, TRUE)}

Literal(m) == m.modifier \in {"", "=", "^~"}

MayStandIn(parent, m) ==
  parent # 0 =>
    /\ m.modifier # "@" /\ locations[parent].modifier \in {"", "^~", "~"}
    /\ Literal(m) => /\ locations[parent].modifier # "~"
                     /\ Analysis!IsPrefix(locations[parent].matcher, m.matcher)

\* The prefixes of one level differ, with or without priority.
IsNew(parent, m) ==
  \A i \in Analysis!Children(locations, parent) :
    Literal(m) /\ locations[i].matcher = m.matcher =>
      (locations[i].modifier = "=") # (m.modifier = "=")

AddLocation ==
  /\ Len(locations) < MaxLocations
  /\ \E parent \in 0 .. Len(locations), m \in Literals \union Others :
       /\ MayStandIn(parent, m) /\ IsNew(parent, m)
       /\ locations' = Append(locations, [parent |-> parent] @@ m)

-------------------------------------------------------------------------------
AnyInit ==
  /\ which \in {"lab", "sessions", "secrets", "streams", "process", "servers", "locations"}
  /\ Lab!Init /\ Init /\ Vault!Init /\ Stream!Init /\ Life!Init
  /\ which # "streams" => s_kind = "release"
  /\ servers = <<>> /\ locations = <<>>

RouteTests == which = "lab" /\ Lab!Next /\ UNCHANGED <<which, vars, k_vars, s_vars, u_vars, r_vars>>
Logins     == which = "sessions" /\ Next /\ UNCHANGED <<which, l_vars, k_vars, s_vars, u_vars, r_vars>>
Secrets    == which = "secrets" /\ Vault!Next /\ UNCHANGED <<which, l_vars, vars, s_vars, u_vars, r_vars>>
Streams    == which = "streams" /\ Stream!Next /\ UNCHANGED <<which, l_vars, vars, k_vars, u_vars, r_vars>>
Process    == which = "process" /\ Life!Next /\ UNCHANGED <<which, l_vars, vars, k_vars, s_vars, r_vars>>
Servers ==
  /\ which = "servers" /\ (AddServer \/ AddName)
  /\ UNCHANGED <<which, l_vars, vars, k_vars, s_vars, u_vars, locations>>
Locations ==
  /\ which = "locations" /\ AddLocation
  /\ UNCHANGED <<which, l_vars, vars, k_vars, s_vars, u_vars, servers>>

AnyNext == RouteTests \/ Logins \/ Secrets \/ Streams \/ Process \/ Servers \/ Locations

AnySpec == AnyInit /\ [][AnyNext]_<<which, l_vars, vars, k_vars, s_vars, u_vars, r_vars>>

Symmetry == Permutations(Clients)

-------------------------------------------------------------------------------
(* Properties, made of those the modules state; that of the sessions is SessionsHold. *)

\* The variables of the modules have their types.
AnyTypeOK ==
  /\ which = "lab"      => Lab!TypeOK
  /\ which = "sessions" => TypeOK
  /\ which = "secrets"  => Vault!TypeOK
  /\ which = "streams"  => Stream!TypeOK
  /\ which = "process"  => Life!TypeOK

\* No more route tests are active than the limit, each has someone who will finish it or a failure
\* that is known, its stages tell its row, and a success is of the draft asked for.  An Agent that
\* serves knows every stage and every sandbox there is, and can find those that are alive.
TestsAreOwned == which = "lab" =>
  /\ Lab!ActiveIsBounded /\ Lab!StagesTellTheRow /\ Lab!RunHasAnOwner /\ Lab!SuccessIsProven
  /\ Lab!LeftoversAreKnown /\ Lab!SandboxCanBeFound

\* A task that runs can use the secrets it was started with, the row of an account agrees with the
\* authority wherever a request stops, and no secret is left without a row but by a known failure.
SecretsHold == which = "secrets" =>
  Vault!TasksKeepTheirSecrets /\ Vault!RowsFollowTheAuthority /\ Vault!SecretsHaveRows

\* The browser hears of every stage once and in order, over any number of connections, and of the end
\* last; where no two calls cross, an end it shows is never taken back and a closed stream shows it.
StreamsTell ==
  /\ Stream!EndStays
  /\ [](which = "streams" => Stream!StagesInOrder /\ Stream!TerminalIsLast /\ Stream!ClosedShowsTheEnd)

\* Nothing is served before what an earlier process left is settled, every accepted task has an
\* owner as long as the process has time, and the stores are closed after all who use them.
ShutdownIsOrderly == which = "process" =>
  /\ Life!LeftoversAreSettledFirst /\ Life!StoresOutliveTheirUsers /\ Life!AcceptedWorkIsOwned

\* The server found by a name and the location found by a URI are those nginx chooses, whatever
\* the indeterminate expressions and variables turn out to match (Analyze).
PredictionHolds ==
  /\ which = "servers"   => Analysis!NamePredictionHolds(servers, Asked, Host)
  /\ which = "locations" => \A uri \in Uris : Analysis!LocationPredictionHolds(locations, uri)

\* A cancellation that was accepted ends its run as cancelled.
CancelSettles == Lab!CancelSettles

=============================================================================
