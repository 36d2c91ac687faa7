---------------------------- MODULE StructuredEdits ----------------------------
(***************************************************************************)
(* Structured editing of a draft: the upstreams and locations of a         *)
(* configuration are read into catalogues, an operation on one of them is  *)
(* planned as local edits, shown to the user as a preview that is stored   *)
(* nowhere, and computed a second time when the user applies it.  Others   *)
(* edit the same draft as text in between.                                 *)
(*                                                                         *)
(* A draft is what the parser makes of it: upstreams and locations in the  *)
(* order they are written.  The identity of a node is its place, as in the *)
(* code: after an edit the same identity may be another node's.            *)
(***************************************************************************)
EXTENDS Naturals, Sequences, FiniteSets, SequencesExt

CONSTANTS
  Clients,
  Names,        \* of upstreams and of the hosts of proxy_pass
  Hosts,        \* those of them that look like a host of the network: they have a dot
  Drafts,       \* what others make of the draft by editing its text
  Matchers,     \* pairs of a type and a matcher that operations ask for
  MaxRevision,  \* bounds of the model: changes of the draft,
  MaxNodes      \* and upstreams, servers of one, locations beside each other

VARIABLES
  draft,    \* the draft: its ETag is its digest, so here the draft itself
  revision, \* of its workspace, which nothing here compares
  req       \* client -> the operation it had previewed or asks to apply

vars == <<draft, revision, req>>

Upstream(name, servers) == [name |-> name, once |-> TRUE, servers |-> servers]
Location(matcher, proxy, children) ==
  [type |-> matcher[1], matcher |-> matcher[2], proxy |-> proxy, children |-> children]

NoOp == [kind |-> "none"]
Idle == [at |-> "idle", op |-> NoOp, match |-> <<>>, after |-> <<>>]

Init ==
  /\ draft \in Drafts
  /\ revision = 1
  /\ req = [c \in Clients |-> Idle]

-------------------------------------------------------------------------------
(* The catalogues. *)

\* The places of the locations: in a server, or in a location of it.
Places(d) ==
  LET outer == DOMAIN d.locations
  IN {<<i>> : i \in outer} \union {<<i, j>> : i \in outer, j \in 1..MaxNodes}
PathsOf(d) ==
  {p \in Places(d) : Len(p) = 2 => p[2] \in DOMAIN d.locations[p[1]].children}
At(d, p) ==
  IF Len(p) = 1 THEN d.locations[p[1]] ELSE d.locations[p[1]].children[p[2]]
Siblings(d, p) ==
  IF Len(p) = 1 THEN d.locations ELSE d.locations[p[1]].children

Holding(d, name) == {i \in DOMAIN d.upstreams : d.upstreams[i].name = name}

\* What a proxy_pass refers to: "dynamic" stands for every one the analysis cannot read.
Reference(d, proxy) ==
  CASE proxy \in {"none", "dynamic"}      -> proxy
    [] \E i \in DOMAIN d.upstreams : Holding(d, proxy) = {i} -> "resolved"
    [] Holding(d, proxy) # {}             -> "ambiguous"
    [] proxy \in Hosts                    -> "external"
    [] OTHER                              -> "dangling"

Referring(d, kinds) == {p \in PathsOf(d) : Reference(d, At(d, p).proxy) \in kinds}

ReferenceAnalysisComplete(d) == d.complete /\ Referring(d, {"dynamic", "ambiguous"}) = {}

\* An upstream in a file that is included twice, or whose name another has, is shown only.
UpstreamEditable(d, i) == d.upstreams[i].once /\ Holding(d, d.upstreams[i].name) = {i}

Literal(type) == type \in {"exact", "prefix"}

\* May a location of this type and matcher stand in the parent?
Fits(parent, type, matcher) ==
  /\ parent.type \notin {"exact", "named"} /\ type # "named"
  /\ Literal(type) => parent.type = "prefix" /\ IsPrefix(parent.matcher, matcher)

Duplicate(siblings, type, matcher, except) ==
  \E i \in DOMAIN siblings \ {except} : siblings[i].type = type /\ siblings[i].matcher = matcher

LocationEditable(d, p) ==
  LET l == At(d, p)
  IN /\ ~Duplicate(Siblings(d, p), l.type, l.matcher, Last(p))
     /\ l.children # <<>> => l.type \notin {"exact", "named"}
     /\ Len(p) = 2 => Fits(d.locations[p[1]], l.type, l.matcher)

ProxyEditable(d, p) ==
  LocationEditable(d, p) /\ Reference(d, At(d, p).proxy) # "dynamic"

\* What the catalogues complain of; an operation must not add to it.
UpstreamDiagnostics(d) ==
  LET servers == {<<i, s>> : i \in DOMAIN d.upstreams, s \in 1..MaxNodes}
  IN Cardinality({i \in DOMAIN d.upstreams : ~UpstreamEditable(d, i)})
     + Cardinality({x \in servers : /\ x[2] \in DOMAIN d.upstreams[x[1]].servers
                                    /\ d.upstreams[x[1]].servers[x[2]] = "raw"})
     + Cardinality(Referring(d, {"dynamic", "ambiguous", "dangling"}))
LocationDiagnostics(d) == Cardinality({p \in PathsOf(d) : ~LocationEditable(d, p)})

-------------------------------------------------------------------------------
(* The plans: the draft after an operation, as a set that is empty when it is refused.  A server   *)
(* is up, down, or "raw": it has parameters that cannot be edited, and its address is known.       *)

Only(guard, after) == IF guard THEN {after} ELSE {}

UsablePeers(u, except) == {s \in DOMAIN u.servers \ {except} : u.servers[s] # "down"}

PlanCreate(d, op) ==
  Only(/\ Holding(d, op.name) = {} /\ \E s \in DOMAIN op.servers : op.servers[s] # "down",
       [d EXCEPT !.upstreams = Append(@, Upstream(op.name, op.servers))])

RenameProxies(locations, old, new) ==
  LET To(proxy) == IF proxy = old THEN new ELSE proxy
      Inner(l)  == [l EXCEPT !.proxy = To(@)]
  IN [i \in DOMAIN locations |->
       [Inner(locations[i]) EXCEPT !.children = [j \in DOMAIN @ |-> Inner(@[j])]]]

\* (Mutant: references in nested locations are forgotten.)
RenameOuterProxies(locations, old, new) ==
  [i \in DOMAIN locations |->
    [locations[i] EXCEPT !.proxy = IF @ = old THEN new ELSE @]]

RenameReferences(locations, old, new) == RenameProxies(locations, old, new)

PlanRename(d, op) ==
  LET old == d.upstreams[op.u].name
  IN Only(/\ ReferenceAnalysisComplete(d)
          /\ old # op.name /\ UpstreamEditable(d, op.u) /\ Holding(d, op.name) = {},
          [d EXCEPT !.upstreams[op.u].name = op.name,
                    !.locations = RenameReferences(@, old, op.name)])

PlanDelete(d, op) ==
  LET u == d.upstreams[op.u]
  IN Only(/\ ReferenceAnalysisComplete(d)
          /\ op.name = u.name /\ UpstreamEditable(d, op.u)
          /\ \A p \in PathsOf(d) : At(d, p).proxy # u.name,
          [d EXCEPT !.upstreams = RemoveAt(@, op.u)])

PlanCreateServer(d, op) ==
  Only(/\ UpstreamEditable(d, op.u)
       /\ op.server = "down" => UsablePeers(d.upstreams[op.u], 0) # {},
       [d EXCEPT !.upstreams[op.u].servers = Append(@, op.server)])

PlanUpdateServer(d, op) ==
  LET u == d.upstreams[op.u]
  IN Only(/\ UpstreamEditable(d, op.u) /\ u.servers[op.s] # "raw"
          /\ op.server = "down" => UsablePeers(u, op.s) # {},
          [d EXCEPT !.upstreams[op.u].servers[op.s] = op.server])

PlanDeleteServer(d, op) ==
  LET u == d.upstreams[op.u]
  IN Only(/\ UpstreamEditable(d, op.u) /\ u.servers[op.s] # "raw" /\ UsablePeers(u, op.s) # {},
          [d EXCEPT !.upstreams[op.u].servers = RemoveAt(@, op.s)])

\* The proxy_pass of a location may name any upstream that can be edited.
SelectedUpstream(d, proxy) ==
  proxy = "none" \/ \E i \in DOMAIN d.upstreams : d.upstreams[i].name = proxy /\ UpstreamEditable(d, i)

PlanCreateLocation(d, op) ==
  LET new == Location(op.matcher, op.proxy, <<>>)
  IN IF op.parent = <<>>
     THEN Only(/\ ~Duplicate(d.locations, new.type, new.matcher, 0) /\ SelectedUpstream(d, op.proxy),
               [d EXCEPT !.locations = Append(@, new)])
     ELSE LET parent == At(d, op.parent)
          IN Only(/\ LocationEditable(d, op.parent) /\ Fits(parent, new.type, new.matcher)
                  /\ ~Duplicate(parent.children, new.type, new.matcher, 0)
                  /\ SelectedUpstream(d, op.proxy),
                  [d EXCEPT !.locations[op.parent[1]].children = Append(@, new)])

Put(d, p, l) ==
  IF Len(p) = 1 THEN [d EXCEPT !.locations[p[1]] = l]
                ELSE [d EXCEPT !.locations[p[1]].children[p[2]] = l]

\* The matcher is replaced; the proxy_pass is kept, set or removed.
PlanUpdateLocation(d, op) ==
  LET l   == At(d, op.p)
      new == [Location(op.matcher, l.proxy, l.children) EXCEPT
                !.proxy = CASE op.mode = "preserve" -> @
                            [] op.mode = "set"      -> op.proxy
                            [] op.mode = "remove"   -> "none"]
  IN Only(/\ LocationEditable(d, op.p)
          /\ new.children # <<>> => new.type \notin {"exact", "named"}
          /\ \A j \in DOMAIN l.children : Fits(new, l.children[j].type, l.children[j].matcher)
          /\ Len(op.p) = 2 => Fits(d.locations[op.p[1]], new.type, new.matcher)
          /\ ~Duplicate(Siblings(d, op.p), new.type, new.matcher, Last(op.p))
          /\ op.mode # "preserve" => ProxyEditable(d, op.p)
          /\ op.mode = "set" => op.proxy # "none" /\ SelectedUpstream(d, op.proxy)
          /\ op.mode = "remove" => l.proxy # "none",
          Put(d, op.p, new))

PlanDeleteLocation(d, op) ==
  Only(/\ At(d, op.p).matcher = op.matcher[2] /\ LocationEditable(d, op.p),
       IF Len(op.p) = 1 THEN [d EXCEPT !.locations = RemoveAt(@, op.p[1])]
       ELSE [d EXCEPT !.locations[op.p[1]].children = RemoveAt(@, op.p[2])])

PlanOperation(d, op) ==
  CASE op.kind = "upstream.create"        -> PlanCreate(d, op)
    [] op.kind = "upstream.rename"        -> PlanRename(d, op)
    [] op.kind = "upstream.delete"        -> PlanDelete(d, op)
    [] op.kind = "upstream_server.create" -> PlanCreateServer(d, op)
    [] op.kind = "upstream_server.update" -> PlanUpdateServer(d, op)
    [] op.kind = "upstream_server.delete" -> PlanDeleteServer(d, op)
    [] op.kind = "location.create"        -> PlanCreateLocation(d, op)
    [] op.kind = "location.update"        -> PlanUpdateLocation(d, op)
    [] op.kind = "location.delete"        -> PlanDeleteLocation(d, op)

\* The edited text is parsed again and must be no worse than before.
Postcondition(d, after) ==
  /\ after # d
  /\ UpstreamDiagnostics(after) <= UpstreamDiagnostics(d)
  /\ LocationDiagnostics(after) <= LocationDiagnostics(d)

PreviewSnapshot(d, op) ==
  {after \in PlanOperation(d, op) : d.complete /\ Postcondition(d, after)}

-------------------------------------------------------------------------------
(* The operations a client may ask for, of what is in the draft. *)

Servers == {"up", "down"}

UpstreamOps(d) ==
  [kind : {"upstream.create"}, name : Names, servers : {<<s>> : s \in Servers}]
  \union [kind : {"upstream.rename", "upstream.delete"}, u : DOMAIN d.upstreams, name : Names]
  \union [kind : {"upstream_server.create"}, u : DOMAIN d.upstreams, server : Servers]
ServerOps(d) ==
  {op \in [kind : {"upstream_server.update", "upstream_server.delete"},
           u : DOMAIN d.upstreams, s : 1..MaxNodes, server : Servers] :
     op.s \in DOMAIN d.upstreams[op.u].servers}
LocationOps(d) ==
  [kind : {"location.create"}, parent : {<<>>} \union {<<i>> : i \in DOMAIN d.locations},
   matcher : Matchers, proxy : Names \union {"none"}]
  \union [kind : {"location.update"}, p : PathsOf(d), matcher : Matchers,
          mode : {"preserve", "set", "remove"}, proxy : Names]
  \union [kind : {"location.delete"}, p : PathsOf(d), matcher : Matchers]

Ops(d) == UpstreamOps(d) \union ServerOps(d) \union LocationOps(d)

Small(d) ==
  /\ Len(d.upstreams) <= MaxNodes /\ Len(d.locations) <= MaxNodes
  /\ \A i \in DOMAIN d.upstreams : Len(d.upstreams[i].servers) <= MaxNodes
  /\ \A i \in DOMAIN d.locations : Len(d.locations[i].children) <= MaxNodes

-------------------------------------------------------------------------------
(* The requests. *)

\* A preview is of one snapshot; its identity is a digest of the ETag, the operation and the files.
Preview(c, op) ==
  /\ req[c].at = "idle"
  /\ \E after \in PreviewSnapshot(draft, op) :
       /\ Small(after)
       /\ req' = [req EXCEPT ![c] = [at |-> "reviewed", op |-> op, match |-> draft, after |-> after]]
  /\ UNCHANGED <<draft, revision>>

Dismiss(c) ==
  /\ req[c].at = "reviewed"
  /\ req' = [req EXCEPT ![c] = Idle]
  /\ UNCHANGED <<draft, revision>>

\* Apply takes a snapshot of its own, plans again, and compares the ETag and the preview's identity.
Snapshot(c) ==
  /\ req[c].at = "reviewed"
  /\ req' = IF /\ req[c].match = draft
               /\ req[c].after \in PreviewSnapshot(draft, req[c].op)
            THEN [req EXCEPT ![c].at = "planned"]
            ELSE [req EXCEPT ![c] = Idle]
  /\ UNCHANGED <<draft, revision>>

Matches(c) == req[c].match = draft

\* ReplaceFiles compares the ETag under the lock of the workspace and writes the planned files.
ReplaceFiles(c) ==
  /\ req[c].at = "planned"
  /\ IF Matches(c) THEN draft' = req[c].after /\ revision' = revision + 1
                   ELSE UNCHANGED <<draft, revision>>
  /\ req' = [req EXCEPT ![c] = Idle]

\* Others change the draft by its text: to anything.
EditText ==
  /\ \E d \in Drafts : d # draft /\ draft' = d
  /\ revision' = revision + 1
  /\ UNCHANGED req

Next ==
  \/ \E c \in Clients : \/ \E op \in Ops(draft) : Preview(c, op)
                        \/ Dismiss(c) \/ Snapshot(c)
                        \/ revision < MaxRevision /\ ReplaceFiles(c)
  \/ revision < MaxRevision /\ EditText

Spec == Init /\ [][Next]_vars

-------------------------------------------------------------------------------
(* Properties. *)

TypeOK ==
  /\ revision \in 1..MaxRevision
  /\ draft.complete \in BOOLEAN
  /\ \A c \in Clients : req[c].at \in {"idle", "reviewed", "planned"}

\* The upstream a location's proxy_pass resolves to, by the servers it has.
Target(d, l) == IF Reference(d, l.proxy) = "resolved"
                THEN {d.upstreams[i].servers : i \in Holding(d, l.proxy)} ELSE {}

\* The upstreams a step of ReplaceFiles renames or leaves: the same servers under some name.
Written(c) == ReplaceFiles(c) /\ draft' # draft

\* Applying an operation on an upstream sends no location elsewhere: a proxy_pass that resolved to
\* an upstream resolves to it still, under its new name if it was renamed, however deep the location
\* is nested (PlanRename, PlanDelete, ReferenceAnalysisComplete).
ReferencesSurvive ==
  [][\A c \in Clients : Written(c) /\ req[c].op.kind \in {"upstream.create", "upstream.rename", "upstream.delete"} =>
       /\ PathsOf(draft') = PathsOf(draft)
       /\ \A p \in Referring(draft, {"resolved"}) :
            Target(draft', At(draft', p)) = Target(draft, At(draft, p))]_vars

\* An operation takes from no upstream the last peer that could answer, whatever others did to the
\* draft since it was previewed (usablePeerCount in PlanCreateServer, PlanUpdateServer, PlanDeleteServer).
PeersRemain ==
  [][\A c \in Clients : Written(c) =>
       Cardinality({i \in DOMAIN draft'.upstreams : UsablePeers(draft'.upstreams[i], 0) = {}})
         <= Cardinality({i \in DOMAIN draft.upstreams : UsablePeers(draft.upstreams[i], 0) = {}})]_vars

\* What is written is the previewed operation done to the very draft that is there: no edit of
\* another is overwritten, and no node that has taken the place of the reviewed one is hit (Apply
\* computes the preview again, ReplaceFiles compares the ETag under the lock).
AppliesWhatWasReviewed ==
  [][\A c \in Clients : Written(c) => draft' \in PlanOperation(draft, req[c].op)]_vars
===============================================================================
