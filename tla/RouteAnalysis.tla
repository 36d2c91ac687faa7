----------------------------- MODULE RouteAnalysis -----------------------------
(***************************************************************************)
(* The static explanation of the Route Lab: which server and which         *)
(* location of a configuration a request would reach.  What Go cannot      *)
(* decide (a regular expression it does not compile, a variable in a name) *)
(* is indeterminate, and the analysis predicts only what no outcome of it  *)
(* can change.  Hosts are sequences of labels, URIs of segments; the       *)
(* expressions are given by what they match.                               *)
(*                                                                         *)
(* The second part is the choice nginx makes, once it is known which of    *)
(* the indeterminate matchers do match; it is the reference of the first.  *)
(***************************************************************************)
EXTENDS Naturals, Sequences, SequencesExt, FiniteSetsExt, Functions

-------------------------------------------------------------------------------
(* Listeners. *)

\* The options of a listen directive that leave it analysable.
Plain == {"default_server", "ssl", "http2", "bind", "reuseport", "deferred"}

ParseListener(address, port, options) ==
  [address |-> address, port |-> port, ssl |-> "ssl" \in options,
   default |-> "default_server" \in options, supported |-> options \subseteq Plain]

\* What the listeners of the servers are asked for.
Serves(listener, request) ==
  listener.port = request.port /\ listener.ssl = request.ssl /\ listener.supported

Listening(server, request) == {l \in server.listeners : Serves(l, request)}

EligibleServers(servers, request) ==
  SelectSeq([i \in 1 .. Len(servers) |-> i], LAMBDA i : Listening(servers[i], request) # {})

Addresses(servers, request) ==
  UNION {{l.address : l \in Listening(servers[i], request)} : i \in 1 .. Len(servers)}

-------------------------------------------------------------------------------
(* Server names. *)

Matches(name, host) ==
  CASE name.form = "exact"    -> name.labels = host
    [] name.form = "leading"  -> IsStrictSuffix(name.labels, host)
    [] name.form = "dotted"   -> IsSuffix(name.labels, host)
    [] name.form = "trailing" -> IsStrictPrefix(name.labels, host)
    [] name.form = "regex"    -> host \in name.matches
    [] OTHER                  -> FALSE

Indeterminate(name) == name.form \in {"variable", "foreign"}

Rank(name) ==
  CASE name.form \in {"exact", "variable"}  -> 1
    [] name.form \in {"leading", "dotted"}  -> 2
    [] name.form = "trailing"               -> 3
    [] OTHER                                -> 4

\* Longer is better among the names of one form, not among expressions.
Length(name) == IF Rank(name) = 4 THEN 0 ELSE Len(name.labels)

Far == 100
EmptyMatch ==
  [server |-> 0, matched |-> FALSE, rank |-> Far, length |-> 0, order |-> Far,
   doubt |-> FALSE, doubtRank |-> Far, doubtOrder |-> Far]

MatchOf(server, name, host, order) ==
  [server |-> server, matched |-> Matches(name, host), rank |-> Rank(name),
   length |-> Length(name), order |-> order, doubt |-> Indeterminate(name),
   doubtRank  |-> IF Indeterminate(name) THEN Rank(name) ELSE Far,
   doubtOrder |-> IF Indeterminate(name) THEN order ELSE Far]

Better(l, r) ==
  \/ l.rank < r.rank
  \/ l.rank = r.rank /\ l.length > r.length
  \/ l.rank = r.rank /\ l.length = r.length /\ l.order < r.order

SoonerDoubt(l, r) ==
  l.doubtRank < r.doubtRank \/ (l.doubtRank = r.doubtRank /\ l.doubtOrder < r.doubtOrder)

\* The better of two matches keeps the doubt of both, and the one that is nearest to winning.
MergeMatch(best, match) ==
  LET doubt  == IF SoonerDoubt(match, best) THEN match ELSE best
      winner == IF match.matched /\ (~best.matched \/ Better(match, best)) THEN match ELSE best
  IN  [winner EXCEPT !.doubt      = best.doubt \/ match.doubt,
                     !.doubtRank  = doubt.doubtRank,
                     !.doubtOrder = doubt.doubtOrder]

\* The best match of the names of one server, counted on from those of the servers before it.
BestServerNameMatch(servers, i, host, before) ==
  FoldLeftDomain(LAMBDA best, k :
                   MergeMatch(best, MatchOf(i, servers[i].names[k], host, before + k)),
                 EmptyMatch, servers[i].names)

SelectServerName(servers, eligible, host) ==
  LET before(k) == FoldLeftDomain(LAMBDA n, j : IF j < k THEN n + Len(servers[eligible[j]].names) ELSE n,
                                  0, eligible)
  IN  FoldLeftDomain(LAMBDA best, k :
                       MergeMatch(best, BestServerNameMatch(servers, eligible[k], host, before(k))),
                     EmptyMatch, eligible)

\* Something indeterminate would have won had it matched.
UncertaintyCanPreempt(match) ==
  /\ match.doubt
  /\ \/ ~match.matched
     \/ match.doubtRank < match.rank
     \/ match.doubtRank = match.rank /\ match.rank # 4
     \/ match.doubtRank = match.rank /\ match.rank = 4 /\ match.doubtOrder < match.order

\* The first eligible server that is a default server, on whatever port, or the first one.
DefaultServer(servers, eligible) ==
  LET defaults == SelectSeq(eligible, LAMBDA i : \E l \in servers[i].listeners : l.default)
  IN  IF defaults # <<>> THEN defaults[1] ELSE eligible[1]

\* The server predicted for a host, 0 for none, and whether it was found by its name. The server
\* of a TLS handshake is predicted in the same way from the name the client sends.
PredictServer(servers, request, host) ==
  LET eligible == EligibleServers(servers, request)
      best     == SelectServerName(servers, eligible, host)
  IN  CASE Cardinality(Addresses(servers, request)) > 1 -> [server |-> 0, named |-> FALSE]
        [] eligible = <<>>                              -> [server |-> 0, named |-> FALSE]
        [] UncertaintyCanPreempt(best)                  -> [server |-> 0, named |-> FALSE]
        [] best.matched                                 -> [server |-> best.server, named |-> TRUE]
        [] OTHER -> [server |-> DefaultServer(servers, eligible), named |-> FALSE]

-------------------------------------------------------------------------------
(* Locations: a sequence in the order of the source, each with its parent, 0 for the server. *)

MatcherType(modifier) ==
  CASE modifier = ""   -> "prefix"
    [] modifier = "="  -> "exact"
    [] modifier = "^~" -> "priority"
    [] modifier = "~"  -> "regex"
    [] modifier = "@"  -> "named"
    [] OTHER           -> "unknown"

Children(locations, parent) == {i \in DOMAIN locations : locations[i].parent = parent}
OfType(locations, set, types) == {i \in set : MatcherType(locations[i].modifier) \in types}

ExactAmong(locations, set, uri) ==
  {i \in OfType(locations, set, {"exact"}) : locations[i].matcher = uri}

\* The longest of the prefixes among a set of locations, or none.
LongestPrefix(locations, set, uri) ==
  LET prefixes == {i \in OfType(locations, set, {"prefix", "priority"}) : IsPrefix(locations[i].matcher, uri)}
  IN  {i \in prefixes : \A j \in prefixes : Len(locations[j].matcher) <= Len(locations[i].matcher)}

RegexAmong(locations, set, uri) ==
  {i \in OfType(locations, set, {"regex"}) : locations[i].compiles /\ uri \in locations[i].matches}

Foreign(locations, set) == {i \in OfType(locations, set, {"regex"}) : ~locations[i].compiles}

\* The first expression that matches is only known if none before it is indeterminate.
BlockedRegex(locations, set, uri) ==
  \E i \in Foreign(locations, set) : \A j \in RegexAmong(locations, set, uri) : i < j

\* (Mutant: the priority of a prefix is forgotten.)
SkipsRegexNot(locations, longest) == FALSE

\* A prefix with priority keeps the expressions beside it from being tried.
SkipsRegex(locations, longest) ==
  \E i \in longest : MatcherType(locations[i].modifier) = "priority"

Found(location, complete, final) == [location |-> location, complete |-> complete, final |-> final]
Unknown == Found(0, FALSE, FALSE)

\* The location selected among the children of each location, 0 for none; "final" when the levels
\* above must not look for expressions any more.
SelectLocationLevel(locations, uri) ==
  LET Level[p \in 0 .. Len(locations)] ==
        LET set      == Children(locations, p)
            exact    == ExactAmong(locations, set, uri)
            strange  == OfType(locations, set, {"unknown"}) # {}
            longest  == LongestPrefix(locations, set, uri)
            regex    == RegexAmong(locations, set, uri)
            Inner(i) == IF Children(locations, i) = {} THEN Found(0, TRUE, FALSE) ELSE Level[i]
            \* The choice without the expressions of this level.
            nested   == IF longest = {} THEN Found(0, TRUE, FALSE) ELSE Inner(Min(longest))
            prefix   == IF nested.location # 0 \/ longest = {} THEN nested.location ELSE Min(longest)
            certain  == nested.complete /\ Foreign(locations, set) = {}
        IN  CASE exact # {}  -> Found(Min(exact), ~strange, TRUE)
              [] exact = {} /\ strange -> Unknown
              [] OTHER ->
                   IF nested.location = 0 /\ ~nested.complete THEN Unknown
                   ELSE IF nested.location # 0 /\ nested.final THEN nested
                   ELSE IF SkipsRegex(locations, longest) THEN Found(prefix, nested.complete, FALSE)
                   ELSE IF BlockedRegex(locations, set, uri) THEN Unknown
                   ELSE IF regex # {} THEN
                     LET inner == Inner(Min(regex))
                     IN  IF inner.location # 0 THEN Found(inner.location, certain /\ inner.complete, TRUE)
                         ELSE IF ~inner.complete THEN Unknown
                         ELSE Found(Min(regex), certain, TRUE)
                   ELSE Found(prefix, certain, FALSE)
  IN  Level[0]

\* What the analysis predicts: a location, the server itself (0), or nothing.
PredictLocation(locations, uri) ==
  LET found == SelectLocationLevel(locations, uri)
  IN  IF found.location # 0 \/ found.complete THEN {found.location} ELSE {}

-------------------------------------------------------------------------------
(* The choice of nginx, for the indeterminate names and locations that match. *)

\* Every server with a listener of the port, whatever the options of the listener.
OnPort(servers, request) ==
  {i \in DOMAIN servers : \E l \in servers[i].listeners : l.port = request.port}

\* nginx keeps tables of the names of a port; a name that is in its table already is ignored with a
\* warning. ".site" counts as the exact name too, so that of it and "site" only the first is kept.
Register(tables, n, name, labels) ==
  LET Keep(exact, leading, trailing) ==
        [exact |-> tables.exact \union exact, leading |-> tables.leading \union leading,
         trailing |-> tables.trailing \union trailing, kept |-> tables.kept \union {n}]
  IN  CASE name.form \in {"exact", "variable"} ->
             IF labels \in tables.exact THEN tables ELSE Keep({labels}, {}, {})
        [] name.form = "leading" ->
             IF labels \in tables.leading THEN tables ELSE Keep({}, {labels}, {})
        [] name.form = "dotted" ->
             IF labels \in tables.exact THEN tables
             ELSE IF labels \in tables.leading THEN [tables EXCEPT !.exact = @ \union {labels}]
             ELSE Keep({labels}, {labels}, {})
        [] name.form = "trailing" ->
             IF labels \in tables.trailing THEN tables ELSE Keep({}, {}, {labels})
        [] OTHER -> Keep({}, {}, {})

NoNames == [exact |-> {}, leading |-> {}, trailing |-> {}, kept |-> {}]

\* The names nginx keeps, in the order of the servers; a variable may turn out to be the host.
KeptNames(servers, request, host, matching) ==
  LET Labels(n, name) ==
        CASE name.form = "variable" /\ n \in matching -> host [] OTHER -> name.labels
      OfServer(tables, i) ==
        FoldLeftDomain(LAMBDA t, k : Register(t, <<i, k>>, servers[i].names[k], Labels(<<i, k>>, servers[i].names[k])),
                       tables, servers[i].names)
      order == SelectSeq([i \in 1 .. Len(servers) |-> i], LAMBDA i : i \in OnPort(servers, request))
  IN  FoldLeft(OfServer, NoNames, order).kept

\* The exact name, then the longest leading wildcard, then the longest trailing one, then the first
\* expression; then the default server of the port.
NginxServer(servers, request, host, matching) ==
  LET name(n)    == servers[n[1]].names[n[2]]
      hit        == {n \in KeptNames(servers, request, host, matching) :
                       Matches(name(n), host) \/ n \in matching}
      Of(forms)  == {n \in hit : name(n).form \in forms}
      Longest(set) == CHOOSE m \in set : \A n \in set : Len(name(n).labels) <= Len(name(m).labels)
      First(set) == CHOOSE m \in set :
                      \A n \in set : m[1] < n[1] \/ (m[1] = n[1] /\ m[2] <= n[2])
      on         == OnPort(servers, request)
      defaults   == {i \in on : \E l \in servers[i].listeners : l.port = request.port /\ l.default}
  IN  IF Of({"exact", "variable"}) # {} THEN First(Of({"exact", "variable"}))[1]
      ELSE IF Of({"leading", "dotted"}) # {} THEN Longest(Of({"leading", "dotted"}))[1]
      ELSE IF Of({"trailing"}) # {} THEN Longest(Of({"trailing"}))[1]
      ELSE IF hit # {} THEN First(hit)[1]
      ELSE IF defaults # {} THEN Min(defaults)
      ELSE Min(on)

\* The search of nginx through the locations: an exact one ends it; below the longest prefix it
\* searches on; then the expressions are tried unless the prefix has priority. A level in which an
\* expression or an exact location was found ends the search of the levels above it.
NginxLocation(locations, uri, matching) ==
  LET Search[p \in 0 .. Len(locations)] ==
        LET set     == Children(locations, p)
            exact   == ExactAmong(locations, set, uri)
            longest == LongestPrefix(locations, set, uri)
            regex   == RegexAmong(locations, set, uri) \union (matching \cap set)
            below   == IF longest = {} THEN [ends |-> FALSE, at |-> p] ELSE Search[Min(longest)]
            tried   == regex # {} /\ \A i \in longest : locations[i].modifier # "^~"
        IN  CASE exact # {}               -> [ends |-> TRUE, at |-> Min(exact)]
              [] exact = {} /\ below.ends -> below
              [] OTHER -> IF tried THEN [ends |-> TRUE, at |-> Search[Min(regex)].at] ELSE below
  IN  Search[0].at

-------------------------------------------------------------------------------
(* Properties of one configuration and one request. *)

\* No listener of the port differs in its protocol, or is left out by the analysis.
ListenersAreAlike(servers, request) ==
  \A i \in OnPort(servers, request) : \A l \in servers[i].listeners :
    l.port = request.port => Serves(l, request)

\* Two names of the port share their labels, one of them with a leading dot: nginx ignores one of
\* them altogether, which the analysis does not know.
DotsClash(servers, request) ==
  \E i, j \in OnPort(servers, request) :
    \E m \in Range(servers[i].names), n \in Range(servers[j].names) :
      m.form = "dotted" /\ n.form \in {"exact", "leading"} /\ m.labels = n.labels

\* A server found by its name is the one nginx chooses, whatever the indeterminate names match,
\* where all listeners of the port are analysed and no dotted name clashes with another one
\* (selectServerName, nameUncertaintyCanPreempt).
NamePredictionHolds(servers, request, host) ==
  LET predicted == PredictServer(servers, request, host)
      doubtful  == {<<i, k>> \in UNION {{i} \X DOMAIN servers[i].names : i \in DOMAIN servers} :
                      Indeterminate(servers[i].names[k])}
  IN  predicted.named /\ ListenersAreAlike(servers, request) /\ ~DotsClash(servers, request) =>
        \A matching \in SUBSET doubtful :
          NginxServer(servers, request, host, matching) = predicted.server


\* A predicted location is the one nginx reaches, whatever the expressions match that Go does not
\* compile, and something is predicted if there are none (selectLocationLevel, Analyze).
LocationPredictionHolds(locations, uri) ==
  /\ \A location \in PredictLocation(locations, uri),
        matching \in SUBSET Foreign(locations, DOMAIN locations) :
       NginxLocation(locations, uri, matching) = location
  /\ Foreign(locations, DOMAIN locations) = {} /\ OfType(locations, DOMAIN locations, {"unknown"}) = {}
       => PredictLocation(locations, uri) # {}
===============================================================================
