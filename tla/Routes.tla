------------------------------ MODULE Routes --------------------------------
(***************************************************************************)
(* Routes in three parts: the table (Ro), its discovery (Rd), and the gRPC *)
(* multiplexer that carries discovery requests (Mx).                       *)
(***************************************************************************)

(* The route table (common/router/config_impl.cc): the virtual host of a   *)
(* request, the route in it, the cluster of a weighted route, the          *)
(* rewritten path, the metadata a subset is chosen by, and the rate limit  *)
(* descriptors (common/router/router_ratelimit.cc).  Hosts and paths are   *)
(* sequences of letters; a regular expression is the set of paths it       *)
(* matches.                                                                *)
EXTENDS Integers, Sequences, FiniteSets, SequencesExt

CONSTANTS
    RoMaxWeight,   \* MAX_CLUSTER_WEIGHT, 100 in the code
    RoHosts,       \* host headers
    RoDomains,     \* domains: [wild, s]; "*" is the wildcard of nothing
    RoRoutes,      \* routes to make tables of
    RoPaths,       \* request paths
    RoPolicies,    \* rate limit policies: sequences of sequences of actions
    RoHashWidth    \* bits of a hash, 64 in the code

ASSUME RoConstants == RoMaxWeight \in Nat \ {0} /\ RoHashWidth \in Nat \ {0}

VARIABLE ro

RoStar == [wild |-> TRUE, s |-> <<>>]

(***************************************************************************)
(* Virtual hosts                                                           *)
(***************************************************************************)
\* RouteMatcher: a second "*" or a second exact domain fails the load; of equal
\* wildcards emplace keeps the first.
roLoads(domains) ==
    \A i, j \in 1..Len(domains) :
        i < j /\ domains[i] = domains[j] => domains[i].wild /\ domains[i] # RoStar

roFirst(domains, d) == SelectInSeq(domains, LAMBDA e : e = d)

roExacts(domains) == {d \in Range(domains) : ~d.wild}
roSuffixes(domains) == {d \in Range(domains) : d.wild /\ d # RoStar}

\* findWildcardVirtualHost: the longest suffix that is shorter than the host.
roSuffixFitsEqual(d, host) == Len(d.s) <= Len(host) /\ IsSuffix(d.s, host)
roSuffixFits(d, host) == Len(d.s) < Len(host) /\ IsSuffix(d.s, host)

roFindWildcard(domains, host) ==
    LET fits == {d \in roSuffixes(domains) : roSuffixFits(d, host)}
    IN IF fits = {} THEN 0
       ELSE roFirst(domains, CHOOSE d \in fits : \A e \in fits : Len(e.s) <= Len(d.s))

\* findVirtualHost: the virtual host, by the index of its domain, or 0.
roFindVirtualHost(domains, host) ==
    LET exact == [wild |-> FALSE, s |-> host]
        wildcard == roFindWildcard(domains, host)
    IN IF roExacts(domains) = {} /\ RoStar \in Range(domains) THEN roFirst(domains, RoStar)
       ELSE IF exact \in Range(domains) THEN roFirst(domains, exact)
       ELSE IF wildcard # 0 THEN wildcard
       ELSE roFirst(domains, RoStar)

(***************************************************************************)
(* Routes                                                                  *)
(***************************************************************************)
roLower(s) == [i \in 1..Len(s) |-> IF s[i] = "X" THEN "x" ELSE s[i]]

roSame(route, a, b) == IF route.caseSensitive THEN a = b ELSE roLower(a) = roLower(b)

\* findQueryStringStart: the part of a path before its "?".
roWithoutQuery(path) ==
    LET q == SelectInSeq(path, LAMBDA c : c = "?")
    IN IF q = 0 THEN path ELSE SubSeq(path, 1, q - 1)

\* matchHeaders: a header must be there and, if a value is given, have it.
roMatchHeaders(wanted, headers) ==
    \A w \in wanted : \E h \in headers : h.name = w.name /\ (w.value = "" \/ h.value = w.value)

\* matchRoute.
roMatchRoute(route, req) ==
    /\ route.runtime = "none" \/ req.feature
    /\ roMatchHeaders(route.headers, req.headers)

\* matches of a prefix, path and regex route.
roMatches(route, req) ==
    /\ roMatchRoute(route, req)
    /\ CASE route.kind = "prefix" -> /\ Len(route.path) <= Len(req.path)
                                     /\ roSame(route, SubSeq(req.path, 1, Len(route.path)), route.path)
         [] route.kind = "path" -> roSame(route, roWithoutQuery(req.path), route.path)
         [] route.kind = "regex" -> roWithoutQuery(req.path) \in route.paths

\* getRouteFromEntries: the TLS redirect (no route) first, then the first route
\* that matches.
roNeedsTls(tls, req) == req.proto # "https" /\ (tls = "ALL" \/ (tls = "EXTERNAL_ONLY" /\ ~req.internal))

roGetRoute(table, req) ==
    LET i == SelectInSeq(table.routes, LAMBDA r : roMatches(r, req))
    IN IF roNeedsTls(table.tls, req) \/ i = 0 THEN <<>> ELSE <<table.routes[i]>>

\* clusterEntry: the weighted cluster whose interval the random value is in.
roEnd(weights, k) == IF k = 0 THEN 0 ELSE FoldLeft(LAMBDA a, b : a + b, 0, SubSeq(weights, 1, k))

roInIntervalClosed(weights, k, value) == roEnd(weights, k - 1) <= value /\ value <= roEnd(weights, k)
roInInterval(weights, k, value) == roEnd(weights, k - 1) <= value /\ value < roEnd(weights, k)

roClusterEntry(weights, random) ==
    LET value == random % RoMaxWeight
        hits == {k \in 1..Len(weights) :
                    roInInterval(weights, k, value) \/ roEnd(weights, k) >= RoMaxWeight}
    IN IF hits = {} THEN 0 ELSE CHOOSE k \in hits : \A j \in hits : k <= j

\* RouteEntryImplBase: the weights configured, or those of the runtime, must add up.
roWeightsLoad(weights) == roEnd(weights, Len(weights)) = RoMaxWeight

\* finalizeRequestHeaders of the three kinds: what part of the path is replaced.
roMatchedPath(route, req) ==
    IF route.kind = "regex" THEN roWithoutQuery(req.path) ELSE route.path

\* finalizePathHeader.
roRewrite(route, req) ==
    IF route.rewrite = <<>> THEN req.path
    ELSE route.rewrite \o SubSeq(req.path, Len(roMatchedPath(route, req)) + 1, Len(req.path))

(***************************************************************************)
(* Metadata and rate limits                                                *)
(***************************************************************************)
\* extractMetadataMatchCriteria: the parent's criteria, those of the same name
\* replaced, the others behind them, all sorted by name.
roMergeAppends(parent, child) == parent \o child

roMerge(parent, child) ==
    LET kept == [i \in 1..Len(parent) |->
                    LET k == SelectInSeq(child, LAMBDA c : c.name = parent[i].name)
                    IN IF k = 0 THEN parent[i] ELSE child[k]]
        new == SelectSeq(child, LAMBDA c : \A i \in 1..Len(parent) : parent[i].name # c.name)
    IN kept \o new

roCriteria(parent, child) == SortSeq(roMerge(parent, child), LAMBDA a, b : a.name < b.name)

\* populateDescriptor of an action: its entry, or none.
roEntry(action, req) ==
    CASE action.kind = "generic_key" -> <<"generic_key", action.value>>
      [] action.kind = "destination_cluster" -> <<"destination_cluster", req.cluster>>
      [] action.kind = "source_cluster" -> <<"source_cluster", "local">>
      [] action.kind = "remote_address" ->
            IF req.address = "" THEN <<>> ELSE <<"remote_address", req.address>>
      [] action.kind = "request_headers" ->
            LET hs == {h \in req.headers : h.name = action.header}
            IN IF hs = {} THEN <<>> ELSE <<action.value, (CHOOSE h \in hs : TRUE).value>>
      [] action.kind = "header_value_match" ->
            IF action.expect = roMatchHeaders(action.headers, req.headers)
            THEN <<"header_match", action.value>> ELSE <<>>

\* RateLimitPolicyEntryImpl::populateDescriptors: all of its actions or nothing.
roDescriptor(entry, req) ==
    LET es == [i \in 1..Len(entry) |-> roEntry(entry[i], req)]
    IN IF \E i \in 1..Len(es) : es[i] = <<>> THEN <<>> ELSE <<es>>

\* The filter: the route's policy, then the virtual host's if it has none of its
\* own or includes it (include_vh_rate_limits_).
roIncludesVh(policy, include) == policy = <<>> \/ include

roDescriptors(policy, vh, include, req) ==
    LET from(p) == FlattenSeq([i \in 1..Len(p) |-> roDescriptor(p[i], req)])
    IN from(policy) \o (IF roIncludesVh(policy, include) THEN from(vh) ELSE <<>>)

(***************************************************************************)
(* Hash policies                                                           *)
(***************************************************************************)
RoBits == [1..RoHashWidth -> BOOLEAN]
RoZero == [i \in 1..RoHashWidth |-> FALSE]

\* evaluate of a header, cookie and address rule: <<>> or a hash.  A cookie that
\* is not there is added, if the rule has a ttl, and hashed.
roEvaluate(rule, req) ==
    IF rule = "ttl cookie" /\ req["cookie"] = <<>> THEN <<req.fresh>>
    ELSE IF rule = "ttl cookie" THEN req["cookie"] ELSE req[rule]

\* generateHash: the hash so far is rotated by one bit before the next goes in.
roRotateNot(h) == h
roRotate(h) == [i \in 1..RoHashWidth |-> IF i = 1 THEN h[RoHashWidth] ELSE h[i - 1]]

roMix(hash, new) ==
    IF new = <<>> THEN hash
    ELSE LET old == IF hash = <<>> THEN RoZero ELSE roRotate(hash[1])
         IN <<[i \in 1..RoHashWidth |-> old[i] # new[1][i]]>>

roGenerateHash(rules, req) ==
    FoldLeft(LAMBDA hash, rule : roMix(hash, roEvaluate(rule, req)), <<>>, rules)

(***************************************************************************)
(* A table is loaded, requests are routed by it                            *)
(***************************************************************************)
RoInit == ro = [at |-> "empty"]

RoLoadHosts == \E ds \in [1..3 -> RoDomains] :
    ro' = [at |-> IF roLoads(ds) THEN "hosts" ELSE "refused", domains |-> ds]

RoLoadRoutes == \E rs \in RoRoutes \X RoRoutes, tls \in {"NONE", "EXTERNAL_ONLY", "ALL"} :
    ro' = [at |-> "routes", table |-> [tls |-> tls, routes |-> <<rs[1], rs[2]>>]]

\* The weights of a route, and those the runtime has when a request comes.
RoLoadWeights == \E ws \in [1..3 -> 0..RoMaxWeight] :
    /\ roWeightsLoad(ws)
    /\ ro' = [at |-> "weights", weights |-> ws, now |-> ws]

RoRuntime == \E k \in 1..3, w \in 0..RoMaxWeight :
    /\ ro.at = "weights" /\ ro.now = ro.weights
    /\ ro' = [ro EXCEPT !.now[k] = w]

\* Metadata as it is configured: each name once, in any order.
RoCriteriaSeqs ==
    {q \in BoundedSeq([name : 1..3, value : {"p", "q"}], 2) :
        \A i, j \in 1..Len(q) : q[i].name = q[j].name => i = j}

RoLoadMetadata == \E p, c \in RoCriteriaSeqs :
    ro' = [at |-> "metadata", parent |-> p, child |-> c, criteria |-> roCriteria(p, c)]

RoLoadPolicy == \E p, vh \in RoPolicies, include \in BOOLEAN :
    ro' = [at |-> "policy", policy |-> p, vh |-> vh, include |-> include]

RoRules == {"header", "cookie", "ttl cookie", "ip"}

RoLoadHashPolicy == \E rules \in UNION {[1..n -> RoRules] : n \in 1..2} :
    ro' = [at |-> "hashing", rules |-> rules]

RoLoad == /\ ro.at = "empty"
          /\ \/ RoLoadHosts \/ RoLoadRoutes \/ RoLoadWeights \/ RoLoadMetadata
             \/ RoLoadPolicy \/ RoLoadHashPolicy

RoHeaders == SUBSET {[name |-> "h", value |-> "1"], [name |-> "h2", value |-> "1"]}

RoRequestHost == \E host \in RoHosts :
    /\ ro.at = "hosts"
    /\ ro' = [at |-> "found", domains |-> ro.domains, host |-> host,
              vh |-> roFindVirtualHost(ro.domains, host)]

RoRequestPath == \E path \in RoPaths, headers \in RoHeaders, feature, internal \in BOOLEAN,
                   proto \in {"http", "https"} :
    LET req == [path |-> path, headers |-> headers, feature |-> feature, internal |-> internal,
                proto |-> proto]
    IN /\ ro.at = "routes"
       /\ LET r == roGetRoute(ro.table, req) IN
          ro' = [at |-> "routed", path |-> path, route |-> r,
                 new |-> IF r = <<>> THEN path ELSE roRewrite(r[1], req)]

RoRequestCluster == \E random \in 0..(2 * RoMaxWeight) :
    /\ ro.at = "weights"
    /\ ro' = [at |-> "picked", weights |-> ro.weights, now |-> ro.now, random |-> random,
              cluster |-> roClusterEntry(ro.now, random)]

RoRequestLimits == \E headers \in RoHeaders, address \in {"", "ip"} :
    LET req == [headers |-> headers, address |-> address, cluster |-> "c"]
    IN /\ ro.at = "policy"
       /\ ro' = [at |-> "limited", policy |-> ro.policy, vh |-> ro.vh, include |-> ro.include,
                 req |-> req, descriptors |-> roDescriptors(ro.policy, ro.vh, ro.include, req)]

RoRequestHash ==
    \E h, c, ip \in {<<>>} \cup {<<b>> : b \in RoBits}, fresh \in RoBits :
        LET req == [header |-> h, cookie |-> c, ip |-> ip, fresh |-> fresh]
        IN /\ ro.at = "hashing"
           /\ ro' = [at |-> "hashed", rules |-> ro.rules, req |-> req,
                     hash |-> roGenerateHash(ro.rules, req)]

RoNext == RoLoad \/ RoRequestHash \/ RoRuntime \/ RoRequestHost \/ RoRequestPath \/ RoRequestCluster \/ RoRequestLimits

(***************************************************************************)
(* Properties                                                              *)
(***************************************************************************)
\* What a domain promises (vhost.rst): a host goes to the domain that is equal
\* to it, else to a longest wildcard it ends with, which stands for something,
\* else to "*".
roPromised(domains, host, i) ==
    LET ok(d) == IF d.wild THEN IsSuffix(d.s, host) /\ (d = RoStar \/ d.s # host) ELSE d.s = host
        rank(d) == IF d.wild THEN Len(d.s) ELSE Len(host) + 1
    IN IF i = 0 THEN \A d \in Range(domains) : ~ok(d)
       ELSE ok(domains[i]) /\ \A d \in Range(domains) : ok(d) => rank(d) <= rank(domains[i])

roHostRight ==
    ro.at = "found" /\ ~(roExacts(ro.domains) = {} /\ RoStar \in Range(ro.domains)) =>
        roPromised(ro.domains, ro.host, ro.vh)

\* Each cluster gets its share of the random values, and whatever the runtime
\* makes of the weights a value is given to a cluster that has some weight,
\* unless they no longer add up.
roShares(ws) ==
    \A k \in 1..Len(ws) :
        Cardinality({v \in 0..(RoMaxWeight - 1) : roClusterEntry(ws, v) = k}) = ws[k]

roClusterRight ==
    ro.at = "picked" =>
        /\ roShares(ro.weights)
        /\ roEnd(ro.now, 3) >= RoMaxWeight => ro.cluster # 0 /\ ro.now[ro.cluster] > 0

\* The rewritten path keeps the query, and what follows a matched prefix.
roPathRight ==
    ro.at = "routed" =>
        \A route \in {x \in Range(ro.route) : x.rewrite # <<>>} :
            /\ IsPrefix(route.rewrite, ro.new)
            /\ LET query(p) == SubSeq(p, Len(roWithoutQuery(p)) + 1, Len(p))
                   rest == SubSeq(ro.new, Len(route.rewrite) + 1, Len(ro.new))
               IN IF route.kind = "prefix" THEN IsSuffix(rest, ro.path) ELSE rest = query(ro.path)

\* The criteria a subset is looked up by have each name once, in order, with the
\* value of the more specific place.
roCriteriaRight ==
    ro.at = "metadata" =>
        /\ \A i \in 1..(Len(ro.criteria) - 1) : ro.criteria[i].name < ro.criteria[i + 1].name
        /\ \A n \in 1..3 :
              LET at(s) == {c \in Range(s) : c.name = n}
              IN at(ro.criteria) = IF at(ro.child) # {} THEN at(ro.child) ELSE at(ro.parent)

\* No descriptor is sent with an entry missing: it would be counted against a
\* more general limit.
roDescriptorsWhole ==
    ro.at = "limited" =>
        \A d \in Range(ro.descriptors) :
            \E e \in Range(ro.policy) \cup Range(ro.vh) :
                Len(d) = Len(e) /\ \A i \in 1..Len(d) : Len(d[i]) = 2

\* There is a hash if any rule has one, it depends on the hash of every rule, and
\* (the comment in generateHash) two equal rules do not cancel each other out.
roHashRight ==
    ro.at = "hashed" =>
        LET es == [i \in 1..Len(ro.rules) |-> roEvaluate(ro.rules[i], ro.req)] IN
        /\ ro.hash = <<>> <=> \A i \in 1..Len(es) : es[i] = <<>>
        /\ Len(es) = 2 /\ es[1] # <<>> /\ es[1] = es[2] /\ (\E i, j \in 1..RoHashWidth : es[1][1][i] # es[1][1][j])
              => ro.hash # <<RoZero>>
        /\ Len(es) = 2 /\ ro.rules[1] # ro.rules[2] /\ es[1] # <<>> /\ es[2] # <<>> =>
              \A b \in RoBits : b # es[1][1] => roMix(roMix(<<>>, <<b>>), es[2]) # ro.hash

RoSound == /\ roHostRight /\ roClusterRight /\ roPathRight /\ roCriteriaRight
           /\ roDescriptorsWhole /\ roHashRight

\* The same without the exception: a table of wildcards and "*" sends everything
\* to "*" (the fast path looks at the exact domains only).
RoLongestWins == ro.at = "found" => roPromised(ro.domains, ro.host, ro.vh)

\* vhost.rst: "A domain must be unique across all virtual hosts or the config
\* will fail to load": wildcards are not looked at.
RoDomainsUnique == ro.at = "hosts" => \A i, j \in 1..3 : ro.domains[i] = ro.domains[j] => i = j

\* Weights the runtime makes smaller leave values no cluster takes: NOT_REACHED.
RoAlwaysPicked == ro.at = "picked" => ro.cluster # 0

-----------------------------------------------------------------------------
(* Routes by RDS (common/router/rds_impl.cc): the providers listeners      *)
(* share, the answer that ends a listener's warming (server/               *)
(* init_manager_impl.cc and ListenerImpl of server/listener_manager_impl.cc*)
(* once the workers run) and the tables posted to a worker.  One listener  *)
(* name, whose successive versions are 1, 2, ...; a version names the      *)
(* route configurations its filters use.                                   *)

CONSTANTS
    RdVersions,   \* versions of the listener that LDS sends
    RdNames,      \* identifiers of providers (serialised rds configs)
    RdMaxUpdates  \* bound: answers of the management server

ASSUME RdConstants == RdVersions \subseteq Nat /\ RdMaxUpdates \in Nat

VARIABLE rd

\* A provider: RdsRouteConfigProviderImpl.  cb is the version whose init manager
\* initialize_callback_ belongs to, 0 for none; table 0 is NullConfigImpl.
RdProvider == [holders |-> {}, cb |-> 0, started |-> FALSE, heard |-> FALSE,
               initialized |-> FALSE, hash |-> 0, id |-> 0]

RdInit == rd = [v |-> [i \in RdVersions |-> "none"], uses |-> [i \in RdVersions |-> {}],
                targets |-> [i \in RdVersions |-> {}],
                p |-> [n \in RdNames |-> RdProvider],
                worker |-> <<>>, tables |-> [n \in RdNames |-> 0],
                updates |-> 0, made |-> 0, joined |-> FALSE, dead |-> "no"]

rdExists(x, n) == x.p[n].holders # {}

\* onListenerWarmed: the version takes the place of the active one, which drains
\* and is taken off the worker.
rdWarmed(x, i) ==
    LET old == {j \in RdVersions : x.v[j] = "active"} IN
    [x EXCEPT !.v = [j \in RdVersions |-> IF j = i THEN "active"
                                          ELSE IF j \in old THEN "draining" ELSE @[j]],
              !.worker = @ \o SetToSeq({[kind |-> "remove", of |-> j, value |-> 0, id |-> 0] : j \in old})]

\* The callback of InitManagerImpl::initializeTarget, of a version that may be gone.
rdTargetReady(x, i, n) ==
    IF x.v[i] = "gone" THEN [x EXCEPT !.dead = "callback"]
    ELSE LET y == [x EXCEPT !.targets[i] = @ \ {n}] IN
         IF y.targets[i] = {} /\ y.v[i] = "warming" THEN rdWarmed(y, i) ELSE y

\* runInitializeCallbackIfAny.
rdRunCallback(x, n) ==
    IF x.p[n].cb = 0 THEN x
    ELSE [rdTargetReady(x, x.p[n].cb, n) EXCEPT !.p[n].cb = 0]

\* ~RdsRouteConfigProviderImpl, when the last holder lets go.
rdRelease(x, i, n) ==
    IF x.p[n].holders = {i}
    THEN [rdRunCallback(x, n) EXCEPT !.p[n] = RdProvider, !.tables[n] = 0]
    ELSE [x EXCEPT !.p[n].holders = @ \ {i}]

\* ~ListenerImpl: initialize_canceled_, then the filter factories let go.
rdDestroy(x, i) ==
    LET canceled == [x EXCEPT !.v[i] = "canceled"]
        let == FoldSet(LAMBDA n, y : rdRelease(y, i, n), canceled, x.uses[i])
    IN [let EXCEPT !.v[i] = "gone", !.targets[i] = {}, !.uses[i] = {}]

\* getRouteConfigProvider: the one there is, or a new one that is a target of the
\* listener's init manager.
rdGetProvider(x, i, n) ==
    IF rdExists(x, n)
    THEN [x EXCEPT !.p[n].holders = @ \cup {i}, !.uses[i] = @ \cup {n},
                   !.joined = @ \/ ~x.p[n].heard]
    ELSE [x EXCEPT !.p[n] = [RdProvider EXCEPT !.holders = {i}, !.id = x.made + 1],
                   !.made = @ + 1, !.uses[i] = @ \cup {n}, !.targets[i] = @ \cup {n}]

\* Init::Target::initialize: the subscription starts.
rdInitialize(x, i) ==
    IF x.targets[i] = {} THEN rdWarmed(x, i)
    ELSE [x EXCEPT !.p = [n \in RdNames |-> IF n \in x.targets[i]
                             THEN [@[n] EXCEPT !.cb = i, !.started = TRUE] ELSE @[n]]]

\* LDS adds or updates the listener: the new version is made before a warming one
\* it replaces is destroyed.
RdAddOrUpdate(i, names) ==
    LET made == FoldSet(LAMBDA n, y : rdGetProvider(y, i, n), rd, names)
        old == {j \in RdVersions : rd.v[j] = "warming"}
        placed == FoldSet(LAMBDA j, y : rdDestroy(y, j), [made EXCEPT !.v[i] = "warming"], old)
    IN /\ rd.dead = "no"
       /\ rd.v[i] = "none" /\ \A j \in RdVersions : j < i => rd.v[j] # "none"
       /\ rd' = rdInitialize(placed, i)

\* LDS removes the listener: a warming version at once, an active one by way of
\* the worker.
RdRemove ==
    LET warming == {j \in RdVersions : rd.v[j] = "warming"}
        active == {j \in RdVersions : rd.v[j] = "active"}
        y == FoldSet(LAMBDA j, x : rdDestroy(x, j), rd, warming)
    IN /\ rd.dead = "no" /\ warming \cup active # {}
       /\ rd' = [y EXCEPT
             !.v = [j \in RdVersions |-> IF j \in active THEN "draining" ELSE @[j]],
             !.worker = @ \o SetToSeq({[kind |-> "remove", of |-> j, value |-> 0, id |-> 0] : j \in active})]

\* onConfigUpdate: no resource, a table that is not valid, or a valid one.
rdAcceptUnhashed(p, table) == [p EXCEPT !.initialized = TRUE]
rdAccept(p, table) == [p EXCEPT !.initialized = TRUE, !.hash = table]

\* Every way out of onConfigUpdate, and a failed fetch, runs the callback.
rdAnsweredByTable(x, n, kind) == IF kind = "table" THEN rdRunCallback(x, n) ELSE x
rdAnswered(x, n, kind) == rdRunCallback(x, n)

RdUpdate(n, kind, table) ==
    LET p == rd.p[n]
        x == [rd EXCEPT !.updates = @ + 1]
        heard == [x EXCEPT !.p[n].heard = TRUE]
        changes == table # p.hash \/ ~p.initialized
        posted == [heard EXCEPT !.p[n] = rdAccept([p EXCEPT !.heard = TRUE], table),
                        !.worker = Append(@, [kind |-> "table", of |-> n, value |-> table, id |-> p.id])]
    IN /\ rd.dead = "no" /\ p.started /\ rd.updates < RdMaxUpdates
       /\ rd' = rdAnswered(IF kind = "table" /\ changes THEN posted ELSE heard, n, kind)

\* The worker runs what was posted: the callback uses its provider's slot.
RdWorker ==
    LET w == Head(rd.worker)
        x == [rd EXCEPT !.worker = Tail(@)]
    IN /\ rd.dead = "no" /\ rd.worker # <<>>
       /\ rd' = IF w.kind = "remove" THEN [x EXCEPT !.v[w.of] = "removed"]
                ELSE IF rd.p[w.of].id # w.id THEN [x EXCEPT !.dead = "post"]
                ELSE [x EXCEPT !.tables[w.of] = w.value]

\* The main thread destroys a version its worker has let go.
RdDestroyed(i) ==
    /\ rd.dead = "no" /\ rd.v[i] = "removed"
    /\ rd' = rdDestroy(rd, i)

RdNext ==
    \/ \E i \in RdVersions, names \in SUBSET RdNames : RdAddOrUpdate(i, names)
    \/ \E n \in RdNames, kind \in {"empty", "invalid", "table"}, t \in 1..2 : RdUpdate(n, kind, t)
    \/ \E i \in RdVersions : RdDestroyed(i)
    \/ RdRemove
    \/ RdWorker

(***************************************************************************)
(* Properties                                                              *)
(***************************************************************************)
\* Once the worker has caught up it routes by the last table that was accepted.
rdTablesCurrent ==
    \A n \in RdNames :
        rdExists(rd, n) /\ ~(\E k \in 1..Len(rd.worker) : rd.worker[k].of = n)
            => rd.tables[n] = rd.p[n].hash

\* A listener waits for the providers it asked for first that have not answered,
\* and only for them: an answer can always warm it.
rdCanWarm ==
    \A i \in RdVersions : rd.v[i] = "warming" =>
        /\ rd.targets[i] # {}
        /\ \A n \in rd.targets[i] : rd.p[n].cb = i /\ ~rd.p[n].heard /\ i \in rd.p[n].holders

\* A provider lives as long as a listener that uses it.
rdHeld == \A n \in RdNames, i \in RdVersions :
    i \in rd.p[n].holders <=> rd.v[i] # "gone" /\ n \in rd.uses[i]

\* lds.rst: a listener that references an RDS configuration takes traffic only
\* once that "will be resolved and fetched".
rdWarm(x) == \A i \in RdVersions : x.v[i] = "active" => \A n \in x.uses[i] : x.p[n].heard

\* The worker routes by the last table accepted, a warming listener can be warmed
\* and is not before its routes are known; a callback of an init manager that is
\* gone is run only where a version joined a provider that had not answered.
RdSound ==
    /\ rd.dead = "no" => rdTablesCurrent /\ rdCanWarm /\ rdHeld /\ (~rd.joined => rdWarm(rd))
    /\ rd.dead = "callback" => rd.joined

\* Departures: a version that joins a provider which has not answered does not
\* wait for it; the version it replaces leaves its callback behind.
RdWarmedByRoutes == rdWarm(rd)
RdCallbackAlive == rd.dead # "callback"
RdPostAlive == rd.dead # "post"

-----------------------------------------------------------------------------
(* common/config/grpc_mux_impl.cc, with grpc_mux_subscription_impl.h: the   *)
(* subscriptions of every resource type share one gRPC stream to the        *)
(* management server; it may break at any time, also while requests are     *)
(* being sent, and is set up again when a timer fires.                      *)

CONSTANTS MxWatches,
          MxTypeOf,       \* the resource type of a watch
          MxNames,        \* the resources a watch may ask for; {} for all
          MxMaxResponses, \* bound: responses
          MxMaxCloses     \* bound: streams that break

ASSUME MxConstants == MxMaxResponses \in Nat /\ MxMaxCloses \in Nat /\ MxTypeOf \in [MxWatches -> STRING]

VARIABLE mx

MxTypes == {MxTypeOf[w] : w \in MxWatches}
MxNoRequest == [names |-> {"-"}, version |-> 0, nonce |-> 0]

\* stream: stream_ is set; open: gRPC streams not reset; known: the last request
\* the server got on this stream; got: versionInfo() of a subscription.
MxInit ==
    mx = [started |-> FALSE, stream |-> FALSE, open |-> 0, timer |-> FALSE, subscriptions |-> << >>,
          watches |-> [t \in MxTypes |-> << >>], resources |-> [w \in MxWatches |-> {}],
          got |-> [w \in MxWatches |-> 0], since |-> [w \in MxWatches |-> 0],
          version |-> [t \in MxTypes |-> 0], nonce |-> [t \in MxTypes |-> 0],
          known |-> [t \in MxTypes |-> MxNoRequest], flight |-> << >>, responses |-> 0, closes |-> 0]

mxLive(p) == UNION {Range(p.watches[t]) : t \in MxTypes}

\* handleFailure(): the watches are told, which changes nothing here; the timer is armed.
mxHandleFailure(p) == [p EXCEPT !.timer = TRUE]

\* onRemoteClose(): a stream that ends with status OK is never reset.
mxRemoteClose(p, ok) ==
    mxHandleFailure([p EXCEPT !.stream = FALSE, !.flight = << >>, !.known = [t \in MxTypes |-> MxNoRequest],
                              !.open = IF ok THEN @ ELSE @ - 1])

\* Mutant: only the last watch's resources are asked for.
mxRequestedLast(p, t) == IF p.watches[t] = << >> THEN {} ELSE p.resources[p.watches[t][1]]

mxRequested(p, t) == UNION {p.resources[w] : w \in Range(p.watches[t])}

\* sendDiscoveryRequest()
mxSend(p, t) ==
    IF ~p.stream THEN p
    ELSE [p EXCEPT !.known[t] = [names |-> mxRequested(p, t), version |-> p.version[t], nonce |-> p.nonce[t]]]

\* Mutant: the failure of a stream that cannot be had is not handled.
mxEstablishSilent(p, sent) ==
    IF sent < 0 THEN p
    ELSE FoldLeft(LAMBDA q, t : mxSend(q, t), [p EXCEPT !.stream = TRUE, !.open = @ + 1], p.subscriptions)

\* establishNewStream(): sent is how many requests were sent before the stream
\* broke; -1 if it was closed within start(), which tells the mux and fails too.
mxEstablish(p, sent) ==
    IF sent < 0 THEN mxHandleFailure(mxRemoteClose([p EXCEPT !.open = @ + 1], FALSE))
    ELSE LET up == [p EXCEPT !.stream = TRUE, !.open = @ + 1]
             told == FoldLeft(LAMBDA q, t : mxSend(q, t), up, SubSeq(p.subscriptions, 1, sent))
         IN IF sent < Len(p.subscriptions) THEN mxRemoteClose(told, FALSE) ELSE told

mxBreaks(p) == IF p.closes < MxMaxCloses THEN -1..Len(p.subscriptions) ELSE {Len(p.subscriptions)}
mxBroke(p, sent) == IF sent < Len(p.subscriptions) THEN p.closes + 1 ELSE p.closes

\* start(), and the retry timer.
MxStart ==
    /\ ~mx.started
    /\ \E sent \in mxBreaks(mx) : mx' = mxEstablish([mx EXCEPT !.started = TRUE, !.closes = mxBroke(mx, sent)], sent)
MxRetry ==
    /\ mx.timer
    /\ \E sent \in mxBreaks(mx) : mx' = mxEstablish([mx EXCEPT !.timer = FALSE, !.closes = mxBroke(mx, sent)], sent)

\* GrpcMuxWatchImpl joins at the front of its type's watches.
mxJoin(p, w, names) ==
    LET t == MxTypeOf[w]
        q == [p EXCEPT !.watches[t] = <<w>> \o @, !.resources[w] = names, !.since[w] = p.version[t],
                       !.subscriptions = IF t \in Range(@) THEN @ ELSE Append(@, t)]
    IN mxSend(q, t)

\* Mutant: a watch that is destroyed sends no request.
mxLeaveSilent(p, w) == [p EXCEPT !.watches[MxTypeOf[w]] = Remove(@, w), !.resources[w] = {}, !.got[w] = 0, !.since[w] = 0]

\* ~GrpcMuxWatchImpl()
mxLeave(p, w) ==
    mxSend([p EXCEPT !.watches[MxTypeOf[w]] = Remove(@, w), !.resources[w] = {}, !.got[w] = 0, !.since[w] = 0], MxTypeOf[w])

\* GrpcMuxSubscriptionImpl: start(), its end, and updateResources(), which joins before it leaves.
MxSubscribe(w, names) == w \notin mxLive(mx) /\ mx' = mxJoin(mx, w, names)
MxUnsubscribe(w) == w \in mxLive(mx) /\ mx' = mxLeave(mx, w)
MxUpdateResources(w, names) ==
    /\ w \in mxLive(mx) /\ mx.resources[w] # names
    /\ mx' = mxSend([mx EXCEPT !.watches[MxTypeOf[w]] = <<w>> \o Remove(@, w), !.resources[w] = names,
                               !.since[w] = mx.version[MxTypeOf[w]]], MxTypeOf[w])

\* The server answers a request: throws is the set of watches that refuse the
\* resources, "type" that one of them is of another type.
MxRespond(t) ==
    /\ mx.stream /\ mx.known[t] # MxNoRequest /\ mx.responses < MxMaxResponses
    /\ \E throws \in {{"type"}} \cup SUBSET Range(mx.watches[t]) :
          mx' = [mx EXCEPT !.responses = @ + 1, !.flight = Append(@, [type |-> t, id |-> mx.responses + 1, throws |-> throws])]

\* onReceiveMessage(): watches are updated in order until one throws; then all
\* are told of the failure.  The nonce is taken over in both cases.
MxReceive ==
    /\ mx.flight # << >>
    /\ LET m == Head(mx.flight)
           t == m.type
           ws == mx.watches[t]
           bad == {i \in DOMAIN ws : ws[i] \in m.throws}
           reached == IF "type" \in m.throws THEN {} ELSE {ws[i] : i \in {j \in DOMAIN ws : \A b \in bad : j < b}}
           rejected == "type" \in m.throws \/ bad # {}
           updated == [mx EXCEPT !.flight = Tail(@), !.got = [w \in MxWatches |-> IF w \in reached THEN m.id ELSE @[w]],
                                 !.version[t] = IF rejected THEN @ ELSE m.id, !.nonce[t] = m.id]
       IN mx' = mxSend(updated, t)

MxClose(ok) ==
    /\ mx.stream /\ mx.closes < MxMaxCloses
    /\ mx' = mxRemoteClose([mx EXCEPT !.closes = @ + 1], ok)

MxNext ==
    \/ MxStart \/ MxRetry \/ MxReceive \/ (\E ok \in BOOLEAN : MxClose(ok)) \/ (\E t \in MxTypes : MxRespond(t))
    \/ \E w \in MxWatches : \/ MxUnsubscribe(w)
                            \/ \E names \in MxNames : MxSubscribe(w, names) \/ MxUpdateResources(w, names)

MxSpec == MxInit /\ [][MxNext]_mx

(***************************************************************************)
(* Properties                                                              *)
(***************************************************************************)
\* While there is a stream the server knows, of every type anyone ever asked for,
\* all resources that are watched now, the version in use and the last nonce; a
\* mux that was started has a stream or a timer that will bring one; every watch
\* that was there has got the version the server is told of.
MxSound ==
    /\ mx.stream => \A t \in Range(mx.subscriptions) :
          /\ mx.known[t].names = UNION {mx.resources[w] : w \in Range(mx.watches[t])}
          /\ mx.known[t].version = mx.version[t] /\ mx.known[t].nonce = mx.nonce[t]
    /\ mx.started => mx.stream # mx.timer
    /\ mx.stream => mx.open > 0
    /\ \A w \in mxLive(mx) : mx.version[MxTypeOf[w]] > mx.since[w] => mx.got[w] >= mx.version[MxTypeOf[w]]

\* A version a subscription uses is one the server was told is in use: a response
\* that a later watch refuses is refused as a whole.
MxRefusedWhole == \A w \in mxLive(mx) : mx.got[w] <= mx.version[MxTypeOf[w]]

\* There is at most one gRPC stream: one that is over is reset.
MxOneStream == mx.open <= 1
=============================================================================
