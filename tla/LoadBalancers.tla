------------------------------ MODULE LoadBalancers -------------------------
(***************************************************************************)
(* Load balancers in two parts: the balancers over all hosts of a cluster  *)
(* (Lb), then the subsets (Sb).                                            *)
(***************************************************************************)

(***************************************************************************)
(* Which hosts a worker's load balancer may pick (common/upstream/         *)
(* load_balancer_impl.cc): all of them when too few are healthy, otherwise *)
(* healthy ones, of its own locality as far as that has capacity for its   *)
(* share of the traffic.  What was computed when host sets changed is used *)
(* until they change again.  The least request balancer stays with a       *)
(* weighted host for several requests.                                     *)
(***************************************************************************)
EXTENDS Integers, FiniteSets, FiniteSetsExt, Functions

CONSTANTS LbLocalities,  \* number of localities; 1 is the worker's own
          LbMaxHosts,    \* bound: hosts of a locality
          LbPanic,       \* upstream.healthy_panic_threshold, in percent
          LbMinCluster,  \* upstream.zone_routing.min_cluster_size
          LbWeight       \* of every host

VARIABLE lb

LbZones == 1..LbLocalities

\* Hosts are <<locality, number>>; healthy and all are numbers of hosts.  zones
\* is false while EDS does not give hosts per locality.
lbHosts(counts) == {h \in LbZones \X (1..LbMaxHosts) : h[2] <= counts[h[1]]}
lbTotal(counts) == Cardinality(lbHosts(counts))

LbCounts == [LbZones -> 0..LbMaxHosts]
LbNoHosts == [z \in LbZones |-> 0]

\* isGlobalPanic(): 100.0 * healthy / all < threshold
lbPanic(all, healthy) ==
    IF lbTotal(all) = 0 THEN LbPanic > 0 ELSE 100 * lbTotal(healthy) < LbPanic * lbTotal(all)

\* calculateLocalityPercentage()
lbPercentage(healthy) ==
    [z \in LbZones |-> IF lbTotal(healthy) > 0 THEN (10000 * healthy[z]) \div lbTotal(healthy) ELSE 0]

\* earlyExitNonLocalityRouting()
lbNoRouting(p) ==
    \/ ~p.zones \/ ~p.localZones
    \/ p.healthy[1] = 0
    \/ lbTotal(p.healthy) < LbMinCluster

\* residual_capacity_, accumulated.
lbResidual(up, local) ==
    LET spare(z) == IF z > 1 /\ up[z] > local[z] THEN up[z] - local[z] ELSE 0
        sum[z \in LbZones] == IF z = 1 THEN 0 ELSE sum[z - 1] + spare(z)
    IN  sum

LbNoRouting == [state |-> "NoLocalityRouting", percent |-> 0, residual |-> LbNoHosts]

\* regenerateLocalityRoutingStructures()
lbRegenerated(p) ==
    LET up == lbPercentage(p.healthy)
        local == lbPercentage(p.localHealthy)
    IN  CASE lbNoRouting(p) -> LbNoRouting
          [] ~lbNoRouting(p) /\ up[1] >= local[1] -> [LbNoRouting EXCEPT !.state = "LocalityDirect"]
          [] OTHER -> [state |-> "LocalityResidual", percent |-> (up[1] * 10000) \div local[1],
                       residual |-> lbResidual(up, local)]

LbInit ==
    lb = [all |-> LbNoHosts, healthy |-> LbNoHosts, zones |-> FALSE,
          localHealthy |-> LbNoHosts, localAll |-> LbNoHosts, localZones |-> FALSE,
          routing |-> LbNoRouting,
          last |-> {}, hitsLeft |-> 0]   \* last_host_, hits_left_

----------------------------------------------------------------------------
\* The locality that a sampled value falls into: while (threshold >
\* residual_capacity_[i]) i++.
lbBucket(residual, threshold) == Min({z \in LbZones : threshold <= residual[z]})

\* The localities tryChooseLocalLocalityHosts() may route across to: those of
\* any threshold below the total (0, and one past every bound, reach them all).
lbCross(r) ==
    LET total == r.residual[LbLocalities]
        thresholds == {t \in {0} \cup {r.residual[z] + 1 : z \in LbZones} : t < total}
    IN  IF total = 0 THEN LbZones ELSE {lbBucket(r.residual, t) : t \in thresholds}

\* tryChooseLocalLocalityHosts(), for every random value.
lbLocalities(r) ==
    IF r.state = "LocalityDirect" THEN {1}
    ELSE (IF r.percent > 0 THEN {1} ELSE {}) \cup (IF r.percent < 10000 THEN lbCross(r) ELSE {})

\* hostsToUse(): the lists it may return.
lbHostsToUse(p) ==
    IF lbPanic(p.all, p.healthy) THEN {lbHosts(p.all)}
    ELSE IF p.routing.state = "NoLocalityRouting" \/ lbPanic(p.localAll, p.localHealthy) THEN {lbHosts(p.healthy)}
    ELSE {{h \in lbHosts(p.healthy) : h[1] = z} : z \in lbLocalities(p.routing)}

\* The worker's host set of the cluster changes; LeastRequestLoadBalancer drops
\* its host if that is removed.
LbUpdate(all, healthy, zones) ==
    LET p == [lb EXCEPT !.all = all, !.healthy = healthy, !.zones = zones]
        stays == lb.last \subseteq lbHosts(all)
    IN  /\ \A z \in LbZones : healthy[z] <= all[z]
        /\ lb' = [p EXCEPT !.routing = lbRegenerated(p), !.last = IF stays THEN @ ELSE {},
                           !.hitsLeft = IF stays THEN @ ELSE 0]

\* Mutant: only the cluster's own host set has a callback.
lbOnLocalUpdateIgnored(p) == p.routing

lbOnLocalUpdate(p) == lbRegenerated(p)

\* The local cluster's host set changes: its callback, too, regenerates.
LbLocalUpdate(all, healthy, zones) ==
    LET p == [lb EXCEPT !.localAll = all, !.localHealthy = healthy, !.localZones = zones]
    IN  /\ \A z \in LbZones : healthy[z] <= all[z]
        /\ lb' = [p EXCEPT !.routing = lbOnLocalUpdate(p)]

\* LeastRequestLoadBalancer::chooseHost() when weights differ.
LbLeastRequest(h) ==
    \/ /\ lb.hitsLeft > 0 /\ {h} = lb.last
       /\ lb' = [lb EXCEPT !.hitsLeft = @ - 1]
    \/ /\ lb.hitsLeft = 0 /\ \E hosts \in lbHostsToUse(lb) : h \in hosts
       /\ lb' = [lb EXCEPT !.last = {h}, !.hitsLeft = LbWeight - 1]

LbNext ==
    \/ \E all, healthy \in LbCounts, zones \in BOOLEAN :
          LbUpdate(all, healthy, zones) \/ LbLocalUpdate(all, healthy, zones)
    \/ \E h \in lbHosts(lb.all) : LbLeastRequest(h)

LbSpec == LbInit /\ [][LbNext]_lb

----------------------------------------------------------------------------
(***************************************************************************)
(* Properties.                                                             *)
(***************************************************************************)

\* What a request may be sent to is right for the host sets as they are when it
\* comes: the structures computed before are not stale, no list is empty while
\* there are healthy hosts (the residual capacity of a locality is that of
\* hosts it has), a host that is not healthy is picked in a panic only, and the
\* host the least request balancer stays with is still there.
LbSound ==
    /\ lb.routing = lbRegenerated(lb)
    /\ lb.last \subseteq lbHosts(lb.all) /\ (lb.hitsLeft > 0 => lb.last # {})
    /\ ~lbPanic(lb.all, lb.healthy) =>
          \A hosts \in lbHostsToUse(lb) :
              hosts \subseteq lbHosts(lb.healthy) /\ (lb.healthy # LbNoHosts => hosts # {})

\* "At this point we must route cross locality as we cannot route to the local
\* locality" (tryChooseLocalLocalityHosts()): what is left over goes to
\* localities with capacity left.
LbCrossesOver ==
    lb.routing.state = "LocalityResidual" /\ lb.routing.residual[LbLocalities] > 0 =>
        \A z \in lbCross(lb.routing) : z > 1 /\ lb.routing.residual[z] > lb.routing.residual[z - 1]

-----------------------------------------------------------------------------
(***************************************************************************)
(* The subset load balancer (common/upstream/subset_lb.cc): for every      *)
(* configured set of keys, the hosts with the same values of the keys form *)
(* a subset with a host set and a balancer of its own, kept up to date     *)
(* from the updates of the cluster's host set; requests without a subset   *)
(* that has hosts use the fallback.                                        *)
(***************************************************************************)

CONSTANTS SbNames, SbValues,  \* of host metadata
          SbKeys,             \* subset_keys_
          SbMaxMembers        \* bound: hosts of the cluster

VARIABLE sb

\* A host is known by its metadata: values for some of the names.
SbHosts == UNION {[names -> SbValues] : names \in SUBSET SbNames}

\* The values a host has for a set of keys; it belongs to a subset only if it
\* has one for each (extractSubsetMetadata()).
sbHas(h, keys) == keys \subseteq DOMAIN h
sbKvs(h, keys) == Restrict(h, keys)

SbSubsets == {sbKvs(x[1], x[2]) : x \in {x \in SbHosts \X SbKeys : sbHas(x[1], x[2])}}

\* hostMatches(), hostMatchesDefaultSubset()
sbMatches(h, kvs) == \A k \in DOMAIN kvs : k \in DOMAIN h /\ h[k] = kvs[k]

SbPolicies == {"NO_FALLBACK", "ANY_ENDPOINT", "DEFAULT_SUBSET"}

\* default_subset_: the first value of the first name.
SbDefault == [names \in {CHOOSE n \in SbNames : TRUE} |-> CHOOSE v \in SbValues : TRUE]

sbInFallback(policy, h) == policy = "ANY_ENDPOINT" \/ sbMatches(h, SbDefault)

SbNoEntry == [initialized |-> FALSE, hosts |-> {}, healthy |-> {}]

SbInit ==
    \E policy \in SbPolicies :
    sb = [policy |-> policy, members |-> {}, failed |-> {},
          subsets |-> [kvs \in SbSubsets |-> SbNoEntry],
          fallback |-> [SbNoEntry EXCEPT !.initialized = policy # "NO_FALLBACK"],
          active |-> 0]   \* lb_subsets_active_

\* HostSubsetImpl::update(): nothing to do unless a host of the subset was added
\* or removed; otherwise both lists are made anew.
sbHostSubset(p, entry, changed, matching) ==
    IF changed \cap matching = {} THEN entry
    ELSE [initialized |-> TRUE, hosts |-> p.members \cap matching,
          healthy |-> (p.members \ p.failed) \cap matching]

sbActive(subsets) == {kvs \in SbSubsets : subsets[kvs].hosts # {}}

\* Mutant: subsets that only lose hosts are not updated.
sbTouchedAdded(p, added, removed) ==
    {kvs \in SbSubsets : \E h \in added : \E keys \in SbKeys : sbHas(h, keys) /\ sbKvs(h, keys) = kvs}

\* processSubsets(): the subsets of the hosts that come and go.  One without a
\* balancer gets one when hosts are added.
sbTouched(p, added, removed) ==
    {kvs \in SbSubsets : \E h \in added \cup removed :
        /\ \E keys \in SbKeys : sbHas(h, keys) /\ sbKvs(h, keys) = kvs
        /\ p.subsets[kvs].initialized \/ h \in added}

\* update(), and the statistics.
sbUpdate(p, added, removed) ==
    LET changed == added \cup removed
        touched == sbTouched(p, added, removed)
        subsets == [kvs \in SbSubsets |->
                       IF kvs \in touched
                         THEN sbHostSubset(p, p.subsets[kvs], changed, {h \in SbHosts : sbMatches(h, kvs)})
                         ELSE p.subsets[kvs]]
        before == sbActive(p.subsets)
        after == sbActive(subsets)
    IN  [p EXCEPT !.subsets = subsets,
                  !.active = @ + Cardinality(after \ before) - Cardinality(before \ after),
                  !.fallback = IF @.initialized
                                 THEN sbHostSubset(p, @, changed, {h \in SbHosts : sbInFallback(p.policy, h)})
                                 ELSE @]

----------------------------------------------------------------------------
\* A membership update of the worker's host set.
SbUpdate(added, removed) ==
    /\ added \cap sb.members = {} /\ removed \subseteq sb.members /\ added \cup removed # {}
    /\ Cardinality((sb.members \cup added) \ removed) <= SbMaxMembers
    /\ sb' = sbUpdate([sb EXCEPT !.members = (@ \cup added) \ removed,
                                 !.failed = @ \ removed], added, removed)

\* A host fails or passes its health check: ClusterImplBase::reloadHealthyHosts()
\* updates the host set with no host added and none removed.
SbHealth(h) ==
    /\ h \in sb.members
    /\ sb' = sbUpdate([sb EXCEPT !.failed = IF h \in @ THEN @ \ {h} ELSE @ \cup {h}], {}, {})

\* chooseHost(): findSubset() and tryChooseHostFromContext(), then the fallback.
sbCandidates(p, kvs) ==
    IF kvs \in SbSubsets /\ p.subsets[kvs].initialized /\ p.subsets[kvs].hosts # {} THEN p.subsets[kvs]
    ELSE p.fallback

SbNext ==
    \/ \E added \in kSubset(1, SbHosts) \cup {{}}, removed \in SUBSET sb.members : SbUpdate(added, removed)
    \/ \E h \in SbHosts : SbHealth(h)

SbSpec == SbInit /\ [][SbNext]_sb

----------------------------------------------------------------------------
(***************************************************************************)
(* Properties.                                                             *)
(***************************************************************************)

\* However hosts come and go, a subset that has hosts is found for a request
\* exactly when some member has the values it asks for, it holds those members
\* and no other; the fallback holds what its policy says; the gauge counts the
\* subsets with hosts.
SbSound ==
    /\ \A kvs \in SbSubsets : sb.subsets[kvs].hosts = {h \in sb.members : sbMatches(h, kvs)}
    /\ \A kvs \in SbSubsets :
          (\E h \in sb.members : sbMatches(h, kvs)) =>
              \A h \in sbCandidates(sb, kvs).hosts : sbMatches(h, kvs)
    /\ sb.fallback.hosts = IF sb.policy = "NO_FALLBACK" THEN {}
                           ELSE {h \in sb.members : sbInFallback(sb.policy, h)}
    /\ sb.active = Cardinality(sbActive(sb.subsets))

\* "If we get a health check completion that resulted in a state change, signal
\* to update the host sets on all threads" (upstream_impl.cc): a host that failed
\* its check is not among the healthy hosts of its subsets.
SbHealthFresh == \A kvs \in SbSubsets : sb.subsets[kvs].healthy \cap sb.failed = {}
=============================================================================
