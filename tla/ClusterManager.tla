------------------------------ MODULE ClusterManager ------------------------
(***************************************************************************)
(* The cluster manager in two parts: bringing clusters up on the main      *)
(* thread (Ci), then the workers' copies of them (Tc).                     *)
(***************************************************************************)

(***************************************************************************)
(* How the cluster manager brings its clusters up (ClusterManagerInitHelper *)
(* in common/upstream/cluster_manager_impl.cc, common/upstream/            *)
(* cds_api_impl.cc): static clusters that need no other cluster first,     *)
(* then those that do, then CDS and what it adds, in the same two phases;  *)
(* then the server is told, and starts its workers.  CDS may update and    *)
(* remove clusters at any time, those still being initialized too.         *)
(***************************************************************************)
EXTENDS Integers, SequencesExt, FiniteSets, Sequences

CONSTANTS CiClusters,   \* names
          CiMaxUpdates  \* bound: CDS answers

ASSUME CiClustersFinite == IsFiniteSet(CiClusters)

VARIABLE ci

\* A cluster is initialized in one of two phases, and is done either before
\* initialize() and setInitializedCb() return (static hosts, a resolved name, an
\* EDS file) or later.
CiKinds == [phase : {"Primary", "Secondary"}, now : BOOLEAN]

CiNone == [kind |-> CHOOSE k \in CiKinds : TRUE, api |-> FALSE, hash |-> 0, stage |-> "absent"]

CiInit ==
    ci = [state |-> "Loading", cds |-> FALSE,
          cluster |-> [c \in CiClusters |-> CiNone],  \* primary_clusters_
          waiting |-> {},      \* primary_init_clusters_ and secondary_init_clusters_
          started |-> FALSE,   \* started_secondary_initialize_
          told |-> 0,          \* calls of initialized_callback_
          updates |-> 0]

ciWaiting(p, phase) == {c \in p.waiting : p.cluster[c].kind.phase = phase}

ciStage(p, S, stage) == [p EXCEPT !.cluster = [c \in CiClusters |-> IF c \in S THEN [@[c] EXCEPT !.stage = stage] ELSE @[c]]]

\* The end of maybeFinishInitialize(): no cluster is waited for.
ciPhaseDone(p) ==
    IF p.state = "WaitingForStaticInitialize" /\ p.cds
      THEN [p EXCEPT !.started = FALSE, !.state = "WaitingForCdsInitialize"]
      ELSE [p EXCEPT !.started = FALSE, !.state = "AllClustersInitialized", !.told = @ + 1]

\* initialize() of every secondary cluster: those that are done at once leave
\* the list, and the last to leave it ends the phase.
ciStartSecondary(p) ==
    LET secondary == ciWaiting(p, "Secondary")
        now == {c \in secondary : p.cluster[c].kind.now}
        q == ciStage(ciStage([p EXCEPT !.started = TRUE, !.waiting = @ \ now], secondary \ now, "running"),
                     now, "done")
    IN  IF now = secondary THEN ciPhaseDone(q) ELSE q

ciMaybeFinish(p) ==
    IF p.state \in {"Loading", "WaitingForCdsInitialize"} \/ ciWaiting(p, "Primary") # {} THEN p
    ELSE IF p.waiting = {} THEN ciPhaseDone(p)
    ELSE IF p.started THEN p ELSE ciStartSecondary(p)

ciRemoveCluster(p, c) ==
    IF p.state = "AllClustersInitialized" THEN p
    ELSE ciMaybeFinish([p EXCEPT !.waiting = @ \ {c}])

\* addCluster(): initialize(), then setInitializedCb().  A secondary cluster
\* that is initialized before its callback is set has nobody to tell.
ciAddCluster(p, c, kind) ==
    LET q == [p EXCEPT !.waiting = @ \cup {c}]
    IN  IF p.state = "AllClustersInitialized" THEN ciStage(p, {c}, IF kind.now THEN "done" ELSE "running")
        ELSE CASE kind.phase = "Primary" /\ kind.now -> ciRemoveCluster(ciStage(q, {c}, "done"), c)
               [] kind.phase = "Primary" /\ ~kind.now -> ciStage(q, {c}, "running")
               [] kind.phase = "Secondary" /\ ~p.started -> ciStage(q, {c}, "idle")
               [] OTHER -> ciStage(q, {c}, IF kind.now THEN "unheard" ELSE "running")

\* loadCluster()
ciLoadCluster(p, c, kind, hash, api) ==
    ciAddCluster([p EXCEPT !.cluster[c] = [kind |-> kind, api |-> api, hash |-> hash, stage |-> "absent"]],
                 c, kind)

\* addOrUpdatePrimaryCluster(): hash 0 stands for a cluster that was not named.
ciAddOrUpdate(p, c, kind, hash) ==
    LET old == p.cluster[c]
        exists == old.stage # "absent"
    IN  CASE exists /\ (~old.api \/ old.hash = hash) -> p
          [] exists /\ old.api /\ old.hash # hash -> ciLoadCluster(ciRemoveCluster(p, c), c, kind, hash, TRUE)
          [] OTHER -> ciLoadCluster(p, c, kind, hash, TRUE)

\* loadCluster() is reached: the cluster is new, or it came by CDS and changed.
ciLoads(p, c, hash) == p.cluster[c].stage = "absent" \/ (p.cluster[c].api /\ p.cluster[c].hash # hash)

\* addOrUpdatePrimaryCluster() when loadCluster() throws: the old cluster stays,
\* but the init helper has let it go.  It is set adrift, its callback still to
\* come, or forgotten, and then nobody calls its initialize().
ciFailedLoad(p, c) ==
    LET old == p.cluster[c].stage
        aside == CASE old = "running" -> "adrift" [] old = "idle" -> "forgotten" [] old = "unheard" -> "done"
                   [] OTHER -> old
    IN  IF old = "absent" \/ p.state = "AllClustersInitialized" THEN p
        ELSE ciStage(ciRemoveCluster(p, c), {c}, aside)

\* Mutant: a cluster removed before it is done stays in the list.
ciRemovePrimaryListed(p, c) == IF p.cluster[c].api THEN [p EXCEPT !.cluster[c] = CiNone] ELSE p

\* removePrimaryCluster()
ciRemovePrimary(p, c) ==
    IF p.cluster[c].api THEN [ciRemoveCluster(p, c) EXCEPT !.cluster[c] = CiNone] ELSE p

\* The callback that setCds() gives CDS, run once by runInitializeCallbackIfAny().
ciCdsInitialized(p) ==
    IF p.state = "WaitingForCdsInitialize" THEN ciMaybeFinish([p EXCEPT !.state = "CdsInitialized"]) ELSE p

----------------------------------------------------------------------------
\* The constructor: static clusters one by one, then setCds() and
\* onStaticLoadComplete().
CiLoadStatic(c, kind) ==
    /\ ci.state = "Loading" /\ ci.cluster[c].stage = "absent"
    /\ ci' = ciLoadCluster(ci, c, kind, 1, FALSE)

CiStaticLoaded(cds) ==
    /\ ci.state = "Loading"
    /\ ci' = ciMaybeFinish([ci EXCEPT !.cds = cds, !.state = "WaitingForStaticInitialize"])

CiSubscribed == ci.cds /\ ci.state \notin {"Loading", "WaitingForStaticInitialize"}

\* The loops of CdsApiImpl::onConfigUpdate(), over clusters in some order: those named
\* are added or updated, then the others that came by CDS are removed.
ciAddNamed(p, order, named, kind, hash) ==
    LET after[i \in 0..Len(order)] ==
            IF i = 0 THEN p
            ELSE IF order[i] \in named THEN ciAddOrUpdate(after[i - 1], order[i], kind, hash) ELSE after[i - 1]
    IN  after[Len(order)]

ciRemoveOthers(p, order, named) ==
    LET after[i \in 0..Len(order)] ==
            IF i = 0 THEN p ELSE IF order[i] \in named THEN after[i - 1] ELSE ciRemovePrimary(after[i - 1], order[i])
    IN  after[Len(order)]

CiCdsUpdate(order, named, kind, hash) ==
    /\ CiSubscribed /\ ci.updates < CiMaxUpdates
    /\ LET removed == ciRemoveOthers(ciAddNamed(ci, order, named, kind, hash), order, named)
       IN  ci' = [ciCdsInitialized(removed) EXCEPT !.updates = @ + 1]

\* The subscription catches what loadCluster() throws for the cluster bad, after
\* those named before it in the answer, and calls onConfigUpdateFailed(); the
\* rest of both loops is not run.
CiCdsRejected(order, before, kind, hash, bad) ==
    /\ CiSubscribed /\ ci.updates < CiMaxUpdates
    /\ LET p == ciAddNamed(ci, order, before, kind, hash)
       IN  /\ ciLoads(p, bad, hash)
           /\ ci' = [ciCdsInitialized(ciFailedLoad(p, bad)) EXCEPT !.updates = @ + 1]

\* CdsApiImpl::onConfigUpdateFailed()
CiCdsFailed ==
    /\ CiSubscribed /\ ci.state = "WaitingForCdsInitialize"
    /\ ci' = ciCdsInitialized(ci)

\* A cluster is done: its initialized callback, if it was given one.
CiInitialized(c) ==
    /\ ci.state # "Loading" /\ ci.cluster[c].stage \in {"running", "adrift"}
    /\ ci' = LET p == ciStage(ci, {c}, "done")
             IN  IF c \in ci.waiting \/ ci.cluster[c].stage = "adrift" THEN ciRemoveCluster(p, c) ELSE p

CiNext ==
    \/ \E cds \in BOOLEAN : CiStaticLoaded(cds)
    \/ CiCdsFailed
    \/ \E c \in CiClusters : CiInitialized(c) \/ \E kind \in CiKinds : CiLoadStatic(c, kind)
    \/ \E order \in SetToSeqs(CiClusters), named \in SUBSET CiClusters, kind \in CiKinds, hash \in 1..2 :
          CiCdsUpdate(order, named, kind, hash)
    \/ \E before \in SUBSET CiClusters : \E order \in SetToSeqs(before), bad \in CiClusters \ before,
                                           kind \in CiKinds, hash \in 1..2 :
          CiCdsRejected(order, before, kind, hash, bad)

\* The constructor runs to its end, CDS answers or fails, clusters get done.
CiSpec ==
    /\ CiInit /\ [][CiNext]_ci /\ WF_ci(\E cds \in BOOLEAN : CiStaticLoaded(cds)) /\ WF_ci(CiCdsFailed)
    /\ \A c \in CiClusters : WF_ci(CiInitialized(c))

----------------------------------------------------------------------------
(***************************************************************************)
(* Properties.                                                             *)
(***************************************************************************)

\* Whatever CDS adds, replaces, removes or fails to load meanwhile, the server
\* is told once, in the end, and never while a cluster it loaded before is still
\* being initialized, unless that cluster's replacement could not be loaded:
\* until then the lists hold exactly the other clusters that are not done, and
\* no pointer to a cluster that was removed.  A cluster that depends on others
\* is not initialized before the primary ones of its phase are.
CiSound ==
    /\ ci.told = IF ci.state = "AllClustersInitialized" THEN 1 ELSE 0
    /\ ci.waiting = IF ci.told = 1 THEN {}
                    ELSE {c \in CiClusters : ci.cluster[c].stage \notin {"absent", "done", "adrift", "forgotten"}}
    /\ ci.state # "AllClustersInitialized" /\ ~ci.started =>
          \A c \in ciWaiting(ci, "Secondary") : ci.cluster[c].stage = "idle"

\* The server starts in the end, unless it waits for a cluster that was done
\* before addCluster() gave it its callback.
CiStarts == <>(ci.state = "AllClustersInitialized" \/ \E c \in CiClusters : ci.cluster[c].stage = "unheard")

\* "In this case, just immediately initialize" (addCluster()): a cluster that is
\* added during secondary initialization, too, is heard when it is done.
CiHeard == \A c \in ci.waiting : ci.cluster[c].stage # "unheard"

\* ASSERT(state_ != State::AllClustersInitialized) in the initialized callback
\* that addCluster() sets: no cluster calls it after the server was told.  False
\* where the replacement of a cluster that is being initialized cannot be loaded.
CiCallbackInTime ==
    ci.state = "AllClustersInitialized" => \A c \in CiClusters : ci.cluster[c].stage # "adrift"

-----------------------------------------------------------------------------
(***************************************************************************)
(* A cluster as a worker sees it (common/upstream/cluster_manager_impl.cc, *)
(* original_dst_cluster.cc): the main thread owns the cluster and posts    *)
(* what becomes of it; the worker keeps a copy of its hosts and connection *)
(* pools for them, and drains the pools of hosts and clusters that are     *)
(* gone.  With original destination clusters hosts come the other way: the *)
(* worker makes them up, and tells the main thread.                        *)
(***************************************************************************)

CONSTANTS TcHosts,      \* host objects, each of which exists at most once
          TcMaxPosts,   \* bound: closures in the worker's queue
          TcMaxGen      \* bound: incarnations of the cluster

VARIABLE tc

TcPriorities == {"Default", "High"}

\* gen is the incarnation, 0 when there is none: an update replaces the cluster.
TcNoCluster == [gen |-> 0, hosts |-> {}]

\* ClusterEntry; for original destination clusters, the load balancer's
\* host_map_ and the incarnation it refers to by a weak pointer.
TcNoEntry == [gen |-> 0, hosts |-> {}, map |-> {}, parent |-> 0]

TcInit ==
    \E original \in BOOLEAN :
    tc = [original |-> original,
          main |-> TcNoCluster, gens |-> 0,
          fresh |-> TcHosts,                  \* hosts nobody has created yet
          used |-> {},                        \* Host::used()
          queue |-> <<>>,                     \* the worker's dispatcher
          posts |-> {},                       \* the main thread's: hosts to add
          entry |-> TcNoEntry,                \* thread_local_clusters_
          pools |-> [h \in TcHosts |-> {}],   \* host_http_conn_pool_map_
          streams |-> [h \in TcHosts |-> {}], \* pools with requests or connections in use
          drains |-> [h \in TcHosts |-> 0],   \* drains_remaining_
          crashed |-> FALSE]

\* postThreadLocalClusterUpdate(): a copy of the hosts, and what changed.
tcPostMembers(p, added, removed) ==
    [p EXCEPT !.queue = Append(@, [kind |-> "members", gen |-> p.main.gen, hosts |-> p.main.hosts,
                                   added |-> added, removed |-> removed])]

tcPostCluster(p, kind) ==
    [p EXCEPT !.queue = Append(@, [kind |-> kind, gen |-> p.main.gen, hosts |-> {},
                                   added |-> {}, removed |-> {}])]

----------------------------------------------------------------------------
(***************************************************************************)
(* The main thread.                                                        *)
(***************************************************************************)
TcMayPost == ~tc.crashed /\ Len(tc.queue) < TcMaxPosts

\* addOrUpdatePrimaryCluster(), with hosts that a static or resolved cluster has
\* from the start: postInitializeCluster().
TcAddOrUpdate(hosts) ==
    /\ TcMayPost /\ tc.gens < TcMaxGen /\ hosts \subseteq tc.fresh /\ (tc.original => hosts = {})
    /\ LET p == tcPostCluster([tc EXCEPT !.main = [gen |-> tc.gens + 1, hosts |-> hosts],
                                         !.gens = @ + 1, !.fresh = @ \ hosts], "add")
       IN  tc' = IF hosts = {} THEN p ELSE tcPostMembers(p, hosts, {})

\* removePrimaryCluster()
TcRemove ==
    /\ TcMayPost /\ tc.main.gen # 0
    /\ tc' = tcPostCluster([tc EXCEPT !.main = TcNoCluster], "remove")

\* The cluster's member update callback (loadCluster()).
TcUpdateHosts(added, removed) ==
    /\ TcMayPost /\ tc.main.gen # 0 /\ ~tc.original /\ added \cup removed # {}
    /\ added \subseteq tc.fresh /\ removed \subseteq tc.main.hosts
    /\ tc' = tcPostMembers([tc EXCEPT !.main.hosts = (@ \cup added) \ removed, !.fresh = @ \ added],
                           added, removed)

\* OriginalDstCluster::addHost(), posted by this worker or another.
tcAddHost(p, h) == tcPostMembers([p EXCEPT !.main.hosts = @ \cup {h}], {h}, {})

TcAddHostOfWorker(h, gen) ==
    /\ TcMayPost /\ <<h, gen>> \in tc.posts
    /\ LET p == [tc EXCEPT !.posts = @ \ {<<h, gen>>}]
       IN  tc' = IF tc.main.gen = gen THEN tcAddHost(p, h) ELSE p

TcAddHostOfOther(h) ==
    /\ TcMayPost /\ tc.original /\ tc.main.gen # 0 /\ h \in tc.fresh
    /\ tc' = tcAddHost([tc EXCEPT !.fresh = @ \ {h}, !.used = @ \cup {h}], h)

\* OriginalDstCluster::cleanup(): hosts that were not used since the last one.
TcCleanup ==
    /\ TcMayPost /\ tc.original /\ tc.main.hosts # {}
    /\ LET stale == tc.main.hosts \ tc.used
           p == [tc EXCEPT !.used = @ \ tc.main.hosts, !.main.hosts = @ \ stale]
       IN  tc' = IF stale = {} THEN p ELSE tcPostMembers(p, {}, stale)

----------------------------------------------------------------------------
(***************************************************************************)
(* The worker.                                                             *)
(***************************************************************************)

\* Mutant: the pools are counted as their callbacks are added, so that an idle
\* one that drains at once deletes the others with it.
tcDrainOneLoop(p, H) ==
    [p EXCEPT !.pools = [h \in TcHosts |-> IF h \in H /\ @[h] # p.streams[h] THEN {} ELSE @[h]],
              !.drains = [h \in TcHosts |-> IF h \in H /\ p.pools[h] = p.streams[h]
                                            THEN Cardinality(p.streams[h]) ELSE @[h]]]

\* drainConnPools(): a pool without streams is drained at once; the pools of a
\* host are deleted when the last of them is.
tcDrain(p, H) ==
    LET drains == [h \in H |-> p.drains[h] + Cardinality(p.streams[h])]
    IN  [p EXCEPT !.drains = [h \in TcHosts |-> IF h \in H THEN drains[h] ELSE @[h]],
                  !.pools = [h \in TcHosts |-> IF h \in H /\ drains[h] = 0 THEN {} ELSE @[h]]]

\* ~ClusterEntry(): the hosts of the host set.
tcDropEntry(p) == [tcDrain(p, p.entry.hosts) EXCEPT !.entry = TcNoEntry]

\* The closure of addOrUpdatePrimaryCluster().  The load balancer of an original
\* destination cluster looks the cluster up in the main thread's map, whose
\* at() throws when it is not there any more.
tcOnAdd(p, msg) ==
    IF p.original /\ p.main.gen = 0 THEN [p EXCEPT !.crashed = TRUE]
    ELSE [tcDropEntry(p) EXCEPT !.entry = [gen |-> msg.gen, hosts |-> {}, map |-> {},
                                           parent |-> p.main.gen]]

\* The closure of removePrimaryCluster().
tcOnRemove(p, msg) == tcDropEntry(p)

\* updateClusterMembership(): the load balancer's callback, then the one that
\* drains pools.
tcOnMembers(p, msg) ==
    tcDrain([p EXCEPT !.entry = [gen |-> p.entry.gen, hosts |-> msg.hosts, parent |-> p.entry.parent,
                                 map |-> (p.entry.map \ msg.removed) \cup msg.added]],
            msg.removed)

TcHandle ==
    /\ ~tc.crashed /\ tc.queue # <<>>
    /\ LET msg == Head(tc.queue)
           p == [tc EXCEPT !.queue = Tail(@)]
       IN  tc' = CASE msg.kind = "add" -> tcOnAdd(p, msg)
                   [] msg.kind = "remove" -> tcOnRemove(p, msg)
                   [] msg.kind = "members" -> tcOnMembers(p, msg)

\* connPool(): the pool of the host the load balancer chose, created on demand.
tcUsePool(p, h, priority) ==
    [p EXCEPT !.pools[h] = @ \cup {priority}, !.streams[h] = @ \cup {priority}]

TcRequest(h, priority) ==
    /\ ~tc.crashed /\ tc.entry.gen # 0 /\ priority \notin tc.streams[h]
    /\ h \in IF tc.original THEN tc.entry.map ELSE tc.entry.hosts
    /\ tc' = tcUsePool([tc EXCEPT !.used = IF tc.original THEN @ \cup {h} ELSE @], h, priority)

\* OriginalDstCluster::LoadBalancer::chooseHost() for an address it does not
\* know.
TcRequestNewHost(h, priority) ==
    /\ ~tc.crashed /\ tc.original /\ tc.entry.gen # 0 /\ h \in tc.fresh
    /\ tc' = tcUsePool([tc EXCEPT !.fresh = @ \ {h}, !.used = @ \cup {h}, !.entry.map = @ \cup {h},
                                  !.posts = IF tc.entry.parent = tc.main.gen THEN @ \cup {<<h, tc.main.gen>>}
                                            ELSE @], h, priority)

\* The last stream of a pool ends; the drained callback, if the pool drains.
TcIdle(h, priority) ==
    /\ ~tc.crashed /\ priority \in tc.streams[h]
    /\ LET left == tc.drains[h] - 1
           p == [tc EXCEPT !.streams[h] = @ \ {priority}]
       IN  tc' = IF tc.drains[h] = 0 THEN p
                 ELSE [p EXCEPT !.drains[h] = left, !.pools[h] = IF left = 0 THEN {} ELSE @]

TcNext ==
    \/ \E hosts \in SUBSET TcHosts : TcAddOrUpdate(hosts)
    \/ \E added, removed \in SUBSET TcHosts : TcUpdateHosts(added, removed)
    \/ TcRemove \/ TcCleanup \/ TcHandle
    \/ \E h \in TcHosts :
          \/ TcAddHostOfOther(h)
          \/ \E gen \in 1..TcMaxGen : TcAddHostOfWorker(h, gen)
          \/ \E priority \in TcPriorities :
                TcRequest(h, priority) \/ TcRequestNewHost(h, priority) \/ TcIdle(h, priority)

\* The worker's dispatcher runs what is posted; streams end, or time out.
TcSpec ==
    /\ TcInit /\ [][TcNext]_tc /\ WF_tc(TcHandle)
    /\ \A h \in TcHosts, priority \in TcPriorities : WF_tc(TcIdle(h, priority))

----------------------------------------------------------------------------
(***************************************************************************)
(* Properties.                                                             *)
(***************************************************************************)

\* What a closure makes of the worker's entry; gen is -1 if it finds none, which
\* updateClusterMembership() and the removal assert there is.
tcReplay(e, msg) ==
    CASE msg.kind = "add" -> [gen |-> msg.gen, hosts |-> {}]
      [] msg.kind = "remove" /\ e.gen # 0 -> TcNoCluster
      [] msg.kind = "members" /\ e.gen # 0 /\ e.gen = msg.gen -> [e EXCEPT !.hosts = msg.hosts]
      [] OTHER -> [e EXCEPT !.gen = -1]

\* What the worker will have once it has run what is posted.
TcReplayed ==
    LET worker[i \in 0..Len(tc.queue)] ==
            IF i = 0 THEN [gen |-> tc.entry.gen, hosts |-> tc.entry.hosts]
            ELSE tcReplay(worker[i - 1], tc.queue[i])
    IN  worker[Len(tc.queue)]

\* However updates of the cluster, of its hosts and requests interleave: what
\* is posted always brings the worker to what the main thread has, and never
\* meets an entry that is not there, nor one of another incarnation; a pool is
\* not deleted while it has streams, and a host's drains_remaining_ counts the
\* pools that still have some; a host that goes is in the map of the original
\* destination load balancer, which erases it without looking.
TcSound ==
    ~tc.crashed =>
        /\ TcReplayed = tc.main
        /\ \A h \in TcHosts :
              /\ tc.streams[h] \subseteq tc.pools[h]
              /\ tc.drains[h] \in {0, Cardinality(tc.streams[h])}
              /\ tc.drains[h] > 0 => h \notin tc.entry.hosts
        /\ tc.entry.hosts \subseteq IF tc.original THEN tc.entry.map ELSE tc.entry.hosts

\* The pools of a host that the worker no longer has are deleted in the end.
TcPoolsGo ==
    \A h \in TcHosts :
        (~tc.original /\ tc.pools[h] # {} /\ h \notin tc.entry.hosts) ~> (tc.pools[h] = {})

\* "The main cluster may have disappeared while this post was queued": the other
\* way round, too, the worker survives that.
TcSurvives == ~tc.crashed
=============================================================================
