---------------------------- MODULE ClusterHosts ---------------------------
(***************************************************************************)
(* The hosts of a cluster on the main thread (common/upstream/             *)
(* upstream_impl.cc, eds.cc, logical_dns_cluster.cc): EDS with or without  *)
(* a health checker, strict DNS with several names, and logical DNS, whose *)
(* single host connects to whatever address its thread heard of last.      *)
(***************************************************************************)
EXTENDS Integers, FiniteSets, Sequences

CONSTANTS ChAddresses,
          ChNames,       \* DNS names of a strict DNS cluster
          ChMaxPosts     \* bound: closures in a worker's queue

ASSUME ChAssumption == IsFiniteSet(ChAddresses)

VARIABLE ch

ChKinds == {"eds", "eds+hc", "strict dns", "logical dns"}

\* A host is an address under the name that resolved to it, two names may have
\* the same.  EDS has one list, under the name "eds".
ChLists(kind) == IF kind = "strict dns" THEN ChNames ELSE {"eds"}

chHosts(p) == UNION {{n} \X p.hosts[n] : n \in DOMAIN p.hosts}

ChInit ==
    \E kind \in ChKinds :
    ch = [kind |-> kind,
          hosts |-> [n \in ChLists(kind) |-> {}],
          failed |-> {},         \* FAILED_ACTIVE_HC
          checked |-> {},        \* history: hosts whose check was completed
          healthy |-> {},        \* healthy_hosts_
          published |-> {},      \* hosts_
          initCb |-> TRUE,       \* initialize_callback_
          pending |-> 0,         \* pending_health_checks_
          blocked |-> FALSE,     \* block_hc_updates_
          asking |-> [n \in ChLists(kind) |-> "query"],
          resolved |-> {},       \* current_resolved_address_
          queue |-> <<>>,        \* a worker's dispatcher
          worker |-> [address |-> {}, host |-> FALSE]]

\* updateHosts(), with createHealthyHostList().
chUpdateHosts(p) == [p EXCEPT !.published = chHosts(p), !.healthy = chHosts(p) \ p.failed]

chRunInit(p) == IF p.initCb /\ p.pending = 0 THEN [p EXCEPT !.initCb = FALSE] ELSE p

\* Mutant: hosts that the update does not name go even if they pass their checks.
chKeptNone(p, n, new, hc) == {}

\* updateDynamicHostList(): with a health checker, hosts that are not named any
\* more stay while they pass their checks.
chKept(p, n, new, hc) == IF hc THEN {a \in p.hosts[n] \ new : <<n, a>> \notin p.failed} ELSE {}

\* ... and new ones start out failed.
chUpdateList(p, n, new, hc) ==
    LET final == new \cup chKept(p, n, new, hc)
        added == new \ p.hosts[n]
        gone == {n} \X (p.hosts[n] \ final)
    IN  [p EXCEPT !.hosts[n] = final, !.checked = @ \ gone,
                  !.failed = (@ \ gone) \cup IF hc THEN {n} \X added ELSE {}]

----------------------------------------------------------------------------
(***************************************************************************)
(* EDS.                                                                    *)
(***************************************************************************)

\* onConfigUpdate(): the first hosts to be checked hold initialization up until
\* as many checks have been completed, and updates of healthy_hosts_ with it.
ChEdsUpdate(new) ==
    /\ ch.kind \in {"eds", "eds+hc"}
    /\ LET p == chUpdateList(ch, "eds", new, ch.kind = "eds+hc")
           changed == p.hosts # ch.hosts
           waits == changed /\ p.initCb /\ p.kind = "eds+hc" /\ p.pending = 0
           q == [p EXCEPT !.pending = IF waits THEN Cardinality(p.hosts["eds"]) ELSE @,
                          !.blocked = @ \/ waits]
       IN  ch' = chRunInit(IF changed THEN chUpdateHosts(q) ELSE q)

\* A response without resources, and onConfigUpdateFailed().
ChEdsNothing ==
    /\ ch.kind \in {"eds", "eds+hc"} /\ ch.initCb
    /\ ch' = chRunInit(ch)

\* A health check is completed: the cluster's callback, then the one that EDS
\* added.  Unblocking reloads the healthy hosts.
ChChecked(a, failed) ==
    LET h == <<"eds", a>>
        changed == failed # (h \in ch.failed)
        left == ch.pending - 1
        p == [ch EXCEPT !.failed = IF failed THEN @ \cup {h} ELSE @ \ {h}, !.checked = @ \cup {h}]
        q == IF changed /\ ~ch.blocked THEN chUpdateHosts(p) ELSE p
    IN  /\ ch.kind = "eds+hc" /\ a \in ch.hosts["eds"]
        /\ ch' = IF ch.pending = 0 THEN q
                 ELSE IF left > 0 THEN [q EXCEPT !.pending = left]
                 ELSE [chUpdateHosts(q) EXCEPT !.pending = 0, !.blocked = FALSE, !.initCb = FALSE]

----------------------------------------------------------------------------
(***************************************************************************)
(* DNS.                                                                    *)
(***************************************************************************)
chResolved(p, n) == [chRunInit(p) EXCEPT !.asking[n] = "timer"]

\* startResolve() again.
ChResolveTimer(n) ==
    /\ ch.asking[n] = "timer"
    /\ ch' = [ch EXCEPT !.asking[n] = "query"]

\* StrictDnsClusterImpl::ResolveTarget: updateAllHosts() if the name's changed.
ChStrictResolved(n, new) ==
    /\ ch.kind = "strict dns" /\ ch.asking[n] = "query"
    /\ LET p == chUpdateList(ch, n, new, FALSE)
       IN  ch' = chResolved(IF p.hosts # ch.hosts THEN chUpdateHosts(p) ELSE p, n)

\* What LogicalDnsCluster posts to the workers: an address if it is a new one, and
\* the logical host once.
chPostAddress(p, a, queue) == IF p.resolved # {a} THEN Append(queue, [what |-> "address", address |-> a]) ELSE queue
chPostHost(p, a, queue) == IF p.published = {} THEN Append(queue, [what |-> "host", address |-> a]) ELSE queue

\* Mutant: the host is published before its address.
chLogicalPostsHostFirst(p, a) == chPostAddress(p, a, chPostHost(p, a, p.queue))

chLogicalPosts(p, a) == chPostHost(p, a, chPostAddress(p, a, p.queue))

\* LogicalDnsCluster::startResolve(): the first address of the answer, if any.
chLogicalHost(p, a) ==
    chUpdateHosts([p EXCEPT !.resolved = {a}, !.hosts["eds"] = {"logical"}, !.queue = chLogicalPosts(p, a)])

ChLogicalResolved(addresses) ==
    /\ ch.kind = "logical dns" /\ ch.asking["eds"] = "query" /\ Len(ch.queue) < ChMaxPosts
    /\ \/ addresses = {} /\ ch' = chResolved(ch, "eds")
       \/ \E a \in addresses : ch' = chResolved(chLogicalHost(ch, a), "eds")

\* The worker runs what is posted.
ChWorker ==
    /\ ch.queue # <<>>
    /\ LET m == Head(ch.queue)
       IN  ch' = [ch EXCEPT !.queue = Tail(@),
                            !.worker = IF m.what = "host" THEN [@ EXCEPT !.host = TRUE]
                                       ELSE [@ EXCEPT !.address = {m.address}]]

ChDnsAnswer(n) ==
    \E new \in SUBSET ChAddresses :
        ChStrictResolved(n, new) \/ (n = "eds" /\ ChLogicalResolved(new))

ChNext ==
    \/ \E new \in SUBSET ChAddresses : ChEdsUpdate(new)
    \/ ChEdsNothing \/ ChWorker
    \/ \E a \in ChAddresses, failed \in BOOLEAN : ChChecked(a, failed)
    \/ \E n \in DOMAIN ch.asking : ch.kind \in {"strict dns", "logical dns"} /\ (ChResolveTimer(n) \/ ChDnsAnswer(n))

\* Every host is checked again and again, resolvers answer, timers fire.
ChSpec ==
    /\ ChInit /\ [][ChNext]_ch /\ WF_ch(ChWorker)
    /\ \A a \in ChAddresses : WF_ch(\E failed \in BOOLEAN : ChChecked(a, failed))

----------------------------------------------------------------------------
(***************************************************************************)
(* Properties.                                                             *)
(***************************************************************************)

\* The hosts that are published are those of all lists, and the healthy ones
\* among them are right whenever updates are not blocked; updates are blocked
\* exactly while checks hold up initialization, and never after.  A worker that
\* has the logical host has an address to connect to, which it dereferences.
ChSound ==
    /\ ch.published = chHosts(ch)
    /\ ~ch.blocked => ch.healthy = chHosts(ch) \ ch.failed
    /\ ch.blocked <=> ch.pending > 0
    /\ ch.pending > 0 => ch.initCb
    /\ ch.worker.host => ch.worker.address # {}

\* An update of EDS never takes away a host that passes its health checks.
ChKeepsHealthy ==
    [][ch.kind = "eds+hc" => chHosts(ch) \ chHosts(ch)' \subseteq ch.failed]_ch

\* Initialization that waits for health checks ends if some host stays.
ChInitializes ==
    \A a \in ChAddresses :
        <>[](ch.kind = "eds+hc" /\ a \in ch.hosts["eds"]) => <>[](~ch.initCb)

\* "When HC responses for all hosts have arrived and we are about to
\* initialize" (EdsClusterImpl::onConfigUpdate()).
ChAllChecked == [][ch.initCb /\ ~ch.initCb' /\ ch.pending > 0 => chHosts(ch)' = ch.checked']_ch
=============================================================================
