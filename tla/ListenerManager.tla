--------------------------- MODULE ListenerManager -------------------------
(***************************************************************************)
(* Listeners (server/listener_manager_impl.cc, lds_api.cc, worker_impl.cc, *)
(* connection_handler_impl.cc, drain_manager_impl.cc): they warm, become   *)
(* active, are replaced or removed, drain and are destroyed, while the     *)
(* workers are told by posted closures and answer by posts to the main     *)
(* thread.  An LDS update is reconciled with the listeners that are known. *)
(***************************************************************************)
EXTENDS Integers, Sequences, SequencesExt, FiniteSets

CONSTANTS LmNames,
          LmWorkers,
          LmDrainTime,    \* --drain-time-s, in ticks
          LmMaxListeners  \* bound: listener objects

\* drainSequenceTick() asserts that there is time to drain.
ASSUME LmAssumption ==
    IsFiniteSet(LmNames) /\ IsFiniteSet(LmWorkers) /\ LmDrainTime \in Nat \ {0} /\ LmMaxListeners \in Nat

VARIABLE lm

LmTags == 1..LmMaxListeners

\* What an update says of a name: nothing, the configuration of its active or
\* of its warming listener, one that is new, or one with another address.  All
\* listeners that are created have one address.
LmSays == {"absent", "active", "warming", "new", "moved"}

LmInit ==
    lm = [started |-> FALSE,                        \* workers_started_
          next |-> 1,                               \* next_listener_tag_
          active |-> {}, warming |-> {}, draining |-> {},
          name |-> [l \in LmTags |-> ""],
          socket |-> [l \in LmTags |-> 0],          \* the listener that made it
          waits |-> {},                             \* init targets not ready
          by |-> [l \in LmTags |-> 0],              \* the listener that replaced it
          ticks |-> [l \in LmTags |-> 0],           \* drain_time_completed_
          left |-> [l \in LmTags |-> 0],            \* workers_pending_removal_
          failed |-> {},                            \* saw_listener_create_failure_
          queue |-> [w \in LmWorkers |-> <<>>],     \* posts to a worker
          main |-> <<>>,                            \* and to the main thread
          on |-> [w \in LmWorkers |-> [l \in LmTags |-> "none"]],
          threw |-> FALSE]

\* getListenerByName()
lmNamed(p, list, name) == {l \in list : p.name[l] = name}

lmPost(p, op, l) == [p EXCEPT !.queue = [w \in LmWorkers |-> Append(@[w], [op |-> op, l |-> l])]]

\* drainSequenceTick()
lmTick(p, l) ==
    LET q == [p EXCEPT !.ticks[l] = @ + 1]
    IN  IF q.ticks[l] = LmDrainTime THEN lmPost(q, "remove", l) ELSE q

\* drainListener()
lmDrain(p, l) ==
    lmTick(lmPost([p EXCEPT !.active = @ \ {l}, !.draining = @ \cup {l},
                            !.left[l] = Cardinality(LmWorkers)], "stop", l), l)

lmDrainAll(p, ls) == IF ls = {} THEN p ELSE lmDrain(p, CHOOSE l \in ls : TRUE)

\* Mutant: the old listener is stopped before the new one is added.
lmOnWarmedStopFirst(p, l) ==
    LET old == lmNamed(p, p.active, p.name[l])
        q == lmPost(lmDrainAll(p, old), "add", l)
    IN  [q EXCEPT !.active = @ \cup {l}, !.warming = @ \ {l},
                  !.by = [o \in LmTags |-> IF o \in old THEN l ELSE @[o]]]

\* onListenerWarmed()
lmOnWarmed(p, l) ==
    LET old == lmNamed(p, p.active, p.name[l])
        q == lmDrainAll(lmPost(p, "add", l), old)
    IN  [q EXCEPT !.active = @ \cup {l}, !.warming = @ \ {l},
                  !.by = [o \in LmTags |-> IF o \in old THEN l ELSE @[o]]]

\* A listener that is destroyed leaves nothing.
lmDestroy(p, ls) ==
    LET keep(f, none) == [l \in LmTags |-> IF l \in ls THEN none ELSE f[l]]
    IN  [p EXCEPT !.warming = @ \ ls, !.active = @ \ ls, !.draining = @ \ ls, !.waits = @ \ ls,
                  !.name = keep(@, ""), !.socket = keep(@, 0),
                  !.by = keep(@, 0), !.ticks = keep(@, 0), !.left = keep(@, 0), !.failed = @ \ ls]

\* removeListener(); a warming listener is destroyed, its targets are cancelled.
lmRemove(p, name) ==
    lmDrainAll(lmDestroy(p, lmNamed(p, p.warming, name)), lmNamed(p, p.active, name))

\* The socket of a new listener: that of its predecessor, or of a draining
\* listener on the address, or a new one, which cannot be bound while another
\* listener has the address ({}).
lmSocket(p, name) ==
    LET same == lmNamed(p, p.warming \cup p.active, name)
        from == IF same # {} THEN same ELSE p.draining
    IN  CASE from # {} -> {p.socket[CHOOSE l \in from : TRUE]}
          [] from = {} /\ p.active \cup p.warming = {} -> {p.next}
          [] OTHER -> {}

\* addOrUpdateListener(): the new listener replaces a warming one, warms beside
\* an active one, or, before workers start, replaces that.  slow: it has an init
\* target (RDS), otherwise it is warm at once.
lmAddOrUpdate(p, name, says, slow) ==
    LET l == p.next
        socket == lmSocket(p, name)
        old == lmNamed(p, IF p.started THEN p.warming ELSE p.active, name)
        q == [lmDestroy(p, old) EXCEPT
                 !.next = @ + 1, !.name[l] = name, !.socket[l] = CHOOSE s \in socket : TRUE,
                 !.warming = IF p.started THEN @ \cup {l} ELSE @,
                 !.active = IF p.started THEN @ ELSE @ \cup {l},
                 !.waits = IF slow THEN @ \cup {l} ELSE @]
    IN  CASE says \in {"active", "warming"} -> p
          [] says = "moved" \/ (says = "new" /\ socket = {}) -> [p EXCEPT !.threw = TRUE]
          [] OTHER -> IF p.started /\ ~slow THEN lmOnWarmed(q, l) ELSE q

----------------------------------------------------------------------------
\* The loops of LdsApi::onConfigUpdate(), over names in some order: the listeners of
\* the update are added or updated, then those it does not hold are removed; an
\* exception ends it.
lmAddListed(p, order, update, slow) ==
    LET after[i \in 0..Len(order)] ==
            IF i = 0 THEN p
            ELSE IF after[i - 1].threw \/ update[order[i]] = "absent" THEN after[i - 1]
                 ELSE lmAddOrUpdate(after[i - 1], order[i], update[order[i]], slow)
    IN  after[Len(order)]

lmRemoveOthers(p, order, update, known) ==
    LET after[i \in 0..Len(order)] ==
            IF i = 0 THEN p
            ELSE IF after[i - 1].threw \/ update[order[i]] # "absent" \/ order[i] \notin known THEN after[i - 1]
                 ELSE lmRemove(after[i - 1], order[i])
    IN  after[Len(order)]

lmOnConfigUpdate(p, order, update, slow) ==
    lmRemoveOthers(lmAddListed(p, order, update, slow), order, update, {p.name[l] : l \in p.active})

\* The updates that make sense: their words refer to listeners there are.
LmUpdates ==
    {u \in [LmNames -> LmSays] : \A name \in LmNames :
        /\ u[name] = "active" => lmNamed(lm, lm.active, name) # {}
        /\ u[name] = "warming" => lmNamed(lm, lm.warming, name) # {}
        /\ u[name] = "moved" => lmNamed(lm, lm.active \cup lm.warming, name) # {}}

LmLds(order, update, slow) ==
    /\ lm.next + Cardinality({n \in LmNames : update[n] = "new"}) <= LmMaxListeners + 1
    /\ lm' = [lmOnConfigUpdate(lm, order, update, slow) EXCEPT !.threw = FALSE]

\* A target of a listener is ready (InitManagerImpl::initializeTarget()).
LmReady(l) ==
    /\ l \in lm.waits
    /\ LET p == [lm EXCEPT !.waits = @ \ {l}]
       IN  lm' = IF l \in lm.warming THEN lmOnWarmed(p, l) ELSE p

\* startWorkers(), once the server's init manager is initialized: every worker is
\* given the active listeners, in the order of their list.
LmStart(order) ==
    /\ ~lm.started /\ lm.waits = {}
    /\ lm' = [lm EXCEPT !.started = TRUE,
                        !.queue = [w \in LmWorkers |-> @[w] \o [i \in DOMAIN order |-> [op |-> "add", l |-> order[i]]]]]

\* The drain timer of a listener fires.
LmTick(l) ==
    /\ l \in lm.draining /\ lm.ticks[l] < LmDrainTime
    /\ lm' = lmTick(lm, l)

\* ConnectionHandlerImpl::stopListeners() and removeListeners()
lmStopped(p, w, l) == [p EXCEPT !.on[w][l] = IF @ = "listening" THEN "stopped" ELSE @]
lmRemoved(p, w, l) == [p EXCEPT !.on[w][l] = "none"]

lmAnswer(p, w, l, what) == [p EXCEPT !.main = Append(@, [what |-> what, l |-> l, w |-> w])]

\* addListener() on the worker: the listener may fail to listen.  The answer that
\* it listens only counts in the statistics.
lmAdded(p, w, l, ok) ==
    IF ok THEN [p EXCEPT !.on[w][l] = "listening"] ELSE lmAnswer(p, w, l, "failed")

\* A worker runs a closure.
LmWorker(w, ok) ==
    /\ lm.started /\ lm.queue[w] # <<>>
    /\ LET m == Head(lm.queue[w])
           p == [lm EXCEPT !.queue[w] = Tail(@)]
       IN  lm' = CASE m.op = "add" -> lmAdded(p, w, m.l, ok)
                   [] m.op = "stop" -> lmStopped(p, w, m.l)
                   [] m.op = "remove" -> lmAnswer(lmRemoved(p, w, m.l), w, m.l, "removed")

\* The first failure removes the listener, by its name.
lmOnFailed(p, l) ==
    IF l \in p.failed THEN p ELSE lmRemove([p EXCEPT !.failed = @ \cup {l}], p.name[l])

\* Mutant: the count is compared before it is decremented.
lmOnRemovedLast(p, l) ==
    IF p.left[l] = 0 THEN lmDestroy(p, {l}) ELSE [p EXCEPT !.left[l] = @ - 1]

\* The last worker that removed it ends the listener.
lmOnRemoved(p, l) ==
    IF p.left[l] = 1 THEN lmDestroy(p, {l}) ELSE [p EXCEPT !.left[l] = @ - 1]

\* The main thread runs a worker's answer.
LmMain ==
    /\ lm.main # <<>>
    /\ LET m == Head(lm.main)
           p == [lm EXCEPT !.main = Tail(@)]
       IN  lm' = IF m.what = "failed" THEN lmOnFailed(p, m.l) ELSE lmOnRemoved(p, m.l)

LmNext ==
    \/ LmMain
    \/ \E order \in SetToSeqs(lm.active) : LmStart(order)
    \/ \E order \in SetToSeqs(LmNames), update \in LmUpdates, slow \in BOOLEAN : LmLds(order, update, slow)
    \/ \E l \in LmTags : LmReady(l) \/ LmTick(l)
    \/ \E w \in LmWorkers, ok \in BOOLEAN : LmWorker(w, ok)

LmSpec ==
    /\ LmInit /\ [][LmNext]_lm /\ WF_lm(LmMain) /\ WF_lm(\E order \in SetToSeqs(lm.active) : LmStart(order))
    /\ \A w \in LmWorkers : WF_lm(\E ok \in BOOLEAN : LmWorker(w, ok))
    /\ \A l \in LmTags : WF_lm(LmTick(l)) /\ WF_lm(LmReady(l))

----------------------------------------------------------------------------
(***************************************************************************)
(* Properties.                                                             *)
(***************************************************************************)

\* Every listener a closure, a worker's table or a post refers to still exists;
\* a draining listener is destroyed by the last worker's answer; names are
\* unique; a worker that stopped a listener which was replaced has been given
\* the replacement, so that no connection is refused in between; and those on
\* one address use one socket.
LmSound ==
    LET live == lm.active \cup lm.draining
        inQueue(w, op, l) == \E i \in DOMAIN lm.queue[w] : lm.queue[w][i] = [op |-> op, l |-> l]
        answered(w, l) == \E i \in DOMAIN lm.main : lm.main[i] = [what |-> "removed", l |-> l, w |-> w]
    IN  /\ \A w \in LmWorkers, l \in LmTags : lm.on[w][l] \in {"listening", "stopped"} => l \in live
        /\ \A w \in LmWorkers : \A i \in DOMAIN lm.queue[w] : lm.queue[w][i].l \in live
        /\ \A i \in DOMAIN lm.main : lm.main[i].l \in live
        /\ \A l \in lm.draining : lm.ticks[l] = LmDrainTime =>
              lm.left[l] = Cardinality({w \in LmWorkers : inQueue(w, "remove", l) \/ answered(w, l)})
        /\ \A list \in {lm.active, lm.warming} : \A l \in list : lmNamed(lm, list, lm.name[l]) = {l}
        /\ \A w \in LmWorkers, l \in LmTags :
              lm.by[l] # 0 /\ lm.on[w][l] = "stopped" => ~inQueue(w, "add", lm.by[l])
        /\ \A l, o \in live \cup lm.warming :
              lm.socket[l] = lm.socket[o]

\* A listener that drains is destroyed in the end.
LmDrains == \A l \in LmTags : l \in lm.draining ~> l \notin lm.draining

\* The listener a name ends up with, and the one an update means.
LmLast(p, name) ==
    IF lmNamed(p, p.warming, name) # {} THEN lmNamed(p, p.warming, name) ELSE lmNamed(p, p.active, name)

LmMeant(p, name, says) ==
    CASE says = "absent" -> {}
      [] says = "active" -> lmNamed(p, p.active, name)
      [] OTHER -> lmNamed(p, p.warming, name)

\* docs/configuration/listeners/lds.rst:7-8, "Envoy will reconcile the API
\* response and add, modify, or remove known listeners depending on what is
\* required": whatever update comes next, the listener that a name ends up with is
\* the one the update gives.
LmReconciled ==
    \A order \in SetToSeqs(LmNames), update \in {u \in LmUpdates : \A name \in LmNames : u[name] # "new"} :
        LET p == lmOnConfigUpdate(lm, order, update, FALSE)
        IN  ~p.threw => \A name \in LmNames : LmLast(p, name) = LmMeant(lm, name, update[name])
=============================================================================
