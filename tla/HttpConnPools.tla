------------------------------ MODULE HttpConnPools -------------------------
(***************************************************************************)
(* The HTTP connection pools in two parts: HTTP/1.1 (H1), then HTTP/2      *)
(* (H2). Each implements StreamPool.                                       *)
(***************************************************************************)

(***************************************************************************)
(* The HTTP/1.1 connection pool of one upstream host in one worker         *)
(* (common/http/http1/conn_pool.cc) and the codec client under each of its *)
(* connections (common/http/codec_client.cc).                              *)
(*                                                                         *)
(* The worker is single-threaded, and its handlers call each other: the    *)
(* state is one record, each function of the code is an operator from      *)
(* records to records, and an event of the dispatcher is an action.        *)
(***************************************************************************)
EXTENDS Naturals, Sequences, FiniteSets

CONSTANTS H1Streams,         \* requests for a stream
          H1Clients,         \* bound: connections that exist at a time
          H1MaxPending,      \* circuit breakers of the cluster
          H1MaxConnections,
          H1MaxRequests      \* maxRequestsPerConnection(), 0 for no limit

ASSUME H1Assumption ==
    /\ H1MaxPending \in Nat /\ H1MaxConnections \in Nat /\ H1MaxRequests \in Nat
    /\ IsFiniteSet(H1Clients) /\ IsFiniteSet(H1Streams) /\ "none" \notin H1Streams

VARIABLE h1

H1Elements(q) == {q[i] : i \in DOMAIN q}

\* A list without its k-th element, and without the (one) element x.
h1Removed(q, k) == SubSeq(q, 1, k - 1) \o SubSeq(q, k + 1, Len(q))
h1Without(q, x) == h1Removed(q, CHOOSE k \in DOMAIN q : q[k] = x)

H1Init ==
    h1 = [stream |-> [s \in H1Streams |-> "new"],
          pending |-> <<>>,     \* pending_requests_, oldest first
          ready |-> <<>>,       \* ready_clients_, front first
          busy |-> {},          \* busy_clients_
          deleted |-> {},       \* handed to deferredDelete()
          timer |-> {},         \* clients with a connect_timer_
          wrapper |-> [c \in H1Clients |-> "none"],  \* stream_wrapper_
          sent |-> {},          \* clients whose encode_complete_ is set
          remaining |-> [c \in H1Clients |-> 0],
          draining |-> FALSE,   \* drained_callbacks_ is not empty
          drained |-> 0]        \* times they were called

\* Connections count against the circuit breaker until they are destroyed.
h1Alive(p) == H1Elements(p.ready) \cup p.busy \cup p.deleted
h1Unused(p) == H1Clients \ h1Alive(p)

h1CreateNewConnection(p) ==
    LET c == CHOOSE c \in h1Unused(p) : TRUE
    IN  [p EXCEPT !.busy = @ \cup {c}, !.timer = @ \cup {c}, !.remaining[c] = H1MaxRequests]

h1AttachRequestToClient(p, c, s) ==
    [p EXCEPT !.wrapper[c] = s, !.sent = @ \ {c}, !.stream[s] = "active"]

\* Mutant: a pool with streams in flight is taken for drained.
h1CheckForDrainedBusy(p) ==
    IF p.draining /\ p.pending = <<>>
    THEN [p EXCEPT !.deleted = @ \cup H1Elements(p.ready), !.ready = <<>>, !.drained = @ + 1]
    ELSE p

\* Closing a ready client removes it and starts nothing.
h1CheckForDrained(p) ==
    IF p.draining /\ p.pending = <<>> /\ p.busy = {}
    THEN [p EXCEPT !.deleted = @ \cup H1Elements(p.ready), !.ready = <<>>, !.drained = @ + 1]
    ELSE p

\* Mutant: the youngest request is taken.
h1NextPendingYoungest(q) == q[Len(q)]

\* "Pending requests are pushed onto the front, so pull from the back."
h1NextPending(q) == q[1]

h1ProcessIdleClient(p, c) ==
    LET q == [p EXCEPT !.wrapper[c] = "none"]
        s == h1NextPending(q.pending)
    IN  h1CheckForDrained(
            IF q.pending = <<>>
            THEN [q EXCEPT !.busy = @ \ {c}, !.ready = <<c>> \o @]
            ELSE [h1AttachRequestToClient(q, c, s) EXCEPT
                     !.pending = h1Without(@, s)])

\* Mutant: a request that finds no connection at all and a full circuit
\* breaker is queued without one.
h1MayConnectBreakerOnly(p, room) == room /\ Cardinality(h1Alive(p)) < H1MaxConnections

\* "If we have no connections at all, make one no matter what so we don't
\* starve."  The breaker is shared with the pools of other hosts, which may
\* have used it up: room.
h1MayConnect(p, room) ==
    \/ p.ready = <<>> /\ p.busy = {}
    \/ room /\ Cardinality(h1Alive(p)) < H1MaxConnections

h1NewStream(p, s, roomToWait, room) ==
    IF p.ready # <<>>
    THEN h1AttachRequestToClient(
            [p EXCEPT !.ready = Tail(@), !.busy = @ \cup {p.ready[1]}], p.ready[1], s)
    ELSE IF roomToWait /\ Len(p.pending) < H1MaxPending
    THEN LET q == IF h1MayConnect(p, room) THEN h1CreateNewConnection(p) ELSE p
         IN  [q EXCEPT !.pending = Append(@, s), !.stream[s] = "pending"]
    ELSE [p EXCEPT !.stream[s] = "overflow"]

\* A connect failure fails every pending request.  They are moved to a list of
\* their own first: what a callback asks for is not failed inline.
h1Purge(p, again) ==
    LET q == [p EXCEPT !.pending = <<>>,
                       !.stream = [s \in H1Streams |->
                           IF s \in H1Elements(p.pending) THEN "failed" ELSE p.stream[s]]]
    IN  IF again = "none" THEN q ELSE h1NewStream(q, again, TRUE, TRUE)

\* Mutant: a lost connection is replaced when nothing is left at all.
h1ReplaceNeverShort(p) == p

\* "If we have pending requests and we just lost a connection we should make a
\* new one."
h1Replace(p) ==
    IF Len(p.pending) > Len(p.ready) + Cardinality(p.busy) THEN h1CreateNewConnection(p) ELSE p

\* onConnectionEvent() for a close.  The codec client has reset the stream
\* already (to the state given), or the response was complete.
h1OnClose(p, c, to, again) ==
    LET s == p.wrapper[c]
        active == s # "none"
        idle == ~active /\ c \notin p.timer
        q == [p EXCEPT !.stream = IF active THEN [@ EXCEPT ![s] = to] ELSE @,
                       !.wrapper[c] = "none",
                       !.ready = IF idle THEN h1Without(@, c) ELSE @,
                       !.busy = IF idle THEN @ ELSE @ \ {c},
                       !.timer = @ \ {c},
                       !.deleted = @ \cup {c}]
        r == h1Replace(IF active \/ idle THEN q ELSE h1Purge(q, again))
    IN  IF idle THEN r ELSE h1CheckForDrained(r)

\* Mutant: the connect timer is destroyed last.
h1OnConnectedTimerLast(p, c) == [h1ProcessIdleClient(p, c) EXCEPT !.timer = @]

\* "we must destroy the connect timer before we process a connected idle client"
h1OnConnected(p, c) == h1ProcessIdleClient([p EXCEPT !.timer = @ \ {c}], c)

\* remaining_requests_ > 0 && --remaining_requests_ == 0
h1LastRequest(p, c) == p.remaining[c] = 1

h1OnResponseComplete(p, c, sawClose) ==
    LET s == p.wrapper[c]
        q == [p EXCEPT !.stream[s] = "complete",
                       !.remaining[c] = IF @ > 0 /\ c \in p.sent /\ ~sawClose THEN @ - 1 ELSE @]
    IN  IF c \notin p.sent \/ sawClose \/ h1LastRequest(p, c)
        THEN h1OnClose(q, c, "complete", "none")
        ELSE h1ProcessIdleClient(q, c)

----------------------------------------------------------------------------
H1NewStream(s, roomToWait, room) ==
    /\ h1.stream[s] = "new" /\ ~h1.draining /\ h1Unused(h1) # {}
    /\ h1' = h1NewStream(h1, s, roomToWait, room)

\* The connection is established.
H1Connected(c) ==
    /\ c \in h1.timer
    /\ h1' = h1OnConnected(h1, c)

\* It is refused, or the connect timer fires and closes it.
H1ConnectFails(c, again) ==
    /\ c \in h1.timer /\ h1Unused(h1) # {}
    /\ again # "none" => h1.stream[again] = "new" /\ ~h1.draining /\ h1.pending # <<>>
    /\ h1' = h1OnClose(h1, c, "reset", again)

\* The router has encoded the whole request.
H1EncodeComplete(c) ==
    /\ h1.wrapper[c] # "none" /\ c \notin h1.sent
    /\ h1' = [h1 EXCEPT !.sent = @ \cup {c}]

H1ResponseComplete(c, sawClose) ==
    /\ h1.wrapper[c] # "none" /\ h1Unused(h1) # {}
    /\ h1' = h1OnResponseComplete(h1, c, sawClose)

\* The router resets the stream, the upstream closes the connection (which may
\* be the end of the response) or sends what the codec rejects.
H1ActiveCloses(c, to) ==
    /\ h1.wrapper[c] # "none" /\ h1Unused(h1) # {}
    /\ h1' = h1OnClose(h1, c, to, "none")

H1IdleCloses(c) ==
    /\ c \in H1Elements(h1.ready) /\ h1Unused(h1) # {}
    /\ h1' = h1OnClose(h1, c, "reset", "none")

\* onPendingRequestCancel()
H1Cancel(s) ==
    /\ h1.stream[s] = "pending"
    /\ h1' = h1CheckForDrained([h1 EXCEPT !.stream[s] = "cancelled",
                                          !.pending = h1Without(@, s)])

\* addDrainedCallback(): the host was removed, no stream is asked for any more.
H1AddDrainedCallback ==
    /\ ~h1.draining
    /\ h1' = h1CheckForDrained([h1 EXCEPT !.draining = TRUE])

\* The dispatcher destroys what was deferred.
H1DeferredDelete ==
    /\ h1.deleted # {}
    /\ h1' = [h1 EXCEPT !.deleted = {}]

H1ConnectEnds(c) ==
    \/ H1Connected(c)
    \/ \E again \in H1Streams \cup {"none"} : H1ConnectFails(c, again)

H1StreamEnds(c) ==
    \/ \E sawClose \in BOOLEAN : H1ResponseComplete(c, sawClose)
    \/ \E to \in {"complete", "reset"} : H1ActiveCloses(c, to)

H1Next ==
    \/ \E s \in H1Streams :
          H1Cancel(s) \/ \E roomToWait, room \in BOOLEAN : H1NewStream(s, roomToWait, room)
    \/ \E c \in H1Clients :
          H1ConnectEnds(c) \/ H1StreamEnds(c) \/ H1EncodeComplete(c) \/ H1IdleCloses(c)
    \/ H1AddDrainedCallback
    \/ H1DeferredDelete

\* The connect timer ends every attempt, the router's timeout every request,
\* and the dispatcher runs its deferred deletions.
H1Progress(c) == H1ConnectEnds(c) \/ H1StreamEnds(c)

H1Spec ==
    /\ H1Init /\ [][H1Next]_h1
    /\ \A c \in H1Clients : WF_h1(H1Progress(c))
    /\ WF_h1(H1DeferredDelete)

----------------------------------------------------------------------------
(***************************************************************************)
(* Properties.                                                             *)
(***************************************************************************)

H1TypeOK ==
    /\ h1.stream \in [H1Streams ->
          {"new", "pending", "active", "complete", "reset", "failed", "cancelled", "overflow"}]
    /\ H1Elements(h1.pending) = {s \in H1Streams : h1.stream[s] = "pending"}
    /\ h1.busy \cup h1.deleted \cup h1.timer \cup h1.sent \subseteq H1Clients
    /\ h1.drained \in 0..1

\* The list a client is in can be told from its stream and its timer, as
\* onConnectionEvent() does: a client is in one list, a busy one is connecting
\* or has a stream, a ready one neither, and no two have the same stream.
H1ListsSound ==
    /\ h1.busy \cap H1Elements(h1.ready) = {} /\ h1.deleted \cap (h1.busy \cup H1Elements(h1.ready)) = {}
    /\ \A c \in H1Clients : (c \in h1.busy) <=> (c \in h1.timer) # (h1.wrapper[c] # "none")
    /\ \A c \in H1Clients : c \notin h1.busy => c \notin h1.timer /\ h1.wrapper[c] = "none"
    /\ \A s \in H1Streams : h1.stream[s] = "active" =>
          Cardinality({c \in H1Clients : h1.wrapper[c] = s}) = 1

\* A request only waits while a connection is being made or will be free, and
\* never while one is idle.
H1NoStarvation == h1.pending # <<>> => h1.ready = <<>> /\ h1.busy # {}

\* Whatever is closed and replaced, the pool keeps to the circuit breaker, but
\* for the one connection it may always have.
H1ConnectionBound ==
    Len(h1.ready) + Cardinality(h1.busy) <= IF H1MaxConnections = 0 THEN 1 ELSE H1MaxConnections

\* All of this, at any time and in whatever order connections and requests fail.
H1Sound == H1TypeOK /\ H1ListsSound /\ H1NoStarvation /\ H1ConnectionBound

h1PhaseOf(stream) ==
    CASE stream = "pending" -> "waiting"
      [] stream = "active" -> "served"
      [] stream \in {"complete", "reset"} -> "ended"
      [] stream = "overflow" -> "failed"
      [] OTHER -> stream

H1Phase == [s \in H1Streams |-> h1PhaseOf(h1.stream[s])]

H1Drain == IF ~h1.draining THEN "no" ELSE IF h1.drained = 0 THEN "asked" ELSE "done"

H1Abstract ==
    INSTANCE StreamPool WITH Streams <- H1Streams, phase <- H1Phase, waiting <- h1.pending, drain <- H1Drain

\* The pool implements StreamPool: requests that wait are served in order, none
\* overtakes them, each has one outcome, and the drained callback is called
\* once, when nothing waits or runs.
H1ImplementsStreamPool == H1Abstract!Safety

\* A request does not wait for ever, and a pool that is asked to drain does.
H1Resolves ==
    /\ \A s \in H1Streams : h1.stream[s] = "pending" ~> h1.stream[s] # "pending"
    /\ h1.draining ~> h1.drained > 0 /\ h1.ready = <<>> /\ h1.deleted = {}

-----------------------------------------------------------------------------
(***************************************************************************)
(* The HTTP/2 connection pool of one upstream host in one worker           *)
(* (common/http/http2/conn_pool.cc) over the codec client: one primary     *)
(* connection takes every stream, also while it is still connecting; after *)
(* a GOAWAY or too many streams it becomes the draining one and lives      *)
(* until its last stream ends.  As for HTTP/1.1, functions are             *)
(* operators on the state and events of the dispatcher are actions.        *)
(***************************************************************************)

CONSTANTS H2Streams,      \* requests for a stream
          H2Clients,      \* bound: connections that exist at a time
          H2MaxRequests,  \* circuit breaker of the cluster
          H2MaxStreams    \* streams a connection takes before the rollover

ASSUME H2Assumption ==
    /\ H2MaxRequests \in Nat /\ H2MaxStreams \in Nat \ {0}
    /\ IsFiniteSet(H2Clients) /\ "none" \notin H2Clients

VARIABLE h2

H2Init ==
    h2 = [stream |-> [s \in H2Streams |-> "new"],
          primary |-> "none",   \* primary_client_
          old |-> "none",       \* draining_client_
          active |-> [c \in H2Clients |-> {}],  \* the codec client's active_requests_
          total |-> [c \in H2Clients |-> 0],    \* total_streams_
          timer |-> {},         \* clients with a connect_timer_
          away |-> {},          \* clients that saw a GOAWAY
          deleted |-> {},       \* handed to deferredDelete()
          requests |-> 0,       \* this pool's part of the circuit breaker
          draining |-> FALSE,   \* drained_callbacks_ is not empty
          drained |-> 0]        \* times they were called

h2Unused(p) == H2Clients \ ({p.primary, p.old} \cup p.deleted)

\* The close of a client without streams: it leaves the pool.
h2Remove(p, c) ==
    [p EXCEPT !.primary = IF c = p.primary THEN "none" ELSE @,
              !.old = IF c = p.primary THEN @ ELSE "none",
              !.timer = @ \ {c}, !.away = @ \ {c}, !.deleted = @ \cup {c}]

\* Mutant: the draining client is forgotten.
h2CheckForDrainedPrimaryOnly(p) ==
    LET q == IF p.primary # "none" /\ p.active[p.primary] = {} THEN h2Remove(p, p.primary) ELSE p
    IN  IF p.draining /\ q.primary = "none" THEN [q EXCEPT !.drained = @ + 1] ELSE p

h2CheckForDrained(p) ==
    LET q == IF p.primary # "none" /\ p.active[p.primary] = {} THEN h2Remove(p, p.primary) ELSE p
        drained == q.primary = "none" /\ (q.old = "none" \/ q.active[q.old] = {})
    IN  IF ~p.draining THEN p
        ELSE IF drained THEN [q EXCEPT !.drained = @ + 1]
        ELSE q

\* The close of a client: the codec client resets its streams one by one, each
\* calling onStreamReset() and onStreamDestroy(), and only then does
\* onConnectionEvent() look whether the pool is drained.
h2Close(p, c) ==
    LET streams == p.active[c]
        q == h2Remove([p EXCEPT
                 !.stream = [s \in H2Streams |-> IF s \in streams THEN "reset" ELSE p.stream[s]],
                 !.active[c] = {},
                 !.requests = @ - Cardinality(streams)], c)
    IN  IF streams # {} THEN h2CheckForDrained(q) ELSE q

\* Mutant: an older draining connection is overwritten.
h2MovePrimaryClientToDrainingOver(p) ==
    IF p.active[p.primary] = {} THEN h2Close(p, p.primary)
    ELSE [p EXCEPT !.old = p.primary, !.primary = "none"]

h2MovePrimaryClientToDraining(p) ==
    LET q == IF p.old # "none" THEN h2Close(p, p.old) ELSE p
    IN  IF q.active[q.primary] = {} THEN h2Close(q, q.primary)
        ELSE [q EXCEPT !.old = q.primary, !.primary = "none"]

\* The rollover, and a connection if there is none: also for a stream that is
\* refused afterwards.
h2WithPrimary(p) ==
    LET q == IF p.primary # "none" /\ p.total[p.primary] >= H2MaxStreams
             THEN h2MovePrimaryClientToDraining(p) ELSE p
        c == CHOOSE c \in h2Unused(q) : TRUE
    IN  IF q.primary # "none" THEN q
        ELSE [q EXCEPT !.primary = c, !.timer = @ \cup {c}, !.total[c] = 0]

\* The breaker is shared with other hosts, which may have used it up: room.
h2NewStream(p, s, room) ==
    LET q == h2WithPrimary(p)
    IN  IF room /\ q.requests < H2MaxRequests
        THEN [q EXCEPT !.total[q.primary] = @ + 1, !.requests = @ + 1,
                       !.active[q.primary] = @ \cup {s}, !.stream[s] = "active"]
        ELSE [q EXCEPT !.stream[s] = "overflow"]

\* Mutant: the draining connection is kept.
h2OnStreamDestroyKept(p, c) == h2CheckForDrained([p EXCEPT !.requests = @ - 1])

h2OnStreamDestroy(p, c) ==
    LET q == [p EXCEPT !.requests = @ - 1]
    IN  h2CheckForDrained(IF c = q.old /\ q.active[c] = {} THEN h2Close(q, c) ELSE q)

----------------------------------------------------------------------------
H2NewStream(s, room) ==
    /\ h2.stream[s] = "new" /\ ~h2.draining /\ h2Unused(h2) # {}
    /\ h2' = h2NewStream(h2, s, room)

H2Connected(c) ==
    /\ c \in h2.timer
    /\ h2' = [h2 EXCEPT !.timer = @ \ {c}]

\* The connect timer fires, the peer closes, or the codec fails.
H2Closes(c) ==
    /\ c \in {h2.primary, h2.old}
    /\ h2' = h2Close(h2, c)

\* The response is complete, or one side resets the stream.
H2StreamEnds(c, s, to) ==
    /\ s \in h2.active[c] /\ (to = "complete" => c \notin h2.timer)
    /\ h2' = h2OnStreamDestroy([h2 EXCEPT !.active[c] = @ \ {s}, !.stream[s] = to], c)

\* Mutant: the primary stays the primary.
H2OnGoAwayIgnored(c) ==
    /\ c \in {h2.primary, h2.old} \ (h2.timer \cup h2.away)
    /\ h2' = [h2 EXCEPT !.away = @ \cup {c}]

H2OnGoAway(c) ==
    /\ c \in {h2.primary, h2.old} \ (h2.timer \cup h2.away)
    /\ LET p == [h2 EXCEPT !.away = @ \cup {c}]
       IN  h2' = IF c = p.primary THEN h2MovePrimaryClientToDraining(p) ELSE p

H2AddDrainedCallback ==
    /\ ~h2.draining
    /\ h2' = h2CheckForDrained([h2 EXCEPT !.draining = TRUE])

H2DeferredDelete ==
    /\ h2.deleted # {}
    /\ h2' = [h2 EXCEPT !.deleted = {}]

H2Ends(c) == \E s \in H2Streams, to \in {"complete", "reset"} : H2StreamEnds(c, s, to)

H2Next ==
    \/ \E s \in H2Streams, room \in BOOLEAN : H2NewStream(s, room)
    \/ \E c \in H2Clients : H2Connected(c) \/ H2Closes(c) \/ H2OnGoAway(c) \/ H2Ends(c)
    \/ H2AddDrainedCallback
    \/ H2DeferredDelete

\* The router's timeout ends every stream.
H2Spec == H2Init /\ [][H2Next]_h2 /\ \A c \in H2Clients : WF_h2(H2Ends(c))

----------------------------------------------------------------------------
(***************************************************************************)
(* Properties.                                                             *)
(***************************************************************************)

H2TypeOK ==
    /\ h2.stream \in [H2Streams -> {"new", "active", "complete", "reset", "overflow"}]
    /\ {h2.primary, h2.old} \subseteq H2Clients \cup {"none"}
    /\ h2.requests \in 0..H2MaxRequests /\ h2.drained \in 0..1

\* Every stream is on a connection of the pool and counted once against the
\* circuit breaker; the draining connection has streams (the ASSERT of
\* checkForDrained), a primary that saw a GOAWAY does not exist, and once the
\* pool drains nor does an idle one, which movePrimaryClientToDraining() would
\* otherwise dereference after closing it.
H2Sound ==
    /\ H2TypeOK
    /\ h2.primary # "none" => h2.primary # h2.old /\ h2.primary \notin h2.away
    /\ \A c \in H2Clients : h2.active[c] # {} => c \in {h2.primary, h2.old}
    /\ h2.old # "none" => h2.active[h2.old] # {}
    /\ h2.draining /\ h2.primary # "none" => h2.active[h2.primary] # {}
    /\ h2.requests = Cardinality({s \in H2Streams : h2.stream[s] = "active"})
    /\ UNION {h2.active[c] : c \in H2Clients} = {s \in H2Streams : h2.stream[s] = "active"}

h2PhaseOf(stream) ==
    IF stream = "active" THEN "served"
    ELSE IF stream \in {"complete", "reset"} THEN "ended"
    ELSE IF stream = "overflow" THEN "failed"
    ELSE stream

H2Phase == [s \in H2Streams |-> h2PhaseOf(h2.stream[s])]

H2Drain == IF ~h2.draining THEN "no" ELSE IF h2.drained = 0 THEN "asked" ELSE "done"

H2Abstract ==
    INSTANCE StreamPool WITH Streams <- H2Streams, phase <- H2Phase, waiting <- <<>>, drain <- H2Drain

\* The pool implements StreamPool: every stream has one outcome, and the
\* drained callback is called once, when no connection has a stream.
H2ImplementsStreamPool == H2Abstract!Safety

\* A pool that is asked to drain does, whatever connections close meanwhile.
H2Drains == h2.draining ~> h2.drained > 0 /\ h2.primary = "none" /\ h2.old = "none"
=============================================================================
