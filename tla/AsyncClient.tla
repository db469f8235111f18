---------------------------- MODULE AsyncClient ----------------------------
(***************************************************************************)
(* What the proxy itself sends, in three parts: the client (Ac), then two  *)
(* of its users, the Zipkin tracer (Zk) and load reports (Lr).             *)
(***************************************************************************)

(***************************************************************************)
(* common/http/async_client_impl.cc: requests and streams that the proxy   *)
(* itself makes, through a router filter of their own.  The router may     *)
(* answer inline, while it is given headers or data; a user may reset its  *)
(* stream from within a callback.                                          *)
(***************************************************************************)
EXTENDS Integers, FiniteSets, Sequences

CONSTANTS AcStreams,
          AcSendsAfterEnd  \* whether users go on sending when the response has ended

ASSUME AcConstants == AcSendsAfterEnd \in BOOLEAN

VARIABLE ac

\* local, remote: local_closed_, remote_closed_; router: of this stream, "ended"
\* once it has passed on the end of a response (it has no upstream request then).
AcStream == [kind : {"none", "request", "stream"}, sent : {"nothing", "headers"}, local : BOOLEAN, remote : BOOLEAN,
             listed : BOOLEAN, deferred : 0..2, router : {"none", "up", "ended", "destroyed"}, response : {"none", "headers"},
             success : 0..2, failure : 0..2, resets : 0..2, cancelled : BOOLEAN, fails : BOOLEAN]

AcInit ==
    ac = [s \in AcStreams |->
            [kind |-> "none", sent |-> "nothing", local |-> FALSE, remote |-> FALSE, listed |-> FALSE, deferred |-> 0,
             router |-> "none", response |-> "none", success |-> 0, failure |-> 0, resets |-> 0, cancelled |-> FALSE,
             fails |-> FALSE]]

\* cleanup(): only what is in the list is destroyed.
acCleanup(p) ==
    LET q == [p EXCEPT !.local = TRUE, !.remote = TRUE]
    IN IF p.listed THEN [q EXCEPT !.listed = FALSE, !.deferred = @ + 1] ELSE q

acClosed(p) == IF p.local /\ p.remote THEN acCleanup(p) ELSE p

\* closeLocal() asserts that the stream is not ended twice.
acCloseLocal(p, end) == acClosed([p EXCEPT !.fails = @ \/ (p.local /\ end), !.local = @ \/ end])
acCloseRemote(p, end) == acClosed([p EXCEPT !.remote = @ \/ end])

\* onReset() of a request and of a stream's user; resetStream() and reset().
acOnReset(p) ==
    IF p.kind = "stream" THEN [p EXCEPT !.resets = @ + 1]
    ELSE IF p.cancelled THEN p ELSE [p EXCEPT !.failure = @ + 1]
acResetStream(p) == acCleanup(acOnReset(p))
acReset(p) == acResetStream([p EXCEPT !.router = "destroyed"])

\* Mutant: the stream is closed before its callback is made, which then is not.
acEncodeClosesFirst(p, what, end, react) ==
    LET seen == acCloseRemote([p EXCEPT !.response = "headers", !.router = IF end THEN "ended" ELSE @], end)
    IN IF ~seen.listed THEN seen
       ELSE IF seen.kind = "request" /\ end THEN [seen EXCEPT !.success = @ + 1]
       ELSE IF seen.kind = "stream" /\ react = "reset" THEN acReset(seen) ELSE seen

\* encodeHeaders(), encodeData(), encodeTrailers(): the callback, then closeRemote().
acEncode(p, what, end, react) ==
    LET seen == [p EXCEPT !.fails = @ \/ p.remote, !.response = "headers", !.router = IF end THEN "ended" ELSE @]
        told == IF p.kind = "request" /\ end THEN [seen EXCEPT !.success = @ + 1]
                ELSE IF p.kind = "stream" /\ react = "reset" THEN acReset(seen) ELSE seen
    IN acCloseRemote(told, end)

\* How a router may answer inline: not at all, with headers, with headers and a body.
AcInline == {"no", "headers", "body"}
acInline(p, reply) ==
    CASE reply = "no" -> p
      [] reply = "headers" -> acEncode(p, "headers", TRUE, "none")
      [] reply = "body" -> acEncode(acEncode(p, "headers", FALSE, "none"), "data", TRUE, "none")

\* sendHeaders(), sendData(), sendTrailers(): router_.decode...(), then closeLocal().
acSends(p, end, reply) ==
    acCloseLocal(acInline([p EXCEPT !.sent = "headers", !.router = IF @ = "none" THEN "up" ELSE @,
                                    !.fails = @ \/ p.router \in {"ended", "destroyed"}], reply), end)

\* Mutant: a request that was answered inline is kept.
acKeepAlways(p) == [p EXCEPT !.listed = TRUE]

\* send() keeps a request unless it was answered inline.
acKeep(p) == IF p.remote THEN acCleanup(p) ELSE [p EXCEPT !.listed = TRUE]

\* send(), with AsyncRequestImpl::initialize().
AcSend(s, body, first, second) ==
    /\ ac[s].kind = "none"
    /\ LET head == acSends([ac[s] EXCEPT !.kind = "request"], ~body, first)
           sent == IF body /\ ~head.remote THEN acSends(head, TRUE, second) ELSE head
       IN ac' = [ac EXCEPT ![s] = acKeep(sent)]

\* start()
AcStart(s) ==
    /\ ac[s].kind = "none"
    /\ ac' = [ac EXCEPT ![s].kind = "stream", ![s].listed = TRUE]

\* A user of a stream sends headers, then data or trailers.
AcStreamSends(s, end, reply) ==
    /\ ac[s].kind = "stream" /\ ac[s].listed /\ ~ac[s].local
    /\ ac[s].sent = "headers" => ac[s].router = "up" \/ AcSendsAfterEnd
    /\ reply # "no" => ac[s].router \in {"none", "up"} /\ ac[s].response = "none"
    /\ ac' = [ac EXCEPT ![s] = acSends(@, end, reply)]

\* The upstream answers; the router gives up on a response it has begun.
AcResponse(s, what, end, react) ==
    /\ ac[s].router = "up"
    /\ (what = "headers") = (ac[s].response = "none")
    /\ what = "trailers" => end
    /\ ac' = [ac EXCEPT ![s] = acEncode(@, what, end, react)]

AcUpstreamReset(s) ==
    /\ ac[s].router = "up" /\ ac[s].response = "headers"
    /\ ac' = [ac EXCEPT ![s] = acResetStream([@ EXCEPT !.router = "destroyed"])]

\* cancel() of a request, reset() of a stream.
AcUserResets(s) ==
    /\ ac[s].listed
    /\ ac' = [ac EXCEPT ![s] = acReset([@ EXCEPT !.cancelled = ac[s].kind = "request"])]

\* ~AsyncClientImpl(): every stream that is left is reset.
AcDestroy ==
    /\ \E s \in AcStreams : ac[s].listed
    /\ ac' = [s \in AcStreams |-> IF ac[s].listed THEN acReset(ac[s]) ELSE ac[s]]

AcNext ==
    \/ AcDestroy
    \/ \E s \in AcStreams :
          \/ AcStart(s) \/ AcUpstreamReset(s) \/ AcUserResets(s)
          \/ \E body \in BOOLEAN, first, second \in AcInline : AcSend(s, body, first, second)
          \/ \E end \in BOOLEAN, reply \in AcInline : AcStreamSends(s, end, reply)
          \/ \E what \in {"headers", "data", "trailers"}, end \in BOOLEAN, react \in {"none", "reset"} :
                AcResponse(s, what, end, react)

AcSpec == AcInit /\ [][AcNext]_ac

(***************************************************************************)
(* Properties                                                              *)
(***************************************************************************)
\* A request is answered once, by success or by failure, unless it is cancelled,
\* and then not at all; a stream is reset at most once; what is over has left the
\* list and is destroyed once, inline answers and resets from callbacks included;
\* no assertion of the stream fails and no ended router is given more.
AcSound ==
    \A s \in AcStreams :
        LET p == ac[s] IN
        /\ p \in AcStream
        /\ ~p.fails
        /\ p.listed => ~(p.local /\ p.remote) /\ p.deferred = 0
        /\ p.kind = "request" =>
              /\ p.success + p.failure = (IF p.listed \/ p.cancelled THEN 0 ELSE 1)
              /\ ~p.listed => p.local /\ p.remote
        /\ p.kind = "stream" => p.resets <= 1 /\ p.deferred = (IF p.listed THEN 0 ELSE 1)

\* async_client.h: "the HTTP stream is full-duplex": one that has seen the end of
\* the response may still send.  The router has no upstream request any more.
AcFullDuplex == \A s \in AcStreams : ac[s].kind = "stream" => ~ac[s].fails

\* async_client.h of a null handle: "In this case onFailure() has already been
\* called inline": the router's own reply is a success.
AcInlineFailure ==
    \A s \in AcStreams : ac[s].kind = "request" /\ ~ac[s].listed /\ ac[s].deferred = 0 => ac[s].failure = 1
-----------------------------------------------------------------------------
(***************************************************************************)
(* Zipkin (common/tracing/zipkin, http_tracer_impl.cc): the spans of one   *)
(* request on its way through several proxies, each of which finds the     *)
(* context the one before it injected, and the reporter that buffers       *)
(* finished spans and posts them to the collector.  For brevity one        *)
(* reporter takes the spans of all proxies.  Names, tags other than that   *)
(* of an error, and the values of times are left out.                      *)
(***************************************************************************)
CONSTANTS ZkMaxSpans,    \* bound: spans of the request
          ZkMinFlush,    \* values tracing.zipkin.min_flush_spans may take
          ZkMaxFlushes   \* bound: how often the flush timer fires

ASSUME ZkConstants == ZkMaxSpans \in Nat /\ ZkMinFlush \subseteq Nat /\ ZkMaxFlushes \in Nat

VARIABLE zk

\* An annotation: "cs", "sr", "cr" or "ss", and who saw it.
zkAnnotation(value, endpoint) == [value |-> value, endpoint |-> endpoint]

\* SpanContext; a parent of 0 is one that is not set.
zkContext(trace, id, parent) == [trace |-> trace, id |-> id, parent |-> parent]

\* A span; of its times, whether they are set.
zkSpan(trace, id, parent, annotations, timestamp) ==
    [trace |-> trace, id |-> id, parent |-> parent, annotations |-> annotations, timestamp |-> timestamp,
     duration |-> FALSE, tags |-> {}]

\* setTag(), a binary annotation
zkSetTag(span, tag) == [span EXCEPT !.tags = @ \cup {tag}]

\* Tracing::NullSpan
ZkNullSpan == zkSpan(0, 0, 0, <<>>, FALSE)

\* The headers of a request: x-ot-span-context and the x-b3 ones.
ZkNothing == [kind |-> "none", context |-> zkContext(0, 0, 0)]
ZkMalformed == [ZkNothing EXCEPT !.kind = "malformed"]
ZkGiven == [kind |-> "context", context |-> zkContext(-1, -2, -3)]
ZkClientSends == {<<ZkNothing, h>> : h \in {ZkNothing, ZkMalformed, ZkGiven}} \cup {<<ZkMalformed, ZkGiven>>, <<ZkGiven, ZkNothing>>}

\* ReporterImpl(): the buffer is as large as the runtime says then.
zkFirst(ot, b3, min) ==
    [ot |-> ot, b3 |-> b3,  \* what the request carries
     last |-> 0,            \* the span of the proxy it comes from
     spans |-> <<>>, op |-> <<>>, from |-> <<>>, open |-> {},
     min |-> min, capacity |-> min, changed |-> FALSE,
     buffer |-> <<>>,       \* span_buffer_, of numbers of spans
     reports |-> <<>>,      \* what was posted, as JSON
     lost |-> {},           \* spans that found the buffer full
     flushes |-> 0, spansSent |-> 0, stats |-> [sent |-> 0, dropped |-> 0, failed |-> 0]]

ZkInit == \E sends \in ZkClientSends, min \in ZkMinFlush : zk = zkFirst(sends[1], sends[2], min)

\* Tracer::startSpan() without a context: random numbers do not collide.
zkRoot(op, n) == zkSpan(n, n, 0, <<zkAnnotation(IF op = "egress" THEN "cs" ELSE "sr", n)>>, TRUE)

\* Mutant: a proxy that receives makes a span of its own.
zkStartSpanNeverShared(op, n, c) ==
    zkSpan(c.trace, n, c.id, <<zkAnnotation(IF op = "egress" THEN "cs" ELSE "sr", n)>>, TRUE)

\* Tracer::startSpan() with a context: a child, or the other end of the same span.
zkStartSpan(op, n, c) ==
    IF op = "egress" THEN zkSpan(c.trace, n, c.id, <<zkAnnotation("cs", n)>>, TRUE)
    ELSE zkSpan(c.trace, c.id, c.parent, <<zkAnnotation("sr", n)>>, FALSE)

\* Driver::startSpan(): a context that is malformed is all zeros.
zkDriverStartSpan(op, n, ot, b3) ==
    CASE ot.kind # "none" -> zkStartSpan(op, n, ot.context)
      [] ot.kind = "none" /\ b3.kind = "context" -> zkStartSpan(op, n, b3.context)
      [] ot.kind = "none" /\ b3.kind = "malformed" -> ZkNullSpan
      [] OTHER -> zkRoot(op, n)

zkIsNull(span) == span.annotations = <<>>
zkContextOf(span) == zkContext(span.trace, span.id, span.parent)

\* A span of this operation, made from the span given (0: what the client sent).
zkAdd(span, op, from) ==
    [zk EXCEPT !.spans = Append(@, span), !.op = Append(@, op), !.from = Append(@, from),
               !.open = IF zkIsNull(span) THEN @ ELSE @ \cup {Len(zk.spans) + 1}]

\* The next proxy starts its span and injects its context (ZipkinSpan::injectContext()).
ZkStart(op) ==
    /\ Len(zk.spans) < ZkMaxSpans
    /\ LET n == Len(zk.spans) + 1
           span == zkDriverStartSpan(op, n, zk.ot, zk.b3)
           injected == [kind |-> "context", context |-> zkContextOf(span)]
       IN  zk' = [zkAdd(span, op, zk.last) EXCEPT !.last = n,
                                                  !.ot = IF zkIsNull(span) THEN @ ELSE injected,
                                                  !.b3 = IF zkIsNull(span) THEN @ ELSE injected]

\* ZipkinSpan::spawnChild(), for a request that the proxy makes on its own.
ZkSpawnChild(i) ==
    /\ Len(zk.spans) < ZkMaxSpans /\ i \in zk.open
    /\ zk' = zkAdd(zkStartSpan("egress", Len(zk.spans) + 1, zkContextOf(zk.spans[i])), "egress", i)

\* Span::toJson(): what is 0 or was not set is left out.
zkToJson(i, span) ==
    [of |-> i, trace |-> span.trace, id |-> span.id, parent |-> IF span.parent = 0 THEN {} ELSE {span.parent},
     annotations |-> span.annotations, timestamp |-> span.timestamp, duration |-> span.duration, tags |-> span.tags]

\* ReporterImpl::flushSpans().  An answer that comes inline changes only the counters,
\* as one that comes later.
zkFlushSpans(z) ==
    IF z.buffer = <<>> THEN z
    ELSE [z EXCEPT !.spansSent = @ + Len(z.buffer), !.buffer = <<>>,
                   !.reports = Append(@, [k \in 1..Len(z.buffer) |-> zkToJson(z.buffer[k], z.spans[z.buffer[k]])])]

\* SpanBuffer::addSpan()
zkAddSpan(z, i) ==
    IF Len(z.buffer) = z.capacity THEN [z EXCEPT !.lost = @ \cup {i}] ELSE [z EXCEPT !.buffer = Append(@, i)]

\* ReporterImpl::reportSpan()
zkReportSpan(z, i) ==
    LET added == zkAddSpan(z, i)
    IN  IF Len(added.buffer) = z.min THEN zkFlushSpans(added) ELSE added

\* Span::finish(): the second annotation; the client's end gives the duration.
zkFinish(span) ==
    LET begun == span.annotations[1]
    IN  IF begun.value = "sr" THEN [span EXCEPT !.annotations = Append(@, zkAnnotation("ss", begun.endpoint))]
        ELSE [span EXCEPT !.annotations = Append(@, zkAnnotation("cr", begun.endpoint)), !.duration = TRUE]

\* HttpTracerUtility::finalizeSpan(): a missing response, or a 5xx, is an error.
ZkFinalizeSpan(i, code) ==
    /\ i \in zk.open
    /\ zk' = zkReportSpan([zk EXCEPT !.open = @ \ {i},
                                     !.spans[i] = zkFinish(IF code = "2xx" THEN @ ELSE zkSetTag(@, "error"))], i)

\* The flush timer, which is armed again.
ZkTimer ==
    /\ zk.flushes < ZkMaxFlushes
    /\ zk' = zkFlushSpans([zk EXCEPT !.flushes = @ + 1])

\* ReporterImpl::onSuccess() with 202 or another status, and onFailure().
ZkAnswer(how) ==
    /\ zk.stats.sent + zk.stats.dropped + zk.stats.failed < Len(zk.reports)
    /\ zk' = [zk EXCEPT !.stats[how] = @ + 1]

\* The runtime changes.
ZkRuntime(min) ==
    /\ ~zk.changed /\ min # zk.min
    /\ zk' = [zk EXCEPT !.min = min, !.changed = TRUE]

ZkNext ==
    \/ ZkTimer
    \/ \E op \in {"ingress", "egress"} : ZkStart(op)
    \/ \E i \in DOMAIN zk.spans : ZkSpawnChild(i) \/ \E code \in {"none", "2xx", "5xx"} : ZkFinalizeSpan(i, code)
    \/ \E how \in {"sent", "dropped", "failed"} : ZkAnswer(how)
    \/ \E min \in ZkMinFlush : ZkRuntime(min)

ZkSpec == ZkInit /\ [][ZkNext]_zk

\* The spans of a request are one tree, whoever finishes first: all are of one trace, a
\* proxy that receives is the other end of its predecessor's span, one that sends
\* has a child, and of a span's two ends only the one that began it gives its
\* time.  Every span that is finished is waiting, sent once or lost, and lost only
\* when the runtime was changed after the buffer was made (or made it of size 0).
ZkSound ==
    LET finished == {i \in DOMAIN zk.spans \ zk.open : ~zkIsNull(zk.spans[i])}
        sent == {<<r, k>> \in (DOMAIN zk.reports) \X (1..ZkMaxSpans) : k <= Len(zk.reports[r])}
        json(p) == zk.reports[p[1]][p[2]]
        waiting == {zk.buffer[k] : k \in DOMAIN zk.buffer}
    IN  /\ \A i \in DOMAIN zk.spans : zk.from[i] # 0 /\ ~zkIsNull(zk.spans[i]) =>
              LET s == zk.spans[i]
                  f == zk.spans[zk.from[i]]
              IN  s.trace = f.trace /\ IF zk.op[i] = "egress" THEN s.parent = f.id ELSE <<s.id, s.parent>> = <<f.id, f.parent>>
        /\ \A i, j \in finished : i < j /\ zk.spans[i].id = zk.spans[j].id => zk.op[j] = "ingress" /\ ~zk.spans[j].timestamp
        /\ \A p \in sent : Len(json(p).annotations) = 2 /\ (json(p).duration <=> json(p).annotations[1].value = "cs")
        /\ finished = waiting \cup zk.lost \cup {json(p).of : p \in sent}
        /\ Cardinality(finished) = Len(zk.buffer) + Cardinality(zk.lost) + zk.spansSent
        /\ zk.lost # {} => zk.changed \/ zk.capacity = 0
        /\ Len(zk.buffer) <= zk.capacity /\ (zk.changed \/ Len(zk.buffer) < zk.min \/ zk.min = 0)
-----------------------------------------------------------------------------
(***************************************************************************)
(* Load reports (common/upstream/load_stats_reporter.cc): the management   *)
(* server names clusters and an interval on a stream; the reporter sends   *)
(* what was counted for them since it sent last, and opens a new stream    *)
(* when one fails, which may be within a call of its own.  A cluster's     *)
(* counters stand for those of its hosts; the reporter's own statistics    *)
(* are left out.                                                           *)
(***************************************************************************)
CONSTANTS LrClusters,
          LrMaxLoad     \* bound: requests of a cluster

VARIABLE lr

lrFirst ==
    [stream |-> FALSE, retry |-> FALSE, response |-> FALSE,  \* stream_, retry_timer_, response_timer_
     tracked |-> {},                                         \* clusters_
     known |-> LrClusters,                                   \* the cluster manager's
     load |-> [c \in LrClusters |-> 0],                      \* not latched yet
     total |-> [c \in LrClusters |-> 0], reported |-> [c \in LrClusters |-> 0], skipped |-> [c \in LrClusters |-> 0]]

lrHandleFailure(p) == [p EXCEPT !.retry = TRUE]


\* onRemoteClose()
lrOnRemoteClose(p) == lrHandleFailure([p EXCEPT !.response = FALSE, !.stream = FALSE])

\* latch() of the clusters given, into one of the two sums.
lrLatch(p, C, sum) ==
    LET add(f) == [c \in LrClusters |-> IF c \in C THEN f[c] + p.load[c] ELSE f[c]]
    IN  [p EXCEPT !.load = [c \in LrClusters |-> IF c \in C THEN 0 ELSE @[c]],
                  !.reported = IF sum = "reported" THEN add(@) ELSE @,
                  !.skipped = IF sum = "skipped" THEN add(@) ELSE @]

\* sendLoadStatsRequest(); sending may reset the stream.
lrSend(p, fails) ==
    LET sent == lrLatch(p, p.tracked \cap p.known, "reported")
    IN  IF fails THEN lrOnRemoteClose(sent) ELSE sent

\* establishNewStream(): without a stream, start() has called onRemoteClose() already.
lrEstablishNewStream(p, how) ==
    IF how = "none" THEN lrHandleFailure(lrOnRemoteClose(p))
    ELSE lrSend([p EXCEPT !.stream = TRUE], how = "reset")

LrInit == \E how \in {"none", "reset", "up"} : lr = lrEstablishNewStream(lrFirst, how)

LrRetry(how) ==
    /\ lr.retry
    /\ lr' = lrEstablishNewStream([lr EXCEPT !.retry = FALSE], how)

LrResponseTimer(fails) ==
    /\ lr.response
    /\ lr' = lrSend([lr EXCEPT !.response = FALSE], fails)

\* onReceiveMessage(): what was counted before is not reported.
LrReceive(clusters) ==
    /\ lr.stream
    /\ lr' = [lrLatch(lr, clusters \cap lr.known, "skipped") EXCEPT !.tracked = clusters, !.response = TRUE]

LrClose ==
    /\ lr.stream
    /\ lr' = lrOnRemoteClose(lr)

\* A request of a cluster ends; a cluster goes, with its counters, or comes.
LrRequest(c) ==
    /\ c \in lr.known /\ lr.total[c] < LrMaxLoad
    /\ lr' = [lr EXCEPT !.load[c] = @ + 1, !.total[c] = @ + 1]

LrCluster(c) ==
    lr' = IF c \in lr.known THEN [lrLatch(lr, {c}, "skipped") EXCEPT !.known = @ \ {c}]
          ELSE [lr EXCEPT !.known = @ \cup {c}]

LrNext ==
    \/ LrClose
    \/ \E how \in {"none", "reset", "up"} : LrRetry(how)
    \/ \E fails \in BOOLEAN : LrResponseTimer(fails)
    \/ \E clusters \in SUBSET LrClusters : LrReceive(clusters)
    \/ \E c \in LrClusters : LrRequest(c) \/ LrCluster(c)

LrSpec == LrInit /\ [][LrNext]_lr

\* There is a stream or a retry is due, never both, whenever and within whichever
\* call the stream fails; nothing is sent on a stream that is gone; and no
\* request is reported twice or forgotten.
LrSound ==
    /\ lr.stream # lr.retry
    /\ lr.response => lr.stream
    /\ \A c \in LrClusters :
          /\ lr.total[c] = lr.load[c] + lr.reported[c] + lr.skipped[c]
          /\ c \notin lr.known => lr.load[c] = 0
=============================================================================
