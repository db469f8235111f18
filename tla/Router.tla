------------------------------- MODULE Router -------------------------------
(***************************************************************************)
(* The router filter (common/router/router.cc) and its retry state         *)
(* (common/router/retry_state_impl.cc) for one stream: upstream requests   *)
(* that wait for a connection, are reset, time out and are retried, while  *)
(* the downstream request is still arriving or its client goes away.       *)
(*                                                                         *)
(* Handlers call each other inline (the pool may fail a request inside     *)
(* newStream(), a local reply destroys the stream), so each function is an *)
(* operator on the state record and each event of the dispatcher an        *)
(* action.  The pool is external: StreamPool says what it may do.          *)
(***************************************************************************)
EXTENDS Naturals, FiniteSets

CONSTANTS RtChunks,        \* bound: pieces of a request's body
          RtBufferLimit,   \* buffer_limit_ in pieces, 0 for none
          RtRetryOn,       \* the retry policy: a set of conditions
          RtNumRetries,
          RtGlobalTimeout, \* is timeout_.global_timeout_ more than 0?
          RtPerTryTimeout,
          RtAltResponses   \* may x-envoy-upstream-rq-timeout-alt-response be set?

ASSUME RtAssumption ==
    /\ RtChunks \in Nat /\ RtBufferLimit \in Nat /\ RtNumRetries \in Nat
    /\ RtRetryOn \subseteq {"5xx", "connect-failure", "refused-stream", "retriable-4xx", "grpc"}
    /\ RtGlobalTimeout \in BOOLEAN /\ RtPerTryTimeout \in BOOLEAN
    /\ RtAltResponses \subseteq BOOLEAN

VARIABLE rt

\* upstream_request_: closed means that neither the pool nor the codec will
\* call it again; got is the number of pieces it was given.
NoUpstream == [st |-> "none", host |-> FALSE, got |-> 0, complete |-> FALSE, perTry |-> FALSE]

\* retry_state_: timer is retry_timer_, callback is callback_.
NoRetry == [on |-> FALSE, remaining |-> 0, callback |-> FALSE, timer |-> FALSE]

RtInit ==
    \E alt \in RtAltResponses :
    rt = [down |-> "new",      \* new, open, answered, reset or gone
          alt |-> alt,         \* timeout_response_code_ is 204, not 504
          chunks |-> 0,        \* pieces that arrived from downstream
          buffer |-> 0,        \* pieces in decodingBuffer()
          endStream |-> FALSE, \* downstream_end_stream_
          started |-> FALSE,   \* downstream_response_started_
          up |-> NoUpstream,
          retry |-> NoRetry,
          retries |-> 0,       \* this stream's part of the retry circuit breaker
          response |-> FALSE,  \* response_timeout_ is armed
          shadow |-> FALSE,    \* do_shadowing_
          shadowed |-> 0,      \* 1 + the pieces of the shadow request
          attempts |-> 0,
          dangling |-> FALSE,  \* an upstream request was destroyed while in use
          crashed |-> FALSE]   \* a null host was dereferenced

----------------------------------------------------------------------------
(***************************************************************************)
(* The retry state.                                                        *)
(***************************************************************************)

\* Headers of a response (overloaded ones are 5xx), or the reason of a reset.
RtHeaders == {"ok", "5xx", "conflict", "overloaded", "grpc"}
RtReasons == {"connectionFailure", "remoteReset", "refused", "localReset", "overflow"}

rtWouldRetry(cause) ==
    /\ cause \notin {"overloaded", "overflow"}
    /\ \/ "5xx" \in RtRetryOn /\ cause \in {"5xx"} \cup RtReasons
       \/ "refused-stream" \in RtRetryOn /\ cause = "refused"
       \/ "connect-failure" \in RtRetryOn /\ cause = "connectionFailure"
       \/ "retriable-4xx" \in RtRetryOn /\ cause = "conflict"
       \/ "grpc" \in RtRetryOn /\ cause = "grpc"

rtResetRetry(p) ==
    [p EXCEPT !.retries = IF p.retry.callback THEN @ - 1 ELSE @, !.retry.callback = FALSE]

\* Mutant: the circuit breaker is not given back.
rtDropRetryLeaks(p) == [p EXCEPT !.retry = NoRetry]

\* retry_state_.reset()
rtDropRetry(p) == [rtResetRetry(p) EXCEPT !.retry = NoRetry]

\* Mutant: retries are not counted.
rtRemainingKept(p, cause) == p.retry.remaining

\* What is left when shouldRetry() has been asked.
rtRemaining(p, cause) == IF p.retry.remaining = 0 THEN 0 ELSE p.retry.remaining - 1

\* allowed: retries().canCreate(), which other streams share, and the runtime.
rtShouldRetry(p, cause, allowed) ==
    LET q == rtResetRetry(p)
        yes == p.retry.remaining > 0 /\ rtWouldRetry(cause) /\ allowed
    IN  [state |-> IF yes THEN [q EXCEPT !.retry.remaining = rtRemaining(p, cause),
                                         !.retry.callback = TRUE, !.retry.timer = TRUE,
                                         !.retries = @ + 1]
                   ELSE [q EXCEPT !.retry.remaining = rtRemaining(p, cause)],
         yes |-> yes]

----------------------------------------------------------------------------
(***************************************************************************)
(* The filter.                                                             *)
(***************************************************************************)

\* UpstreamRequest::resetStream(): cancel the pool's handle or reset the stream.
rtResetStream(p) == IF p.up.st = "none" THEN p ELSE [p EXCEPT !.up.st = "closed"]

\* upstream_request_.reset()
rtDropUpstream(p) ==
    [p EXCEPT !.up = NoUpstream, !.dangling = @ \/ p.up.st \in {"pending", "ready"}]

\* Mutant: the response timer is left armed.
rtCleanupKeepsTimer(p) == rtDropRetry(rtDropUpstream(p))

rtCleanup(p) == [rtDropRetry(rtDropUpstream(p)) EXCEPT !.response = FALSE]

rtOnDestroy(p, down) == [rtCleanup(rtResetStream(p)) EXCEPT !.down = down]

\* sendLocalReply() ends the stream, which destroys the filters.
rtSendLocalReply(p) == rtOnDestroy(p, "answered")

\* Mutant: a response that is still arriving is abandoned, not reset.
rtSetupRetryNoReset(p, upstreamEnded) == rtDropUpstream(p)

\* setupRetry() for a request that is complete.
rtSetupRetry(p, upstreamEnded) ==
    rtDropUpstream(IF upstreamEnded THEN p ELSE rtResetStream(p))

\* type is Reset, GlobalTimeout or PerTryTimeout.
rtOnUpstreamReset(p, type, reason, allowed) ==
    LET asked == type # "GlobalTimeout" /\ ~p.started /\ p.retry.on
        answer == IF asked THEN rtShouldRetry(p, reason, allowed) ELSE [state |-> p, yes |-> FALSE]
        q == answer.state
        nullHost == type # "Reset" /\ p.alt /\ ~p.up.host
    IN  IF answer.yes /\ q.endStream THEN rtSetupRetry(q, TRUE)
        ELSE IF q.started THEN rtOnDestroy(rtCleanup(q), "reset")
        ELSE [rtSendLocalReply(rtCleanup(q)) EXCEPT !.crashed = nullHost]

\* UpstreamRequest::onResetStream() and onPoolFailure().
rtOnResetStream(p, reason, allowed) ==
    rtOnUpstreamReset([p EXCEPT !.up.st = "closed"], "Reset", reason, allowed)

\* encodeHeaders(): the pool keeps the request, serves it at once (and may
\* reset it while its headers are encoded), or refuses it.
RtPoolAnswers == {"pending", "ready", "readyReset", "overflow"}

rtNewUpstream(p, pool, got, complete, allowed) ==
    LET q == [p EXCEPT !.attempts = @ + 1,
                       !.up = [st |-> IF pool = "pending" THEN "pending" ELSE "ready",
                               host |-> pool \in {"ready", "readyReset"},
                               got |-> got, complete |-> complete, perTry |-> FALSE]]
    IN  CASE pool = "overflow" -> rtOnResetStream(q, "overflow", allowed)
          [] pool = "readyReset" -> rtOnResetStream(q, "localReset", allowed)
          [] OTHER -> q

\* maybeDoShadowing() sends what is in decodingBuffer(), unless "we got an
\* immediate reset".
rtOnRequestComplete(p) ==
    LET q == [p EXCEPT !.endStream = TRUE]
    IN  IF q.up.st = "none" THEN q
        ELSE [q EXCEPT !.shadowed = IF q.shadow THEN @ + 1 + q.buffer ELSE @,
                       !.up.perTry = RtPerTryTimeout, !.response = RtGlobalTimeout]

----------------------------------------------------------------------------
(***************************************************************************)
(* Events from downstream.                                                 *)
(***************************************************************************)

\* decodeHeaders() without a route, a cluster or a healthy host, with a
\* redirect or in maintenance mode.
RtDecodeHeadersLocal ==
    /\ rt.down = "new"
    /\ rt' = rtSendLocalReply(rt)

RtDecodeHeaders(endStream, shadow, pool, allowed) ==
    /\ rt.down = "new"
    /\ LET p == [rt EXCEPT !.down = "open", !.shadow = shadow, !.endStream = FALSE,
                           !.retry = IF RtRetryOn = {} THEN NoRetry
                                     ELSE [NoRetry EXCEPT !.on = TRUE, !.remaining = RtNumRetries]]
           q == rtNewUpstream(p, pool, 0, endStream, allowed)
       IN  rt' = IF endStream THEN rtOnRequestComplete(q) ELSE q

\* The request is larger than the router should buffer.
rtTooLarge(p) ==
    (p.retry.on \/ p.shadow) /\ RtBufferLimit > 0 /\ p.buffer + 1 > RtBufferLimit

\* Mutant: the retry is kept although the body is no longer buffered.
rtAbandonKeepsRetry(p) == IF rtTooLarge(p) THEN [p EXCEPT !.shadow = FALSE] ELSE p

\* "Give up on the retry/shadow"
rtAbandon(p) == IF rtTooLarge(p) THEN [rtDropRetry(p) EXCEPT !.shadow = FALSE] ELSE p

\* The connection manager buffers the data when the filter has returned, that
\* is after onRequestComplete().
RtDecodeData(endStream) ==
    /\ rt.down = "open" /\ ~rt.endStream /\ rt.chunks < RtChunks
    /\ LET p == [rtAbandon(rt) EXCEPT !.chunks = @ + 1, !.up.got = @ + 1, !.up.complete = endStream]
           q == IF endStream THEN rtOnRequestComplete(p) ELSE p
           buffering == (p.retry.on \/ p.shadow) /\ ~rtTooLarge(rt)
       IN  rt' = [q EXCEPT !.buffer = IF buffering THEN @ + 1 ELSE @]

RtDecodeTrailers ==
    /\ rt.down = "open" /\ ~rt.endStream
    /\ rt' = rtOnRequestComplete([rt EXCEPT !.up.complete = TRUE])

\* The client goes away, or its connection is closed.
RtDestroyed ==
    /\ rt.down = "open"
    /\ rt' = rtOnDestroy(rt, "gone")

----------------------------------------------------------------------------
(***************************************************************************)
(* Events from upstream and timers.                                        *)
(***************************************************************************)

RtPoolReady(resets, allowed) ==
    /\ rt.up.st = "pending"
    /\ LET p == [rt EXCEPT !.up.st = "ready", !.up.host = TRUE]
       IN  rt' = IF resets THEN rtOnResetStream(p, "localReset", allowed) ELSE p

RtPoolFailure(allowed) ==
    /\ rt.up.st = "pending"
    /\ rt' = rtOnResetStream([rt EXCEPT !.up.host = TRUE], "connectionFailure", allowed)

RtUpstreamReset(reason, allowed) ==
    /\ rt.up.st = "ready" /\ reason \in RtReasons \ {"overflow"}
    /\ rt' = rtOnResetStream(rt, reason, allowed)

\* onUpstreamComplete() and the end of the downstream response.
rtUpstreamComplete(p) ==
    LET q == IF p.endStream THEN [p EXCEPT !.up.st = "closed"] ELSE rtResetStream(p)
    IN  rtOnDestroy(rtCleanup(q), "answered")

RtUpstreamHeaders(cause, endStream, allowed) ==
    /\ rt.up.st = "ready" /\ ~rt.started
    /\ LET p == IF endStream /\ rt.up.complete THEN [rt EXCEPT !.up.st = "closed"] ELSE rt
           answer == IF p.retry.on THEN rtShouldRetry(p, cause, allowed)
                     ELSE [state |-> p, yes |-> FALSE]
           q == [rtDropRetry(answer.state) EXCEPT !.started = TRUE]
       IN  rt' = IF answer.yes /\ p.endStream THEN rtSetupRetry(answer.state, endStream)
                 ELSE IF endStream THEN rtUpstreamComplete(q) ELSE q

\* The last data, or the trailers, of the response.
RtUpstreamEnds ==
    /\ rt.up.st = "ready" /\ rt.started
    /\ rt' = rtUpstreamComplete(rt)

RtResponseTimeout ==
    /\ rt.response
    /\ rt' = rtOnUpstreamReset(rtResetStream(rt), "GlobalTimeout", "localReset", TRUE)

RtPerTry(allowed) ==
    /\ rt.up.perTry
    /\ rt' = rtOnUpstreamReset(rtResetStream(rt), "PerTryTimeout", "localReset", allowed)

\* The retry timer: doRetry().
RtDoRetry(pool, allowed) ==
    /\ rt.retry.timer
    /\ LET p == [rt EXCEPT !.retry.timer = FALSE]
           q == rtNewUpstream(p, pool, p.buffer, TRUE, allowed)
       IN  rt' = IF q.up.st = "none" THEN q ELSE [q EXCEPT !.up.perTry = RtPerTryTimeout]

\* doRetry() finds no healthy host.
RtDoRetryNoHost ==
    /\ rt.retry.timer
    /\ rt' = rtCleanup(rtSendLocalReply(rt))

RtRetries == RtDoRetryNoHost \/ \E pool \in RtPoolAnswers, allowed \in BOOLEAN : RtDoRetry(pool, allowed)

RtNext ==
    \/ RtDecodeHeadersLocal \/ RtDecodeTrailers \/ RtDestroyed
    \/ RtUpstreamEnds \/ RtResponseTimeout \/ RtRetries
    \/ \E endStream \in BOOLEAN : RtDecodeData(endStream)
    \/ \E allowed \in BOOLEAN :
          \/ RtPoolFailure(allowed) \/ RtPerTry(allowed)
          \/ \E resets \in BOOLEAN : RtPoolReady(resets, allowed)
          \/ \E reason \in RtReasons : RtUpstreamReset(reason, allowed)
          \/ \E endStream \in BOOLEAN :
                \/ \E cause \in RtHeaders : RtUpstreamHeaders(cause, endStream, allowed)
                \/ \E shadow \in BOOLEAN, pool \in RtPoolAnswers :
                      RtDecodeHeaders(endStream, shadow, pool, allowed)

\* Timers fire; nothing is assumed of the upstream, the pool or the client.
RtSpec == RtInit /\ [][RtNext]_rt /\ WF_rt(RtResponseTimeout) /\ WF_rt(RtRetries)

----------------------------------------------------------------------------
(***************************************************************************)
(* Properties.                                                             *)
(***************************************************************************)

RtTypeOK ==
    /\ rt.down \in {"new", "open", "answered", "reset", "gone"}
    /\ rt.up.st \in {"none", "pending", "ready", "closed"}
    /\ rt.buffer \in 0..rt.chunks /\ rt.chunks \in 0..RtChunks
    /\ rt.retry.remaining \in 0..RtNumRetries

\* Nothing of the filter outlives its stream: no timer, no upstream request,
\* no share of the retry circuit breaker; and no upstream request is destroyed
\* while the pool or the codec still has a pointer to it.
RtNothingOutlives ==
    /\ ~rt.dangling
    /\ rt.down \notin {"new", "open"} =>
          ~rt.response /\ ~rt.retry.timer /\ rt.up = NoUpstream /\ rt.retries = 0

\* The share of the circuit breaker is the pending retry, the retry timer never
\* fires without a callback, and it never runs beside an upstream request.
RtRetrySound ==
    /\ rt.retries = (IF rt.retry.callback THEN 1 ELSE 0)
    /\ rt.retry.timer => rt.retry.callback /\ rt.up.st = "none" /\ ~rt.started
    /\ rt.attempts <= 1 + RtNumRetries

\* Every attempt is given the whole of what has arrived: a retry too, however
\* the body outgrew the buffer before it.
RtWholeRequest ==
    rt.up.st # "none" => rt.up.got = rt.chunks /\ (rt.up.complete <=> rt.endStream)

\* All of this, whatever the order of the events of both sides and the timers.
RtSound == RtTypeOK /\ RtNothingOutlives /\ RtRetrySound /\ RtWholeRequest

\* A complete request is answered, reset or abandoned by its client, whatever
\* the upstream does and however often it is retried, because the response
\* timer spans all attempts.
RtDecided == (rt.endStream /\ RtGlobalTimeout) ~> rt.down \notin {"new", "open"}

\* include/envoy/router/shadow_writer.h:24, "supplies the complete request to
\* shadow": a shadow has every piece of the body.
RtShadowWhole == rt.shadowed > 0 => rt.shadowed = 1 + rt.chunks

\* router.cc:426-427, "It's possible to timeout during a retry backoff delay
\* when we have no upstream request. In this case we fake a reset since
\* onUpstreamReset() doesn't care.": a timeout never dereferences a host that
\* was not chosen yet.
RtHostKnown == ~rt.crashed
=============================================================================
