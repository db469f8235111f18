--------------------------- MODULE RateLimitFilter ---------------------------
(***************************************************************************)
(* One downstream request in an Envoy worker: the HTTP rate limit filter   *)
(* (common/http/filter/ratelimit.cc), the gRPC client it calls the rate    *)
(* limit service with (common/ratelimit/ratelimit_impl.cc on top of        *)
(* common/grpc/async_client_impl.h), and the part of the connection        *)
(* manager that runs the decoder filters [rate limit, router] over the     *)
(* request (common/http/conn_manager_impl.cc).                             *)
(*                                                                         *)
(* A worker is one thread, so a callback runs to its end before the next   *)
(* event; but callbacks nest: a reply of the rate limit service completes  *)
(* the filter, which resumes the filter chain, whose router may answer the *)
(* client and so destroy the stream the filter belongs to, all before the  *)
(* gRPC client gets control back.  Every operator below takes the whole    *)
(* worker state w and returns the state after the call it is named for,    *)
(* and an action is an event of the dispatcher.                            *)
(***************************************************************************)
EXTENDS Integers, FiniteSets

CONSTANTS Requests,      \* what a request's headers and route can be
          RequestType,   \* config_->requestType()
          Stage,         \* config_->stage()
          Protocols,     \* the downstream protocols, a subset of {"http1","http2"}
          TimeoutMs,     \* timeout_ms of the filter, 0 arms no timer
          BufferLimit,   \* high watermark of the request buffer, in chunks
          MaxChunks      \* bound: body chunks a client sends

ASSUME FilterAssumption ==
  /\ RequestType \in {"internal", "external", "both"}
  /\ Protocols \subseteq {"http1", "http2"}
  /\ TimeoutMs \in Nat /\ BufferLimit \in Nat /\ MaxChunks \in Nat /\ Stage \in Nat

VARIABLES
  protocol,  \* of the downstream connection
  stream,    \* ActiveStream and its wrapper of the rate limit filter
  filter,    \* Http::RateLimit::Filter
  call,      \* GrpcClientImpl with its AsyncRequestImpl
  router,    \* what the router filter has been given
  failed     \* ASSERTs that did not hold and null pointers that were used

vars == <<protocol, stream, filter, call, router, failed>>

World == [stream |-> stream, filter |-> filter, call |-> call,
          router |-> router, failed |-> failed]

Becomes(w) == /\ stream' = w.stream
              /\ filter' = w.filter
              /\ call' = w.call
              /\ router' = w.router
              /\ failed' = w.failed
              /\ UNCHANGED protocol

Assert(w, holds, name) ==
  IF holds THEN w ELSE [w EXCEPT !.failed = @ \cup {name}]

Init ==
  /\ protocol \in Protocols
  /\ stream = [state |-> "none", remoteComplete |-> FALSE, localComplete |-> FALSE,
               stopped |-> FALSE, headersContinued |-> FALSE,
               received |-> 0, trailers |-> FALSE,
               hasBuffer |-> FALSE, buffered |-> 0, above |-> FALSE,
               paused |-> 0, closing |-> FALSE, response |-> "none"]
  /\ filter = [state |-> "NotStarted", initiating |-> FALSE,
               ok |-> 0, error |-> 0, overLimit |-> 0]
  /\ call = [callbacks |-> FALSE, request |-> FALSE, listed |-> FALSE,
             localClosed |-> FALSE, remoteClosed |-> FALSE, httpReset |-> FALSE,
             response |-> "none", http |-> "idle"]
  /\ router = [headers |-> 0, bytes |-> 0, trailers |-> 0, ended |-> FALSE]
  /\ failed = {}

-----------------------------------------------------------------------------
(* Grpc::AsyncStreamImpl: the end of a stream.                             *)

\* cleanup(): the HTTP stream is reset once.  http_reset_ is set before
\* stream_->reset(), so the onReset() that this raises returns at once.
cleanup(w) ==
  [w EXCEPT !.call = [@ EXCEPT !.httpReset = TRUE, !.http = "closed", !.listed = FALSE]]

resetStream(w) ==
  cleanup([w EXCEPT !.call = [@ EXCEPT !.localClosed = TRUE, !.remoteClosed = TRUE]])

\* AsyncRequestImpl::cancel() by GrpcClientImpl::cancel().
clientCancel(w) ==
  LET w1 == Assert(w, w.call.callbacks /\ w.call.request, "cancel")
  IN  [resetStream(w1) EXCEPT !.call.callbacks = FALSE]

-----------------------------------------------------------------------------
(* The end of the downstream stream.                                       *)

\* Mutant: a destroyed stream forgets the call it has in flight.
onDestroyKeepsCall(w) ==
  IF w.filter.state = "Calling" THEN [w EXCEPT !.filter.state = "Complete"] ELSE w

\* Filter::onDestroy().
onDestroy(w) ==
  IF w.filter.state = "Calling"
  THEN clientCancel([w EXCEPT !.filter.state = "Complete"])
  ELSE w

doDeferredStreamDestroy(w) == onDestroy([w EXCEPT !.stream.state = "destroyed"])

\* Mutant: reading is not enabled again when a stream ends.
unwindReadDisableNever(w) == w

\* The loop on readDisable(false) at the end of doEndStream(): an HTTP/1
\* connection that stays open must read its next request.
unwindReadDisable(w) ==
  IF protocol = "http1" /\ ~w.stream.closing
  THEN [w EXCEPT !.stream.paused = 0]
  ELSE w

\* doEndStream(): a stream that one side has not completed is reset, which
\* destroys it through onResetStream(); an HTTP/1 connection then closes.
doEndStream(w) ==
  LET reset == ~w.stream.remoteComplete \/ ~w.stream.localComplete
      w1 == doDeferredStreamDestroy([w EXCEPT !.stream.localComplete = TRUE])
  IN  unwindReadDisable(
        [w1 EXCEPT !.stream.closing = @ \/ (reset /\ protocol = "http1")])

answered(s, code) ==
  [s EXCEPT !.localComplete = TRUE, !.response = code,
            !.closing = @ \/ (protocol = "http1" /\ ~s.remoteComplete)]

\* ActiveStream::encodeHeaders() of a response that ends the stream.
encodeResponse(w, code) ==
  LET w1 == Assert(w, ~w.stream.localComplete, "commonEncodePrefix")
  IN  doEndStream([w1 EXCEPT !.stream = answered(@, code)])

-----------------------------------------------------------------------------
(* The filter chain after the rate limit filter: the router.               *)

withHeaders(r, end) == [r EXCEPT !.headers = @ + 1, !.ended = end]
withData(r, bytes, end) == [r EXCEPT !.bytes = @ + bytes, !.ended = end]
withTrailers(r) == [r EXCEPT !.trailers = @ + 1, !.ended = TRUE]

\* The router may answer from decodeHeaders() (no route, no healthy host).
routerDecodeHeaders(w, end, replies) ==
  LET w1 == [w EXCEPT !.router = withHeaders(@, end)]
  IN  IF replies THEN encodeResponse(w1, "local") ELSE w1

\* UpstreamRequest::encodeData() takes the bytes out of the buffer.
routerDecodeData(w, bytes, end) ==
  LET w1 == Assert(w, ~w.router.ended, "encodeData")
  IN  [w1 EXCEPT !.router = withData(@, bytes, end)]

drained(s) ==
  [s EXCEPT !.buffered = 0, !.above = FALSE, !.paused = @ - (IF s.above THEN 1 ELSE 0)]

\* Moving the bytes out of the request buffer raises requestDataDrained().
drainBuffer(w) ==
  LET w1 == Assert(w, w.stream.above => w.stream.paused > 0, "readDisable")
  IN  [w1 EXCEPT !.stream = drained(@)]

\* commonHandleBufferData() with requestDataTooLarge() of a streaming filter.
filled(s, bytes) ==
  LET size == s.buffered + bytes
      over == ~s.above /\ size > BufferLimit
  IN  [s EXCEPT !.hasBuffer = TRUE, !.buffered = size, !.above = @ \/ over,
                !.paused = @ + (IF over THEN 1 ELSE 0)]

commonHandleBufferData(w, bytes) == [w EXCEPT !.stream = filled(@, bytes)]

\* Mutant: buffered data is handed on after the response is complete.
decodeBufferedDataAlways(w, end) ==
  drainBuffer(routerDecodeData(w, w.stream.buffered, end))

\* Mutant: the body that arrived during the call is not replayed.
decodeBufferedDataDropped(w, end) == w

\* decodeData(filter, ...) of the buffered data drops it after a response.
decodeBufferedData(w, end) ==
  IF w.stream.localComplete THEN w
  ELSE drainBuffer(routerDecodeData(w, w.stream.buffered, end))

\* decodeTrailers(filter, ...).
decodeTrailers(w) ==
  IF w.stream.localComplete THEN w
  ELSE LET w1 == Assert(w, ~w.router.ended, "encodeTrailers")
       IN  [w1 EXCEPT !.router = withTrailers(@)]

\* doHeaders(complete() && !bufferedData() && !trailers()).
headersEndStream(s) == s.remoteComplete /\ ~s.hasBuffer /\ ~s.trailers

\* commonContinue(): replay headers, buffered data and trailers downstream
\* of the filter.
commonContinue(w, replies) ==
  LET w0 == [Assert(w, w.stream.stopped, "commonContinue") EXCEPT !.stream.stopped = FALSE]
      w1 == IF w0.stream.headersContinued THEN w0
            ELSE routerDecodeHeaders([w0 EXCEPT !.stream.headersContinued = TRUE],
                                     headersEndStream(w0.stream), replies)
      w2 == IF w1.stream.hasBuffer
            THEN decodeBufferedData(w1, w1.stream.remoteComplete /\ ~w1.stream.trailers)
            ELSE w1
  IN  IF w2.stream.trailers THEN decodeTrailers(w2) ELSE w2

-----------------------------------------------------------------------------
(* Http::RateLimit::Filter and its client.                                 *)

\* Mutant: the chain is resumed by a failure that decodeHeaders() waits for.
completeAlwaysContinues(w, status, enforcing, replies) ==
  commonContinue([w EXCEPT !.filter.state = "Complete", !.filter.error = @ + 1], replies)

\* Mutant: only a verdict resumes the chain, an error of the service does not.
completeDropsErrors(w, status, enforcing, replies) ==
  LET w1 == [w EXCEPT !.filter.state = "Complete"]
  IN  IF status = "OverLimit" /\ enforcing
        THEN encodeResponse([w1 EXCEPT !.filter.state = "Responded"], "429")
      ELSE IF ~w.filter.initiating /\ status # "Error" THEN commonContinue(w1, replies)
      ELSE w1

charged(f, status) ==
  [f EXCEPT !.state = "Complete",
            !.ok = @ + (IF status = "OK" THEN 1 ELSE 0),
            !.error = @ + (IF status = "Error" THEN 1 ELSE 0),
            !.overLimit = @ + (IF status = "OverLimit" THEN 1 ELSE 0)]

\* Filter::complete(): charge the verdict; answer 429, or resume the chain
\* unless decodeHeaders() is still on the stack and will return Continue.
complete(w, status, enforcing, replies) ==
  LET w1 == [w EXCEPT !.filter = charged(@, status)]
  IN  IF status = "OverLimit" /\ enforcing
        THEN encodeResponse([w1 EXCEPT !.filter.state = "Responded"], "429")
      ELSE IF ~w.filter.initiating THEN commonContinue(w1, replies)
      ELSE w1

\* GrpcClientImpl::onSuccess() and onFailure(): callbacks_ is cleared after
\* complete() returns.
clientComplete(w, status, enforcing, replies) ==
  LET w1 == Assert(w, w.call.callbacks, "callbacks_")
  IN  [complete(w1, status, enforcing, replies) EXCEPT !.call.callbacks = FALSE]

\* AsyncRequestImpl::onRemoteClose(): a close without a message is a failure.
onRemoteClose(w, grpcStatus, enforcing, replies) ==
  LET status == IF grpcStatus # "ok" \/ w.call.response = "none" THEN "Error"
                ELSE IF w.call.response = "OVER_LIMIT" THEN "OverLimit" ELSE "OK"
      w1 == IF status = "Error" THEN w ELSE [w EXCEPT !.call.response = "none"]
  IN  clientComplete(w1, status, enforcing, replies)

\* AsyncStreamImpl::streamError().
streamError(w, replies) == resetStream(onRemoteClose(w, "error", FALSE, replies))

\* AsyncStreamImpl::onTrailers(), where the status may be missing or bad.
onTrailers(w, grpcStatus, enforcing, replies) ==
  LET w1 == Assert(w, ~w.call.remoteClosed, "onTrailers")
  IN  IF grpcStatus # "ok" THEN streamError(w1, replies)
      ELSE LET w2 == [onRemoteClose(w1, "ok", enforcing, replies)
                        EXCEPT !.call.remoteClosed = TRUE]
           IN  IF w2.call.localClosed THEN cleanup(w2) ELSE w2

\* AsyncRequestImpl::initialize(): when the async client's router has no host
\* or no capacity, its local reply fails the call inside sendHeaders().
initialize(w, fails) ==
  LET w1 == [w EXCEPT !.call.http = "open"]
  IN  IF fails THEN streamError(w1, FALSE) ELSE [w1 EXCEPT !.call.localClosed = TRUE]

\* GrpcClientImpl::limit() with AsyncClientImpl::send(), which returns null
\* for a call that has failed already.
limit(w, fails) ==
  LET w1 == Assert(w, ~w.call.callbacks, "limit")
      w2 == initialize([w1 EXCEPT !.call.callbacks = TRUE], fails)
      sent == ~w2.call.httpReset
  IN  [w2 EXCEPT !.call = [@ EXCEPT !.request = sent, !.listed = sent]]

\* populateRateLimitDescriptors(): the enabled entries of the filter's stage.
populateRateLimitDescriptors(policy) ==
  {p \in policy : p.stage = Stage /\ p.enabled /\ p.populates}

TypeMismatch(r) == \/ r.internal /\ RequestType = "external"
                   \/ ~r.internal /\ RequestType = "internal"

Descriptors(r) ==
  populateRateLimitDescriptors(r.policy)
    \cup (IF r.includeVirtualHost THEN populateRateLimitDescriptors(r.vhPolicy) ELSE {})

\* Filter::initiateCall() with its early returns.
initiateCall(w, r, fails) ==
  IF TypeMismatch(r) \/ ~r.routeEntry \/ ~r.cluster \/ Descriptors(r) = {}
  THEN w
  ELSE LET w1 == limit([w EXCEPT !.filter = [@ EXCEPT !.state = "Calling", !.initiating = TRUE]],
                       fails)
       IN  [w1 EXCEPT !.filter.initiating = FALSE]

-----------------------------------------------------------------------------
(* Events of the downstream connection.                                    *)

\* Mutant: the chain is stopped by a response only.
stopsIterationResponded(state) == state = "Responded"

\* Filter::decodeHeaders() returns StopIteration.
stopsIteration(state) == state \in {"Calling", "Responded"}

\* The end of ConnectionManagerImpl::onData(): an HTTP/1 connection whose
\* request is complete reads no further until it is answered.
afterDispatch(w) ==
  IF protocol = "http1" /\ w.stream.state = "open" /\ w.stream.remoteComplete
  THEN [w EXCEPT !.stream.paused = @ + 1]
  ELSE w

\* ActiveStream::decodeHeaders() through both filters.  The router answers
\* itself when the request has no route or no cluster.
DecodeHeaders ==
  /\ stream.state = "none"
  /\ \E r \in Requests, end \in BOOLEAN, enabled \in BOOLEAN,
        fails \in BOOLEAN, replies \in BOOLEAN :
       /\ ~r.routeEntry \/ ~r.cluster => replies
       /\ LET w0 == [World EXCEPT !.stream = [stream EXCEPT !.state = "open", !.remoteComplete = end]]
              w1 == IF enabled THEN initiateCall(w0, r, fails) ELSE w0
              stop == stopsIteration(w1.filter.state)
              w2 == Assert(w1, ~w1.stream.headersContinued /\ ~w1.stream.stopped,
                           "commonHandleAfterHeadersCallback")
              w3 == IF stop THEN [w2 EXCEPT !.stream.stopped = TRUE]
                    ELSE routerDecodeHeaders([w2 EXCEPT !.stream.headersContinued = TRUE],
                                             end, replies)
          IN  Becomes(afterDispatch(w3))

\* ActiveStream::decodeData(): a chunk, possibly an empty last one.
DecodeData ==
  /\ stream.state = "open" /\ ~stream.remoteComplete
  /\ \E bytes \in {0, 1}, end \in BOOLEAN, replies \in BOOLEAN :
       /\ stream.received + bytes <= MaxChunks
       /\ bytes = 0 => end
       /\ LET w0 == [World EXCEPT !.stream = [stream EXCEPT !.remoteComplete = end, !.received = stream.received + bytes]]
              w1 == Assert(w0, filter.state # "Responded", "decodeData")
              w2 == IF stream.localComplete THEN w0
                    ELSE IF filter.state = "Calling"
                      THEN commonHandleBufferData([w1 EXCEPT !.stream.stopped = TRUE], bytes)
                    ELSE IF stream.stopped
                      THEN commonContinue(commonHandleBufferData(w1, bytes), replies)
                    ELSE routerDecodeData(w1, bytes, end)
          IN  Becomes(afterDispatch(w2))

\* ActiveStream::decodeTrailers().
DecodeTrailers ==
  /\ stream.state = "open" /\ ~stream.remoteComplete
  /\ LET w0 == [World EXCEPT !.stream = [stream EXCEPT !.remoteComplete = TRUE, !.trailers = TRUE]]
         w1 == Assert(w0, filter.state # "Responded", "decodeTrailers")
     IN  \/ /\ filter.state = "Calling" \/ stream.localComplete
            /\ Becomes(afterDispatch(IF stream.localComplete THEN w0 ELSE w1))
         \/ /\ filter.state # "Calling" /\ ~stream.localComplete
            /\ \E replies \in BOOLEAN :
                 Becomes(afterDispatch(IF stream.stopped THEN commonContinue(w1, replies)
                                       ELSE decodeTrailers(w1)))

\* ActiveStream::onResetStream(): the client resets or disconnects.
OnResetStream ==
  /\ stream.state = "open"
  /\ Becomes(doDeferredStreamDestroy(World))

\* The router has the whole response of the upstream.
UpstreamResponse ==
  /\ stream.state = "open" /\ router.headers > 0 /\ ~stream.localComplete
  /\ Becomes(encodeResponse(World, "upstream"))

\* The dispatcher deletes the stream with its filters: ~GrpcClientImpl()
\* asserts !callbacks_ and ~AsyncClientImpl() resets what is still active.
DeferredDelete ==
  /\ stream.state = "destroyed"
  /\ LET w == Assert([World EXCEPT !.stream.state = "deleted"], ~call.callbacks,
                     "~GrpcClientImpl")
     IN  Becomes(IF call.listed THEN resetStream(w) ELSE w)

-----------------------------------------------------------------------------
(* Events of the call to the rate limit service.                           *)

\* The HTTP stream of the call can still raise events.
CallOpen == call.listed /\ call.http \in {"open", "started"}

\* AsyncStreamImpl::onHeaders(): a status other than 200 is an error unless
\* the headers carry a gRPC status.
GrpcOnHeaders ==
  /\ CallOpen /\ call.http = "open"
  /\ \E is200 \in BOOLEAN, end \in BOOLEAN, grpcStatus \in {"none", "ok", "error"},
        enforcing \in BOOLEAN, replies \in BOOLEAN :
       LET w == Assert(World, ~call.remoteClosed, "onHeaders")
       IN  Becomes(IF end /\ (is200 \/ grpcStatus # "none")
                     THEN onTrailers(w, grpcStatus, enforcing, replies)
                   ELSE IF is200 THEN [w EXCEPT !.call.http = "started"]
                   ELSE streamError(w, replies))

\* AsyncStreamImpl::onData(): messages, or bytes that are not one.
GrpcOnData ==
  /\ CallOpen /\ call.http = "started"
  /\ LET w == Assert(World, ~call.remoteClosed, "onData")
     IN  \/ \E m \in {"OK", "OVER_LIMIT"} : Becomes([w EXCEPT !.call.response = m])
         \/ \E replies \in BOOLEAN : Becomes(streamError(w, replies))

GrpcOnTrailers ==
  /\ CallOpen /\ call.http = "started"
  /\ \E grpcStatus \in {"none", "ok", "error"}, enforcing \in BOOLEAN, replies \in BOOLEAN :
       Becomes(onTrailers(World, grpcStatus, enforcing, replies))

\* AsyncStreamImpl::onReset(): the connection to the service is lost.
onReset(w, replies) ==
  IF w.call.httpReset THEN w
  ELSE streamError([w EXCEPT !.call.httpReset = TRUE], replies)

GrpcOnReset ==
  /\ CallOpen
  /\ \E replies \in BOOLEAN : Becomes(onReset(World, replies))

\* Router::Filter::onResponseTimeout() of the call: a local 504 if no
\* response has started, a reset otherwise.
ResponseTimeout ==
  /\ CallOpen /\ TimeoutMs > 0
  /\ \E replies \in BOOLEAN :
       Becomes(IF call.http = "open" THEN streamError(World, replies)
               ELSE onReset(World, replies))

\* The stream is deleted and the worker has nothing left to do for it.
Done == stream.state = "deleted" /\ UNCHANGED vars

Next ==
  \/ DecodeHeaders \/ DecodeData \/ DecodeTrailers \/ OnResetStream
  \/ UpstreamResponse \/ DeferredDelete
  \/ GrpcOnHeaders \/ GrpcOnData \/ GrpcOnTrailers \/ GrpcOnReset \/ ResponseTimeout
  \/ Done

\* The dispatcher runs its deferred deletions, and a timer that is armed fires.
Fairness == WF_vars(ResponseTimeout) /\ WF_vars(DeferredDelete)

Spec == Init /\ [][Next]_vars /\ Fairness

-----------------------------------------------------------------------------
(* Properties.                                                             *)

StreamType ==
  [state : {"none", "open", "destroyed", "deleted"},
   remoteComplete : BOOLEAN, localComplete : BOOLEAN, stopped : BOOLEAN, headersContinued : BOOLEAN,
   received : 0 .. MaxChunks, trailers : BOOLEAN, hasBuffer : BOOLEAN, buffered : 0 .. MaxChunks,
   above : BOOLEAN, paused : 0 .. 2, closing : BOOLEAN, response : {"none", "429", "local", "upstream"}]

FilterType ==
  [state : {"NotStarted", "Calling", "Complete", "Responded"}, initiating : BOOLEAN,
   ok : 0 .. 1, error : 0 .. 1, overLimit : 0 .. 1]

CallType ==
  [callbacks : BOOLEAN, request : BOOLEAN, listed : BOOLEAN, localClosed : BOOLEAN,
   remoteClosed : BOOLEAN, httpReset : BOOLEAN, response : {"none", "OK", "OVER_LIMIT"},
   http : {"idle", "open", "started", "closed"}]

RouterType == [headers : 0 .. 1, bytes : 0 .. MaxChunks, trailers : 0 .. 1, ended : BOOLEAN]

\* The fields of the worker state keep their types; no counter goes negative
\* and none of the verdicts is charged twice.
TypeOK ==
  /\ protocol \in Protocols
  /\ stream \in StreamType /\ filter \in FilterType /\ call \in CallType /\ router \in RouterType

\* A stream that is gone has no call that could still complete its filter.
NoCallOutlivesStream ==
  stream.state \in {"destroyed", "deleted"} =>
    ~call.callbacks /\ ~call.listed /\ call.http \in {"idle", "closed"}

\* Whatever the order of the client's, the service's and the upstream's
\* events, no ASSERT of the filter, the gRPC client or the filter chain fails
\* and no null callbacks_ or request_ is used, not even when complete()
\* destroys the stream it was called from; no verdict is charged twice, and no
\* call outlives its stream.
NoAssertFails == TypeOK /\ failed = {} /\ NoCallOutlivesStream

Verdicts == filter.ok + filter.error + filter.overLimit

\* "This filter calls the global rate limiting service before allowing
\* further filter iteration": the router never sees a request whose call is
\* still running or was answered with 429, and a request it does see was
\* judged exactly once if it was to be judged at all.
HeldUntilJudged ==
  /\ router.headers > 0 =>
       /\ filter.state \in {"NotStarted", "Complete"}
       /\ Verdicts = (IF filter.state = "NotStarted" THEN 0 ELSE 1)
  /\ stream.response = "429" => router.headers = 0 /\ filter.overLimit = 1

\* A request that is past the filter reaches the router unabridged: the
\* bytes, the trailers and the end of the stream that the client has sent are
\* the ones the router was given, however they interleaved with the call.
NothingLost ==
  stream.state = "open" /\ filter.state # "Calling" =>
    /\ router.headers = 1
    /\ router.bytes = stream.received
    /\ router.ended = stream.remoteComplete
    /\ router.trailers = (IF stream.trailers THEN 1 ELSE 0)

\* Back pressure is released: reading is paused only while the filter holds
\* the request or, on HTTP/1, while the complete request waits for its
\* response, and a connection that stays open reads its next request.
ReadingResumes ==
  /\ stream.state = "open" /\ stream.paused > 0 =>
       filter.state = "Calling" \/ (protocol = "http1" /\ stream.remoteComplete)
  /\ stream.response # "none" /\ protocol = "http1" /\ ~stream.closing => stream.paused = 0

\* Every request is eventually passed on, answered or gone: the timeout of
\* the call bounds how long a rate limit service that is stuck can hold it.
EventuallyDecided ==
  stream.state = "open" ~> (router.headers > 0 \/ stream.state # "open")
=============================================================================
