---------------------------- MODULE FlowControl ----------------------------
(* Watermark flow control of an HTTP request through the connection manager *)
(* and the router (source/docs/flow_control.md): a buffer that is above its *)
(* high watermark stops the reading of what fills it, by callbacks that are *)
(* counted, and each count must be taken back once.  One downstream         *)
(* connection whose streams begin one after the other, and one upstream     *)
(* connection that is used again.  Of a buffer only whether it is above its *)
(* watermark is kept.                                                       *)
EXTENDS Integers

CONSTANTS FwMaxStreams,  \* bound: streams on the downstream connection
          FwMaxRetries   \* num_retries_ of the route

ASSUME FwConstants == FwMaxStreams \in Nat \ {0} /\ FwMaxRetries \in Nat

VARIABLE fw

FwProtocols == {"Http1", "Http2"}

\* down, up: the protocols; conn, send: the downstream connection and the
\* stream are above; encode, decode: so are the buffers of the filters;
\* helper: high_watermark_callbacks_ of the response encoder; count:
\* high_watermark_count_; req: the UpstreamRequest; body: its
\* buffered_request_body_ is above; uConn .. uHelper: the same of the upstream
\* connection; uEnded: local_end_stream_; listener: who is in the callbacks_ of
\* the request encoder; downRead, upRead: how often reading is disabled.
\* The rest is history: asserts that failed, calls of what is gone, what was
\* above when a stream began.
FwInit ==
    \E down \in FwProtocols, up \in FwProtocols :
        fw = [down |-> down, up |-> up, conn |-> FALSE, closed |-> FALSE, streams |-> 0,
              open |-> FALSE, complete |-> FALSE, send |-> FALSE, encode |-> FALSE, decode |-> FALSE,
              helper |-> 0, count |-> 0, req |-> "none", retries |-> 0, body |-> FALSE,
              uConn |-> FALSE, uSend |-> FALSE, uHelper |-> 0, uEnded |-> FALSE, listener |-> "none",
              downRead |-> 0, upRead |-> 0,
              asserts |-> {}, late |-> FALSE, begunAbove |-> FALSE, uBegunAbove |-> FALSE]

fwCheck(p, holds, name) == [p EXCEPT !.asserts = IF holds THEN @ ELSE @ \cup {name}]

-----------------------------------------------------------------------------
\* readDisable(false) of either protocol asserts that reading is disabled; a
\* connection is then enabled as it was, the count of a stream wraps.
fwLess(n, protocol) == IF n = 0 /\ protocol = "Http1" THEN 0 ELSE n - 1

fwReadDown(p, disable) ==
    IF disable THEN [p EXCEPT !.downRead = @ + 1]
    ELSE fwCheck([p EXCEPT !.downRead = fwLess(@, p.down)], p.downRead # 0, "downRead")

fwReadUp(p, disable) ==
    IF disable THEN [p EXCEPT !.upRead = @ + 1]
    ELSE fwCheck([p EXCEPT !.upRead = fwLess(@, p.up)], p.upRead # 0, "upRead")

\* DownstreamWatermarkManager is subscribed while there is a request encoder.
fwCallHigh(p) ==
    LET q == [p EXCEPT !.count = @ + 1] IN IF p.req = "on" THEN fwReadUp(q, TRUE) ELSE q

\* Mutant: the reading that was stopped is not resumed.
fwCallLowCounts(p) == fwCheck([p EXCEPT !.count = @ - 1], p.count > 0, "count")

fwCallLow(p) ==
    LET q == fwCheck([p EXCEPT !.count = @ - 1], p.count > 0, "count")
    IN IF p.req = "on" THEN fwReadUp(q, FALSE) ELSE q

\* StreamCallbackHelper of the response encoder, with the ActiveStream in it.
fwRunHigh(p) == fwCallHigh([p EXCEPT !.helper = @ + 1])
fwRunLow(p) == fwCallLow(fwCheck([p EXCEPT !.helper = @ - 1], p.helper > 0, "helper"))

\* Mutant: the callbacks of a stream that has ended still run.
fwUpRunLowEnded(p) ==
    LET q == fwCheck([p EXCEPT !.uHelper = @ - 1], p.uHelper > 0, "uHelper")
    IN IF p.listener = "live" THEN fwReadDown(q, FALSE) ELSE q

\* That of the request encoder, with the UpstreamRequest in it.
fwUpRunHigh(p) ==
    IF p.uEnded THEN p
    ELSE LET q == [p EXCEPT !.uHelper = @ + 1, !.late = @ \/ p.listener = "gone"]
         IN IF p.listener = "live" THEN fwReadDown(q, TRUE) ELSE q

fwUpRunLow(p) ==
    IF p.uEnded THEN p
    ELSE LET q == fwCheck([p EXCEPT !.uHelper = @ - 1, !.late = @ \/ p.listener = "gone"],
                          p.uHelper > 0, "uHelper")
         IN IF p.listener = "live" THEN fwReadDown(q, FALSE) ELSE q

-----------------------------------------------------------------------------
\* A stream begins: the HTTP/2 codec tells it that the connection is above,
\* addCallbacks_() repeats that to the ActiveStream, and so does newStream().
\* The router then asks its pool for an upstream stream.
FwNewStream ==
    /\ ~fw.open /\ ~fw.closed /\ fw.streams < FwMaxStreams
    /\ LET begun == [fw EXCEPT !.open = TRUE, !.streams = @ + 1, !.complete = FALSE, !.count = 0,
                               !.send = FALSE, !.encode = FALSE, !.decode = FALSE, !.req = "waiting",
                               !.retries = 0, !.body = FALSE, !.helper = 0, !.downRead = IF fw.down = "Http2" THEN 0 ELSE @,
                               !.begunAbove = fw.conn]
           told == IF fw.conn /\ fw.down = "Http2" THEN fwRunHigh(begun) ELSE begun
       IN fw' = IF fw.conn THEN fwCallHigh(told) ELSE told

\* Mutant: what was above before the encoder was there is not repeated.
fwReplayForgets(p) == p

\* addDownstreamWatermarkCallbacks()
fwReplay(p) == [p EXCEPT !.upRead = @ + p.count]

\* newStream() of the upstream codecs: HTTP/2 tells the stream that the
\* connection is above; HTTP/1 only undoes what its last stream did to reading.
fwHttp2Stream(p) == [p EXCEPT !.uHelper = IF p.uConn THEN 1 ELSE 0, !.upRead = 0]
fwHttp1Stream(p) == [p EXCEPT !.uHelper = 0, !.upRead = 0]

\* onPoolReady(): the callbacks, the encoder, and the body that was buffered,
\* which drains.
FwPoolReady ==
    /\ fw.req = "waiting"
    /\ LET p == [fw EXCEPT !.req = "on", !.uSend = FALSE, !.uEnded = FALSE, !.listener = "live",
                           !.uBegunAbove = fw.uConn]
           q == IF fw.up = "Http2" THEN fwHttp2Stream(p) ELSE fwHttp1Stream(p)
           r == fwReplay(IF q.uHelper > 0 THEN fwReadDown(q, TRUE) ELSE q)
           s == IF fw.body THEN fwReadDown([r EXCEPT !.body = FALSE], FALSE) ELSE r
       IN fw' = [s EXCEPT !.uEnded = fw.complete /\ fw.up = "Http2"]

\* Request data, or what a retry repeats of it: while the pool is asked it is
\* buffered, and stops reading above the watermark.
FwDecodeData ==
    /\ fw.open /\ (~fw.complete \/ fw.retries > 0) /\ fw.req = "waiting" /\ ~fw.body
    /\ fw' = fwReadDown([fw EXCEPT !.body = TRUE], TRUE)

\* The end of the request; onData() of HTTP/1 stops reading behind it.
FwRequestEnds ==
    /\ fw.open /\ ~fw.complete
    /\ LET p == [fw EXCEPT !.complete = TRUE, !.uEnded = @ \/ (fw.req = "on" /\ fw.up = "Http2")]
       IN fw' = IF fw.down = "Http1" THEN fwReadDown(p, TRUE) ELSE p

-----------------------------------------------------------------------------
\* onUnderlyingConnectionAboveWriteBufferHighWatermark() and ..Below..LowWatermark()
\* of the codec of the downstream connection.
FwDownConnection ==
    /\ ~fw.closed
    /\ LET p == [fw EXCEPT !.conn = ~@]
       IN \/ ~fw.conn /\ fw.open /\ fw' = fwRunHigh(p)
          \/ fw.conn /\ fw' = IF fw.open THEN fwRunLow(p) ELSE p

FwUpConnection ==
    LET p == [fw EXCEPT !.uConn = ~@]
    IN \/ ~fw.uConn /\ fw.req = "on" /\ fw' = fwUpRunHigh(p)
       \/ fw.uConn /\ fw' = fwUpRunLow(p)

\* pendingSendBufferHighWatermark(), pendingSendBufferLowWatermark() of HTTP/2
FwDownSend ==
    /\ fw.open /\ fw.down = "Http2"
    /\ fw' = LET p == [fw EXCEPT !.send = ~@] IN IF fw.send THEN fwRunLow(p) ELSE fwRunHigh(p)

FwUpSend ==
    /\ fw.req = "on" /\ fw.up = "Http2"
    /\ fw' = LET p == [fw EXCEPT !.uSend = ~@] IN IF fw.uSend THEN fwUpRunLow(p) ELSE fwUpRunHigh(p)

-----------------------------------------------------------------------------
\* The upstream stream is over.  HTTP/1 keeps its encoder, and whoever is in its
\* callbacks, until the next stream; if it is reset its connection closes.
fwUpstreamOver(p, reset) ==
    LET q == [p EXCEPT !.req = "none", !.body = FALSE, !.uSend = FALSE]
    IN IF p.up = "Http2" THEN [q EXCEPT !.listener = "none", !.uEnded = TRUE, !.upRead = 0]
       ELSE IF p.req = "on" /\ reset
            THEN [q EXCEPT !.listener = "none", !.uConn = FALSE, !.uHelper = 0, !.upRead = 0]
       ELSE [q EXCEPT !.listener = IF p.req = "on" THEN "gone" ELSE @]

\* Mutant: the next request finds the connection as this one leaves it.
fwEndStreamStays(p) ==
    [fwUpstreamOver(p, ~p.complete) EXCEPT !.open = FALSE, !.closed = ~p.complete /\ p.down = "Http1"]

\* doEndStream(): a request that is not complete is reset, which ends an HTTP/1
\* connection; otherwise the reading of that is resumed.
fwEndStream(p) ==
    LET q == fwUpstreamOver(p, TRUE)
        closes == ~p.complete /\ p.down = "Http1"
    IN [q EXCEPT !.open = FALSE, !.closed = closes, !.downRead = IF closes THEN @ ELSE 0]

\* The response is complete: onUpstreamComplete() resets an upstream request
\* that is not.
FwResponseEnds ==
    /\ fw.open /\ fw.req = "on" /\ ~fw.encode
    /\ fw' = fwEndStream(fwUpstreamOver(fw, ~fw.complete))

\* onUpstreamReset(): a request that is complete may be sent again, any other
\* is answered by the router.
fwReset ==
    \/ /\ fw.complete /\ fw.retries < FwMaxRetries
       /\ fw' = [fwUpstreamOver(fw, TRUE) EXCEPT !.req = "waiting", !.retries = @ + 1]
    \/ fw' = fwEndStream(fw)

\* onResetStream(), or a response that is tried again.
FwUpstreamReset == fw.req = "on" /\ fwReset

\* onPoolFailure(): as a reset.
FwPoolFailure == fw.req = "waiting" /\ fwReset

FwDownstreamReset == fw.open /\ fw' = fwEndStream([fw EXCEPT !.complete = FALSE])

\* responseDataTooLarge(), responseDataDrained(): without streaming, the stream
\* ends with a 500 or a reset.
FwEncodeBuffer ==
    /\ fw.open /\ fw.req = "on"
    /\ \/ ~fw.encode /\ fw' = fwCallHigh([fw EXCEPT !.encode = TRUE])
       \/ ~fw.encode /\ fw' = fwEndStream(fw)
       \/ fw.encode /\ fw' = fwCallLow([fw EXCEPT !.encode = FALSE])

\* requestDataTooLarge(), requestDataDrained(): without streaming, a 413.
FwDecodeBuffer ==
    /\ fw.open /\ ~fw.complete
    /\ \/ ~fw.decode /\ fw' = fwReadDown([fw EXCEPT !.decode = TRUE], TRUE)
       \/ ~fw.decode /\ fw' = fwEndStream(fw)
       \/ fw.decode /\ fw' = fwReadDown([fw EXCEPT !.decode = FALSE], FALSE)

FwNext ==
    \/ FwNewStream \/ FwPoolReady \/ FwDecodeData \/ FwRequestEnds
    \/ FwDownConnection \/ FwUpConnection \/ FwDownSend \/ FwUpSend
    \/ FwResponseEnds \/ FwUpstreamReset \/ FwPoolFailure \/ FwDownstreamReset
    \/ FwEncodeBuffer \/ FwDecodeBuffer

FwSpec == FwInit /\ [][FwNext]_fw

-----------------------------------------------------------------------------
fwOne(b) == IF b THEN 1 ELSE 0

\* What holds back the upstream, and the downstream, now.
fwDownAbove(p) == fwOne(p.conn) + fwOne(p.send) + fwOne(p.encode)
fwUpAbove(p) == fwOne(p.uConn) + fwOne(p.uSend) + fwOne(p.decode)

FwTypeOK ==
    /\ fw.streams \in 0..FwMaxStreams /\ fw.req \in {"none", "waiting", "on"}
    /\ fw.listener \in {"none", "live", "gone"}

\* While a request is served, reading from the upstream is stopped once for each
\* thing that is above downstream, once more for an HTTP/2 stream that began
\* when its connection was above; reading of the request is stopped once for
\* each thing that is above upstream, unless HTTP/1 used a connection again
\* that was above; and no assert of the callbacks fails but in those two cases
\* (conn_manager_impl.cc, router.cc, codec_helper.h).
FwSound ==
    /\ FwTypeOK
    /\ fw.open => fw.count = fwDownAbove(fw) + fwOne(fw.begunAbove /\ fw.down = "Http2")
    /\ fw.req = "on" => fw.upRead = fw.count
    /\ fw.req = "waiting" /\ ~fw.complete => fw.downRead = fwOne(fw.body) + fwOne(fw.decode)
    /\ fw.req = "on" /\ ~fw.complete /\ ~(fw.up = "Http1" /\ fw.uBegunAbove) => fw.downRead = fwUpAbove(fw)
    /\ ~fw.open /\ ~fw.closed /\ fw.down = "Http1" => fw.downRead = 0
    /\ fw.asserts \subseteq (IF fw.down = "Http1" THEN {"helper"} ELSE {})
                            \cup (IF fw.up = "Http1" THEN {"uHelper", "downRead"} ELSE {})

\* Departures of the code from what flow_control.md and the asserts say:
\* what was stopped for a buffer resumes when it has drained;
FwResumes == fw.req = "on" /\ fwDownAbove(fw) = 0 => fw.upRead = 0

\* a callback never reaches an UpstreamRequest that is gone;
FwNoLateCall == ~fw.late

\* no assert of the callbacks fails.
FwAssertsHold == fw.asserts = {}
=============================================================================
