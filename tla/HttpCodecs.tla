------------------------------ MODULE HttpCodecs ----------------------------
(***************************************************************************)
(* The HTTP codecs in two parts: HTTP/1.1 (Ho), then HTTP/2 (Hh).          *)
(***************************************************************************)

(***************************************************************************)
(* The HTTP/1.1 codec (http/http1/codec_impl.cc): the client connection of *)
(* one proxy and the server connection of the next, with the bytes between *)
(* them.  Bytes are tokens: a header block with its framing, a piece of    *)
(* body, the last chunk.  http_parser is external.  The callers keep to    *)
(* what the connection pool and the connection manager do: one request at  *)
(* a time, a connection whose response overtakes its request is closed.    *)
(* 100-continue is left out: the codec never sends the header upstream.    *)
(***************************************************************************)
EXTENDS Integers, Sequences, FiniteSetsExt

CONSTANTS H1MaxRequests,  \* bound: requests on the connection
          H1MaxBody       \* bound: pieces of a body

VARIABLE ho

HoIds == 1..H1MaxRequests
HoNone == [headers |-> FALSE, body |-> 0, ended |-> FALSE, late |-> FALSE]
HoIdle == [at |-> "start", left |-> 0]
HoEncoder == [on |-> FALSE, chunked |-> FALSE, left |-> -1, head |-> FALSE]

\* What a caller wants to send: content-length (-1: absent), and whether the headers
\* are all of it.
HoShapes == {s \in [length : -1..H1MaxBody, end : BOOLEAN] : s.end => s.length <= 0}

\* pending: pending_responses_; active: active_request_; sent, got: what callers gave
\* and were given, for requests (1) and responses (2) of each id.
HoInit ==
    ho = [used |-> 0, encoder |-> HoEncoder, pending |-> <<>>, clientParser |-> HoIdle, clientReset |-> FALSE,
          active |-> 0, remoteComplete |-> FALSE, responded |-> FALSE, response |-> HoEncoder,
          serverParser |-> HoIdle, serverReset |-> FALSE, up |-> <<>>, down |-> <<>>,
          serverClosed |-> FALSE, clientClosed |-> FALSE,
          sent |-> [k \in 1..2 |-> [i \in HoIds |-> HoNone]], got |-> [k \in 1..2 |-> [i \in HoIds |-> HoNone]],
          head |-> {}, junk |-> FALSE, error |-> FALSE, asserts |-> TRUE]

\* Mutant: headers that end the message have no framing of their own.
hoFramingChunked(shape) == IF shape.length >= 0 THEN shape.length ELSE -1

\* StreamEncoderImpl::encodeHeaders(): content-length as given, 0 for headers only, or
\* chunked (-1).
hoFraming(shape) == IF shape.length >= 0 THEN shape.length ELSE IF shape.end THEN 0 ELSE -1

hoHeaders(shape, code, id) == [t |-> "headers", length |-> hoFraming(shape), code |-> code, id |-> id]
hoToken(t) == [t |-> t, length |-> 0, code |-> "", id |-> 0]

\* encodeData() and endEncode(): what they write.
hoPieces(encoder, data, end) ==
    (IF data THEN <<hoToken("data")>> ELSE <<>>)
    \o IF end /\ encoder.chunked THEN <<hoToken("last")>> ELSE <<>>

\* A caller gives, or is given, a part of message k of id.
hoPart(m, body, end) == [m EXCEPT !.headers = TRUE, !.body = @ + body, !.ended = end, !.late = @ \/ m.ended]
hoSend(p, k, id, body, end) == [p EXCEPT !.sent[k][id] = hoPart(@, body, end)]
hoGet(p, k, id, body, end) == [p EXCEPT !.got[k][id] = hoPart(@, body, end)]

\* Data a caller may still give: exactly the content-length it announced.
hoMayEncode(encoder, data, end, body) ==
    /\ encoder.on /\ (data \/ end) /\ (data => body < H1MaxBody)
    /\ encoder.left >= 0 => (data => encoder.left > 0) /\ (end => encoder.left = IF data THEN 1 ELSE 0)

\* All of the message is given: its end, or as much as its content-length says.
hoAll(encoder, data, end) == end \/ encoder.left = IF data THEN 1 ELSE 0

hoEncoded(encoder, data, end) ==
    IF end THEN [encoder EXCEPT !.on = FALSE]
    ELSE [encoder EXCEPT !.left = IF data /\ @ > 0 THEN @ - 1 ELSE @]

----------------------------------------------------------------------------
\* The client connection.

\* ClientConnectionImpl::onEncodeComplete()
hoClientEncodeComplete(p) ==
    IF p.pending = <<>> THEN [p EXCEPT !.asserts = FALSE]
    ELSE [p EXCEPT !.pending[Len(p.pending)].head = p.encoder.head]

\* newStream() and RequestStreamEncoderImpl::encodeHeaders()
HoRequest(shape, head) ==
    /\ ho.used < H1MaxRequests /\ ~ho.encoder.on /\ ho.pending = <<>> /\ ~ho.clientReset /\ ~ho.clientClosed
    /\ LET id == ho.used + 1
           e == [on |-> ~shape.end, chunked |-> hoFraming(shape) = -1, left |-> shape.length, head |-> head]
           p == [ho EXCEPT !.used = id, !.encoder = e, !.up = Append(@, hoHeaders(shape, "", id)),
                           !.head = IF head THEN @ \cup {id} ELSE @,
                           !.pending = Append(@, [id |-> id, head |-> FALSE])]
       IN  ho' = hoSend(IF shape.end THEN hoClientEncodeComplete(p) ELSE p, 1, id, 0, hoAll(e, FALSE, shape.end))

HoRequestData(data, end) ==
    /\ ~ho.clientClosed /\ ~ho.clientReset
    /\ hoMayEncode(ho.encoder, data, end, ho.sent[1][ho.used].body)
    /\ LET p == [ho EXCEPT !.up = @ \o hoPieces(ho.encoder, data, end), !.encoder = hoEncoded(@, data, end)]
           q == IF end THEN hoClientEncodeComplete(p) ELSE p
       IN  ho' = hoSend(q, 1, ho.used, IF data THEN 1 ELSE 0, hoAll(ho.encoder, data, end))

\* cannotHaveBody()
hoCannotHaveBody(p, code) == (p.pending # <<>> /\ Head(p.pending).head) \/ code = "204"

\* onMessageComplete(); the pool closes a connection whose request is not complete.
hoResponseComplete(p) ==
    LET q == [p EXCEPT !.clientParser = HoIdle]
        id == Head(p.pending).id
    IN  IF p.pending = <<>> THEN q
        ELSE [hoGet([q EXCEPT !.pending = Tail(@)], 2, id, 0, TRUE)
              EXCEPT !.clientClosed = @ \/ p.encoder.on, !.encoder = IF p.encoder.on THEN HoEncoder ELSE @]

\* Where http_parser is after headers, or after a piece of body.
hoParser(length) == [at |-> IF length = -1 THEN "chunked" ELSE "length", left |-> length]
hoDone(parser, t) == t = "last" \/ (parser.at = "length" /\ parser.left = IF t = "data" THEN 1 ELSE 0)
hoNextParser(parser) == [parser EXCEPT !.left = IF parser.at = "length" THEN @ - 1 ELSE @]
hoExpected(parser, t) == IF parser.at = "start" THEN t = "headers" ELSE t = "data" \/ (t = "last" /\ parser.at = "chunked")

\* ClientConnectionImpl::dispatch(), one token: onHeadersComplete(), onBody().
hoClientParse(p, token) ==
    LET t == token.t IN
    IF ~hoExpected(p.clientParser, t) THEN [p EXCEPT !.clientClosed = TRUE, !.error = TRUE]
    ELSE IF t = "headers"
    THEN IF p.pending = <<>> /\ ~p.clientReset THEN [p EXCEPT !.clientClosed = TRUE]
         ELSE IF hoCannotHaveBody(p, token.code) THEN hoResponseComplete(p)
         ELSE LET q == [IF p.pending = <<>> THEN p ELSE hoGet(p, 2, Head(p.pending).id, 0, FALSE)
                        EXCEPT !.clientParser = hoParser(token.length)]
              IN  IF token.length = 0 THEN hoResponseComplete(q) ELSE q
    ELSE LET q == IF t = "data" /\ p.pending # <<>> THEN hoGet(p, 2, Head(p.pending).id, 1, FALSE) ELSE p
         IN  IF hoDone(p.clientParser, t) THEN hoResponseComplete(q)
             ELSE [q EXCEPT !.clientParser = hoNextParser(@)]

HoClientParse ==
    /\ ho.down # <<>> /\ ~ho.clientClosed
    /\ ho' = hoClientParse([ho EXCEPT !.down = Tail(@)], Head(ho.down))

\* ClientConnectionImpl::onResetStream(); the pool closes the connection.
HoClientReset ==
    /\ ho.pending # <<>> /\ ~ho.clientReset /\ ~ho.clientClosed
    /\ ho' = [ho EXCEPT !.clientReset = TRUE, !.pending = <<>>, !.clientClosed = TRUE, !.encoder = HoEncoder]

----------------------------------------------------------------------------
\* The server connection.

\* onMessageComplete(): deferred headers end the stream; the parser pauses.
hoRequestComplete(p) ==
    LET q == [p EXCEPT !.serverParser = HoIdle] IN
    IF p.active = 0 THEN q ELSE hoGet([q EXCEPT !.remoteComplete = TRUE], 1, p.active, 0, TRUE)

\* sendProtocolError(), and the connection manager closes.
hoProtocolError(p) ==
    [p EXCEPT !.serverClosed = TRUE, !.active = 0, !.serverReset = @ \/ p.active # 0, !.error = TRUE,
              !.down = IF p.active = 0 \/ ~p.responded
                       THEN Append(@, [t |-> "headers", length |-> 0, code |-> "400", id |-> 0]) ELSE @]

\* onMessageBegin() and onHeadersComplete(): headers of a message without a body wait
\* for its end.
hoMessageBegin(p, token) ==
    LET q == IF p.serverReset THEN p
             ELSE [p EXCEPT !.active = token.id, !.remoteComplete = FALSE, !.responded = FALSE,
                            !.asserts = @ /\ p.active = 0]
        r == [q EXCEPT !.serverParser = hoParser(token.length)]
    IN  IF token.length = 0 THEN hoRequestComplete(r)
        ELSE IF q.active = 0 THEN r ELSE hoGet(r, 1, q.active, 0, FALSE)

\* ServerConnectionImpl::dispatch(), one token; not while a complete request waits for
\* its response.
HoServerParse ==
    /\ ho.up # <<>> /\ ~ho.serverClosed /\ ~(ho.active # 0 /\ ho.remoteComplete)
    /\ LET t == Head(ho.up).t
           p == [ho EXCEPT !.up = Tail(@)]
           q == IF t = "data" /\ p.active # 0 THEN hoGet(p, 1, p.active, 1, FALSE) ELSE p
       IN  ho' = IF ~hoExpected(p.serverParser, t) THEN hoProtocolError(p)
                 ELSE IF t = "headers" THEN hoMessageBegin(p, Head(ho.up))
                 ELSE IF hoDone(p.serverParser, t) THEN hoRequestComplete(q)
                 ELSE [q EXCEPT !.serverParser = hoNextParser(@)]

\* Bytes that are no HTTP arrive in place of a header block.
HoJunk ==
    /\ ho.up # <<>> /\ ~ho.serverClosed /\ ~ho.junk /\ ~(ho.active # 0 /\ ho.remoteComplete)
    /\ ho' = hoProtocolError([ho EXCEPT !.junk = TRUE, !.up = <<>>])

\* onEncodeComplete(); the connection manager resets what is not complete, and closes.
hoServerEncodeComplete(p) ==
    IF p.remoteComplete THEN [p EXCEPT !.active = 0]
    ELSE [p EXCEPT !.serverReset = TRUE, !.active = 0, !.serverClosed = TRUE]

\* ResponseStreamEncoderImpl::encodeHeaders(): an answer to HEAD, or 204, ends with them.
HoResponse(shape, code) ==
    /\ ho.active # 0 /\ ~ho.responded /\ ~ho.serverClosed /\ ho.got[1][ho.active].headers
    /\ (ho.active \in ho.head \/ code = "204") => shape.end
    /\ LET e == [on |-> ~shape.end, chunked |-> hoFraming(shape) = -1, left |-> shape.length, head |-> FALSE]
           p == [ho EXCEPT !.responded = TRUE, !.response = e, !.down = Append(@, hoHeaders(shape, code, ho.active))]
       IN  ho' = hoSend(IF shape.end THEN hoServerEncodeComplete(p) ELSE p, 2, ho.active, 0, hoAll(e, FALSE, shape.end))

HoResponseData(data, end) ==
    /\ ho.active # 0 /\ ho.responded /\ ~ho.serverClosed
    /\ hoMayEncode(ho.response, data, end, ho.sent[2][ho.active].body)
    /\ LET p == [ho EXCEPT !.down = @ \o hoPieces(ho.response, data, end), !.response = hoEncoded(@, data, end)]
       IN  ho' = hoSend(IF end THEN hoServerEncodeComplete(p) ELSE p, 2, ho.active, IF data THEN 1 ELSE 0, hoAll(ho.response, data, end))

\* ServerConnectionImpl::onResetStream(); the connection manager closes.
HoServerReset ==
    /\ ho.active # 0 /\ ~ho.serverClosed
    /\ ho' = [ho EXCEPT !.serverReset = TRUE, !.active = 0, !.serverClosed = TRUE, !.asserts = @ /\ ~ho.serverReset]

\* The close reaches the other side.
HoCloses ==
    \/ /\ ho.serverClosed /\ ~ho.clientClosed /\ ho.down = <<>>
       /\ ho' = [ho EXCEPT !.clientClosed = TRUE, !.pending = <<>>, !.encoder = HoEncoder]
    \/ /\ ho.clientClosed /\ ~ho.serverClosed
       /\ ho' = [ho EXCEPT !.serverClosed = TRUE, !.active = 0]

HoNext ==
    \/ \E s \in HoShapes, b \in BOOLEAN : HoRequest(s, b)
    \/ \E s \in HoShapes, c \in {"200", "204"} : HoResponse(s, c)
    \/ \E d, e \in BOOLEAN : HoRequestData(d, e) \/ HoResponseData(d, e)
    \/ HoClientParse \/ HoClientReset \/ HoServerParse \/ HoJunk \/ HoServerReset \/ HoCloses

HoSpec == HoInit /\ [][HoNext]_ho

----------------------------------------------------------------------------
(***************************************************************************)
(* Properties.                                                             *)
(***************************************************************************)

\* A message comes out of the codec as it went in: no more body than was given, an end
\* only after all of it, nothing after the end.  A response is its own request's,
\* except the codec's answer to junk.  Between proxies that both use the codec no
\* message is ever refused, and no assertion fails.
HoSound ==
    /\ ho.asserts /\ (ho.error => ho.junk)
    /\ \A k \in 1..2, i \in HoIds :
         LET s == ho.sent[k][i]  g == ho.got[k][i]
         IN  /\ ~g.late
             /\ ~(k = 2 /\ ho.junk) => /\ g.headers => s.headers
                                       /\ g.body <= s.body
                                       /\ g.ended => s.ended /\ g.body = s.body
    /\ \A i \in HoIds : i < ho.used /\ ~ho.serverReset /\ ~ho.clientReset /\ ~ho.junk => ho.got[2][i].ended

-----------------------------------------------------------------------------
(***************************************************************************)
(* The HTTP/2 codec (http/http2/codec_impl.cc), a server connection: what  *)
(* StreamImpl and ConnectionImpl keep beside nghttp2's session, deferred   *)
(* resets and both directions of flow control.  A unit of body is a frame  *)
(* of DATA.  nghttp2 is external: it ignores what comes for a stream whose *)
(* RST_STREAM is queued and drops what that stream has not sent, sends     *)
(* headers before data, sends DATA (an empty one too) only into an open    *)
(* window, and closes a stream when both ends are closed or it is reset.   *)
(* The send window of a stream stands for the smaller of its own and the   *)
(* connection's.  Callers make no call for a stream after its reset.       *)
(***************************************************************************)

CONSTANTS HhStreams,   \* stream ids
          HhWindow,    \* the receive window of the connection and of a stream
          HhMaxBody    \* bound: units of body of a message, and of send window

VARIABLE hh

HhOut == [headers |-> FALSE, body |-> 0, end |-> FALSE, rst |-> FALSE, late |-> FALSE]

\* StreamImpl, its nghttp2 stream and, for the properties, what the caller gave and
\* what was written.  queued: response headers not sent yet, and whether they end the
\* stream; provider: DATA is scheduled; disabled: read_disable_count_.
HhStream ==
    [at |-> "none", queued |-> "none", provider |-> FALSE, local |-> FALSE, sent |-> FALSE, remote |-> FALSE,
     deferred |-> FALSE, pending |-> 0, pendingTrailers |-> FALSE, trailers |-> FALSE, deferredReset |-> FALSE,
     rst |-> FALSE, window |-> 1, unconsumed |-> 0, disabled |-> 0, received |-> 0, resetRun |-> FALSE,
     lateDecode |-> FALSE, given |-> [headers |-> FALSE, body |-> 0, end |-> FALSE], out |-> HhOut]

HhInit ==
    hh = [streams |-> [i \in HhStreams |-> HhStream], dispatching |-> FALSE, pendingDeferredReset |-> FALSE,
          raisedGoaway |-> FALSE, goaways |-> 0, recvWindow |-> HhWindow, asserts |-> TRUE]

----------------------------------------------------------------------------
\* nghttp2_session_send() and the callbacks it makes.

\* onFrameSend(): a HEADERS or DATA frame of the stream.
hhWrite(s, body, end) ==
    [s EXCEPT !.sent = end,
              !.out = [@ EXCEPT !.headers = TRUE, !.body = @ + body, !.end = end, !.late = @ \/ s.out.end \/ s.out.rst]]

\* Headers, and trailers that did not have to wait for data.
hhSendHeaders(s) ==
    LET h == IF s.queued = "none" THEN s
             ELSE hhWrite([s EXCEPT !.queued = "none", !.provider = s.queued = "open"], 0, s.queued = "end")
    IN  IF s.trailers THEN hhWrite([h EXCEPT !.trailers = FALSE, !.provider = FALSE], 0, TRUE) ELSE h

\* onDataSourceRead() and onDataSourceSend(), while the window is open.
hhSendData(s) ==
    IF ~s.provider \/ s.deferred \/ s.window = 0 THEN s
    ELSE LET n == IF s.pending < s.window THEN s.pending ELSE s.window
             eof == s.local /\ s.pending <= s.window
             more == s.pending > n
             d == hhWrite([s EXCEPT !.pending = @ - n, !.window = @ - n, !.provider = ~eof], n, eof /\ ~s.pendingTrailers)
         IN  IF s.pending = 0 /\ ~s.local THEN [s EXCEPT !.deferred = TRUE]
             ELSE IF eof /\ s.pendingTrailers THEN hhWrite([d EXCEPT !.pendingTrailers = FALSE], 0, TRUE)
             ELSE IF eof \/ more \/ d.window = 0 THEN d
             ELSE [d EXCEPT !.deferred = TRUE]

\* onStreamClose(): reset callbacks unless both ends are complete; what was not
\* consumed is.
hhCloseLeaks(p, i) ==
    [p EXCEPT !.streams[i] = [@ EXCEPT !.at = "closed", !.resetRun = @ \/ ~p.streams[i].remote \/ ~p.streams[i].local,
                                       !.unconsumed = 0]]
hhClose(p, i) ==
    [hhCloseLeaks(p, i) EXCEPT !.recvWindow = @ + p.streams[i].unconsumed]

\* A queued RST_STREAM cancels the rest.
hhSendStream(i, p) ==
    LET s == p.streams[i]
        sent == hhSendData(hhSendHeaders(s))
    IN  IF s.at # "open" THEN p
        ELSE IF s.rst THEN hhClose([p EXCEPT !.streams[i].out.rst = TRUE], i)
        ELSE IF sent.sent /\ sent.remote THEN hhClose([p EXCEPT !.streams[i] = sent], i)
        ELSE [p EXCEPT !.streams[i] = sent]

hhSessionSend(p) == FoldSet(hhSendStream, p, HhStreams)

\* sendPendingFrames(): what can be sent is, then the deferred resets.
hhSendPendingFrames(p) ==
    IF p.dispatching THEN p
    ELSE LET q == hhSessionSend(p)
             resets == {i \in HhStreams : q.streams[i].at = "open" /\ q.streams[i].deferredReset}
         IN  IF ~p.pendingDeferredReset THEN q
             ELSE hhSessionSend([q EXCEPT !.pendingDeferredReset = FALSE,
                                          !.streams = [i \in HhStreams |-> [@[i] EXCEPT !.rst = @ \/ i \in resets]]])

----------------------------------------------------------------------------
\* Calls of the connection manager.

hhInUse(i) == hh.streams[i].at = "open" /\ ~hh.streams[i].resetRun

HhEncodeHeaders(i, end) ==
    /\ hhInUse(i) /\ ~hh.streams[i].given.headers
    /\ hh' = hhSendPendingFrames(
                 [hh EXCEPT !.streams[i] = [@ EXCEPT !.local = end, !.queued = IF end THEN "end" ELSE "open",
                                                     !.given.headers = TRUE, !.given.end = end]])

HhEncodeData(i, n, end) ==
    /\ hhInUse(i) /\ hh.streams[i].given.headers /\ ~hh.streams[i].local
    /\ hh.streams[i].given.body + n <= HhMaxBody /\ (n > 0 \/ end)
    /\ hh' = hhSendPendingFrames(
                 [hh EXCEPT !.streams[i] = [@ EXCEPT !.local = end, !.pending = @ + n, !.deferred = FALSE,
                                                     !.given.body = @ + n, !.given.end = end]])

\* Trailers wait for the data before them.
HhEncodeTrailers(i) ==
    /\ hhInUse(i) /\ hh.streams[i].given.headers /\ ~hh.streams[i].local
    /\ LET s == [hh.streams[i] EXCEPT !.local = TRUE, !.given.end = TRUE]
       IN  hh' = IF s.pending > 0 THEN [hh EXCEPT !.streams[i] = [s EXCEPT !.pendingTrailers = TRUE]]
                 ELSE hhSendPendingFrames([hh EXCEPT !.streams[i] = [s EXCEPT !.trailers = TRUE]])

\* Mutant: the reset is never deferred.
hhResetNow(s) == [s EXCEPT !.resetRun = TRUE, !.rst = TRUE]

\* resetStream(): callbacks at once, RST_STREAM after the frames that end the stream.
hhReset(s) ==
    IF s.local /\ ~s.sent THEN [s EXCEPT !.resetRun = TRUE, !.deferredReset = TRUE]
    ELSE [s EXCEPT !.resetRun = TRUE, !.rst = TRUE]

HhResetStream(i) ==
    /\ hhInUse(i)
    /\ LET s == hhReset(hh.streams[i])
       IN  hh' = hhSendPendingFrames([hh EXCEPT !.streams[i] = s, !.pendingDeferredReset = @ \/ s.deferredReset])

\* readDisable(): the last enable consumes.
hhConsume(p, i) == [p EXCEPT !.recvWindow = @ + p.streams[i].unconsumed, !.streams[i].unconsumed = 0]
HhReadDisable(i, disable) ==
    /\ hhInUse(i)
    /\ \/ /\ disable /\ hh.streams[i].disabled < 2
          /\ hh' = [hh EXCEPT !.streams[i].disabled = @ + 1]
       \/ /\ ~disable /\ hh.streams[i].disabled > 0
          /\ LET p == [hh EXCEPT !.streams[i].disabled = @ - 1]
             IN  hh' = IF p.streams[i].disabled > 0 THEN p ELSE hhSendPendingFrames(hhConsume(p, i))

----------------------------------------------------------------------------
\* Frames of the peer: dispatch() brackets them.

HhDispatch == ~hh.dispatching /\ hh' = [hh EXCEPT !.dispatching = TRUE]
HhDispatched == hh.dispatching /\ hh' = hhSendPendingFrames([hh EXCEPT !.dispatching = FALSE])

\* The peer's end of the stream is closed; the stream is, if ours was.
hhReceived(p, i) == IF p.streams[i].remote /\ p.streams[i].sent THEN hhClose(p, i) ELSE p

\* A call of the decoder.
hhDecode(s) == [s EXCEPT !.lateDecode = @ \/ s.resetRun]

\* onBeginHeaders() and onFrameReceived(), request HEADERS: a new stream.
HhRequest(i, end) ==
    /\ hh.dispatching /\ hh.streams[i].at = "none"
    /\ hh' = [hh EXCEPT !.streams[i] = hhDecode([@ EXCEPT !.at = "open", !.remote = end])]

hhHears(i) == hh.dispatching /\ hh.streams[i].at = "open" /\ ~hh.streams[i].remote

\* Mutant: data is raised while a reset waits.
hhRaises(s) == TRUE

\* It's possible that we are waiting to send a deferred reset.
hhMayRaise(s) == ~s.deferredReset

\* onData() and onFrameReceived(), DATA; nothing is told of a stream being reset, whose
\* data nghttp2 consumes.
HhData(i, n, end) ==
    /\ hhHears(i) /\ n <= hh.recvWindow /\ (n > 0 \/ end)
    /\ hh.streams[i].received + n <= HhMaxBody
    /\ LET s == [hh.streams[i] EXCEPT !.received = @ + n, !.remote = end,
                                      !.unconsumed = IF hh.streams[i].disabled > 0 THEN @ + n ELSE @]
           p == [hh EXCEPT !.streams[i] = IF hhMayRaise(s) THEN hhDecode(s) ELSE s,
                           !.recvWindow = IF s.disabled > 0 THEN @ - n ELSE @]
       IN  hh' = IF s.rst THEN [hh EXCEPT !.streams[i].received = @ + n] ELSE hhReceived(p, i)

\* onFrameReceived(), trailers.
HhTrailers(i) ==
    /\ hhHears(i)
    /\ LET s == [hh.streams[i] EXCEPT !.remote = TRUE]
       IN  hh' = IF s.rst THEN hh
                 ELSE hhReceived([hh EXCEPT !.streams[i] = IF hhMayRaise(s) THEN hhDecode(s) ELSE s], i)

\* RST_STREAM closes the stream at once.
HhRst(i) == hh.dispatching /\ hh.streams[i].at = "open" /\ hh' = hhClose(hh, i)

HhWindowUpdate(i) ==
    /\ hh.dispatching /\ hh.streams[i].at = "open" /\ hh.streams[i].window < HhMaxBody
    /\ hh' = [hh EXCEPT !.streams[i].window = @ + 1]

\* Only the first GOAWAY is raised.
HhGoAway ==
    /\ hh.dispatching
    /\ hh' = [hh EXCEPT !.raisedGoaway = TRUE, !.goaways = IF hh.raisedGoaway THEN @ ELSE @ + 1]

HhNext ==
    \/ HhDispatch \/ HhDispatched \/ HhGoAway
    \/ \E i \in HhStreams :
         \/ HhEncodeTrailers(i) \/ HhResetStream(i) \/ HhTrailers(i) \/ HhRst(i) \/ HhWindowUpdate(i)
         \/ \E b \in BOOLEAN : HhEncodeHeaders(i, b) \/ HhReadDisable(i, b) \/ HhRequest(i, b)
         \/ \E n \in 0..HhMaxBody, b \in BOOLEAN : HhEncodeData(i, n, b) \/ HhData(i, n, b)

HhSpec == HhInit /\ [][HhNext]_hh

----------------------------------------------------------------------------
(***************************************************************************)
(* Properties.                                                             *)
(***************************************************************************)

\* No byte of the connection's receive window leaks, whatever becomes of the streams:
\* what is not free waits, unconsumed, for a stream that is open and whose reads are
\* disabled.
HhWindowConserved ==
    /\ hh.recvWindow + MapThenSumSet(LAMBDA i : hh.streams[i].unconsumed, HhStreams) = HhWindow
    /\ \A i \in HhStreams : hh.streams[i].unconsumed > 0 => hh.streams[i].at = "open" /\ hh.streams[i].disabled > 0

\* What is written of a response is what was given, in order: no more body, an end only
\* after all of it, nothing after the end or the reset.  A response that was complete
\* when its stream was reset is cut only by a closed window.
HhResponsesWhole ==
    \A i \in HhStreams :
      LET s == hh.streams[i]  o == s.out  g == s.given
      IN  /\ ~o.late /\ o.end = s.sent
          /\ o.body <= g.body
          /\ o.end => g.end /\ o.body = g.body
          /\ o.rst /\ g.end /\ ~o.end => s.window = 0
          /\ s.at = "open" /\ ~hh.dispatching /\ g.headers /\ ~o.end => s.window = 0 \/ o.body = g.body

\* A decoder is not called after its stream's reset callbacks, and one that is not done
\* with its stream hears of its close.
HhDecodersTold ==
    \A i \in HhStreams :
      LET s == hh.streams[i]
      IN  ~s.lateDecode /\ (s.at = "closed" /\ ~s.resetRun => s.local /\ s.remote)

HhSound == HhWindowConserved /\ HhResponsesWhole /\ HhDecodersTold /\ hh.goaways <= 1
=============================================================================
