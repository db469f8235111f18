------------------------------ MODULE ConnectionManager ---------------------
(***************************************************************************)
(* The HTTP connection manager in two parts: the connection and its        *)
(* streams (Cm), then what it does to the headers of a request (Rq).       *)
(***************************************************************************)

(***************************************************************************)
(* The HTTP connection manager's connection (http/conn_manager_impl.cc):   *)
(* one downstream connection, its codec, its streams, idle and drain       *)
(* timers, read pauses between pipelined requests, and when it closes.     *)
(* What filters do with a stream is in RateLimitFilter and FilterChain.    *)
(***************************************************************************)
EXTENDS Integers, Sequences, FiniteSets, SequencesExt

CONSTANTS CmMaxStreams,  \* bound: requests on the connection
          CmMaxData      \* bound: messages of one read

ASSUME CmAssumption == CmMaxStreams \in Nat /\ CmMaxData \in Nat

VARIABLE cm

\* What the codec finds in the data: headers of a request that ends with them or goes
\* on, the end of a request, a reset of a stream (HTTP/2), or a protocol error.
CmItems == {"complete", "headers", "end", "reset", "error"}

\* protocol "none" before the first data; state of the network connection; flush: the
\* connection closes when its buffer is written; reading: pauses of reads; data: what
\* onData() still has to dispatch; open: streams, newest first; wants: wantsToWrite().
CmInit ==
    \E idle \in BOOLEAN :
      cm = [protocol |-> "none", state |-> "Open", drain |-> "NotDraining", idleTimeout |-> idle,
            idleArmed |-> idle, drainArmed |-> FALSE, pauses |-> 0, data |-> <<>>, inData |-> FALSE,
            open |-> <<>>, remote |-> {}, closes |-> {}, used |-> 0, wants |-> FALSE,
            destroyed |-> [s \in 1..CmMaxStreams |-> 0]]

cmStreams(p) == {p.open[i] : i \in DOMAIN p.open}

\* doDeferredStreamDestroy(), onResetStream()
cmDestroy(p, s) ==
    [p EXCEPT !.open = RemoveAt(@, CHOOSE i \in DOMAIN p.open : p.open[i] = s), !.destroyed[s] = @ + 1]

\* onEvent(), LocalClose or RemoteClose: timers go, all streams are reset.
cmClosed(p) ==
    [p EXCEPT !.state = "Closed", !.idleArmed = FALSE, !.drainArmed = FALSE, !.open = <<>>,
              !.destroyed = [s \in 1..CmMaxStreams |-> @[s] + IF s \in cmStreams(p) THEN 1 ELSE 0]]

\* close(FlushWrite): at once, or when what is buffered is written.
cmClose(p, buffered) ==
    IF p.state # "Open" THEN p ELSE IF buffered THEN [p EXCEPT !.state = "Closing"] ELSE cmClosed(p)

cmCheckForDeferredClose(p, buffered) ==
    IF p.drain = "Closing" /\ p.open = <<>> /\ ~p.wants THEN cmClose(p, buffered) ELSE p

\* Mutant: an HTTP/1.1 connection goes on after a stream that was reset.
cmEndStreamKeeps(p, s, buffered) ==
    LET q == cmCheckForDeferredClose(cmDestroy(p, s), buffered)
        r == IF q.drain # "Closing" /\ q.protocol # "http2" THEN [q EXCEPT !.pauses = 0] ELSE q
    IN  [r EXCEPT !.idleArmed = @ \/ (r.idleTimeout /\ r.state # "Closed" /\ r.open = <<>>)]

\* doEndStream(): the response is complete, or a filter resets the stream.
cmEndStream(p, s, buffered) ==
    LET reset == s \notin p.remote
        d == cmDestroy(p, s)
        q == cmCheckForDeferredClose(IF reset /\ p.protocol # "http2" THEN [d EXCEPT !.drain = "Closing"] ELSE d, buffered)
        r == IF q.drain # "Closing" /\ q.protocol # "http2" THEN [q EXCEPT !.pauses = 0] ELSE q
    IN  [r EXCEPT !.idleArmed = @ \/ (r.idleTimeout /\ r.state # "Closed" /\ r.open = <<>>)]

cmStartDrain(p) == [p EXCEPT !.drain = "Draining", !.drainArmed = TRUE]

\* encodeHeaders(): is the connection to be drained or closed?
cmEncodeHeaders(p, s, drainClose) ==
    LET q == IF p.drain = "NotDraining" /\ drainClose THEN cmStartDrain(p) ELSE p
        r == IF q.drain = "NotDraining" /\ s \in q.closes THEN [q EXCEPT !.drain = "Closing"] ELSE q
    IN  IF s \notin r.remote /\ r.protocol # "http2" THEN [r EXCEPT !.drain = "Closing"] ELSE r

\* newStream() and decodeHeaders(); `answer`: a filter, or a check of the headers,
\* answers at once.
cmNewStream(p, item, answer, close, drainClose, buffered) ==
    LET s == p.used + 1
        q == [p EXCEPT !.used = s, !.open = <<s>> \o @, !.idleArmed = FALSE,
                       !.remote = IF item = "complete" THEN @ \cup {s} ELSE @,
                       !.closes = IF close /\ p.protocol # "http2" THEN @ \cup {s} ELSE @]
    IN  IF answer THEN cmEndStream(cmEncodeHeaders(q, s, drainClose), s, buffered) ELSE q

\* One thing the codec dispatches.
cmDispatch(p, item, answer, close, drainClose, buffered) ==
    CASE item \in {"complete", "headers"} -> cmNewStream(p, item, answer, close, drainClose, buffered)
      [] item = "end" -> [p EXCEPT !.remote = @ \cup {Head(p.open)}]
      [] item = "reset" -> cmDestroy(p, Head(p.open))

\* What may come next: HTTP/1.1 has one request at a time.
cmMayCome(p, item) ==
    CASE item \in {"complete", "headers"} -> p.used < CmMaxStreams /\ (p.protocol # "http2" => p.open = <<>>)
      [] item = "end" -> p.open # <<>> /\ Head(p.open) \notin p.remote
      [] item = "reset" -> p.open # <<>> /\ p.protocol = "http2"
      [] item = "error" -> TRUE

----------------------------------------------------------------------------
\* onData(): data arrives while reads are not paused.
CmOnData(protocol, items) ==
    /\ cm.state = "Open" /\ ~cm.inData /\ cm.pauses = 0 /\ cm.data = <<>> /\ Len(items) > 0
    /\ cm.protocol \in {"none", protocol}
    /\ cm' = [cm EXCEPT !.protocol = protocol, !.data = items, !.inData = TRUE]

\* Reads are enabled again: what was left of the data is dispatched.
CmResume ==
    /\ cm.state = "Open" /\ ~cm.inData /\ cm.pauses = 0 /\ cm.data # <<>>
    /\ cm' = [cm EXCEPT !.inData = TRUE]

\* dispatch() in onData(), one item: HTTP/1.1 pauses after each message.
CmDispatch(answer, close, drainClose, buffered) ==
    LET item == Head(cm.data)
        p == [cm EXCEPT !.data = Tail(@)]
        d == cmDispatch(p, item, answer, close, drainClose, buffered)
        again == d.state = "Open" /\ d.data # <<>> /\ (d.protocol = "http2" \/ item = "headers" \/ d.open = <<>>)
        c == IF d.protocol = "http2" /\ again THEN d ELSE cmCheckForDeferredClose(d, buffered)
        paused == c.protocol # "http2" /\ c.open # <<>> /\ Head(c.open) \in c.remote
        q == [c EXCEPT !.pauses = IF paused THEN @ + 1 ELSE @, !.inData = again /\ c.state = "Open"]
    IN  /\ cm.inData /\ cm.data # <<>> /\ item # "error" /\ cmMayCome(cm, item)
        /\ cm' = IF q.state = "Open" THEN q ELSE [q EXCEPT !.data = <<>>, !.inData = FALSE]

\* A protocol error, or an item the codec does not accept here: all streams are reset
\* and the connection closes.
CmProtocolError(buffered) ==
    /\ cm.inData /\ cm.data # <<>> /\ (Head(cm.data) = "error" \/ ~cmMayCome(cm, Head(cm.data)))
    /\ LET reset == [cm EXCEPT !.open = <<>>, !.data = <<>>, !.inData = FALSE,
                               !.destroyed = [s \in 1..CmMaxStreams |-> @[s] + IF s \in cmStreams(cm) THEN 1 ELSE 0]]
       IN  cm' = cmClose(reset, buffered)

\* The response of a stream: its headers, and its end; or a filter resets it.
CmEncodeHeaders(s, drainClose) ==
    /\ ~cm.inData /\ s \in cmStreams(cm)
    /\ cm' = cmEncodeHeaders(cm, s, drainClose)

CmEndStream(s, buffered) ==
    /\ ~cm.inData /\ s \in cmStreams(cm)
    /\ cm' = cmEndStream(cm, s, buffered)

\* HTTP/2 holds frames back for flow control, or is allowed to write them: in onData().
CmWants ==
    /\ cm.protocol = "http2" /\ cm.state = "Open" /\ ~cm.inData
    /\ cm' = IF cm.wants THEN cmCheckForDeferredClose([cm EXCEPT !.wants = FALSE], FALSE)
             ELSE [cm EXCEPT !.wants = cm.open # <<>>]

CmOnIdleTimeout(buffered) ==
    /\ cm.idleArmed /\ ~cm.inData
    /\ LET p == [cm EXCEPT !.idleArmed = FALSE]
       IN  cm' = IF cm.protocol = "none" THEN cmClose(p, buffered)
                 ELSE IF cm.drain = "NotDraining" THEN cmStartDrain(p) ELSE p

CmOnDrainTimeout(buffered) ==
    /\ cm.drainArmed /\ ~cm.inData
    /\ cm' = cmCheckForDeferredClose([cm EXCEPT !.drainArmed = FALSE, !.drain = "Closing"], buffered)

\* The peer closes, or the last bytes of a closing connection are written.
CmCloses ==
    /\ cm.state # "Closed" /\ ~cm.inData
    /\ cm' = cmClosed(cm)

CmData == UNION {[1..n -> CmItems] : n \in 1..CmMaxData}

CmNext ==
    \/ \E protocol \in {"http1", "http2"}, items \in CmData : CmOnData(protocol, items)
    \/ \E answer, close, drainClose, buffered \in BOOLEAN : CmDispatch(answer, close, drainClose, buffered)
    \/ \E buffered \in BOOLEAN : CmProtocolError(buffered) \/ CmOnIdleTimeout(buffered) \/ CmOnDrainTimeout(buffered)
    \/ \E s \in 1..CmMaxStreams, b \in BOOLEAN : CmEncodeHeaders(s, b) \/ CmEndStream(s, b)
    \/ CmResume \/ CmWants \/ CmCloses

CmSpec == CmInit /\ [][CmNext]_cm

----------------------------------------------------------------------------
(***************************************************************************)
(* Properties.                                                             *)
(***************************************************************************)

\* A stream is destroyed once, and is destroyed when the connection is closed; the
\* idle timer never runs beside a stream; a connection that drains has a timer; one
\* that is to close and has no stream left is not forgotten; an HTTP/1.1 connection
\* has one request at a time, never pauses reads with no request in progress, and is
\* closed rather than reused after a request that was not read to its end.
CmSound ==
    /\ \A s \in 1..CmMaxStreams : cm.destroyed[s] = IF s <= cm.used /\ s \notin cmStreams(cm) THEN 1 ELSE 0
    /\ cm.state = "Closed" => cm.open = <<>> /\ ~cm.idleArmed /\ ~cm.drainArmed
    /\ cm.idleArmed => cm.open = <<>>
    /\ cm.drain = "Draining" /\ cm.state # "Closed" => cm.drainArmed
    /\ cm.drain = "Closing" /\ cm.open = <<>> /\ ~cm.wants /\ ~cm.inData => cm.state # "Open"
    /\ cm.protocol = "http1" /\ ~cm.inData =>
          /\ Len(cm.open) <= 1
          /\ cm.state = "Open" /\ cm.open = <<>> => cm.pauses = 0
          /\ \A s \in 1..cm.used : s \notin cm.remote /\ s \notin cmStreams(cm) => cm.state # "Open"

-----------------------------------------------------------------------------
(* common/http/conn_manager_utility and the part of tracing that marks      *)
(* request ids: what each proxy of a chain does to the headers of a request *)
(* that passes through all of them, between services that pass on what they *)
(* were given.  An address is internal, external or the loopback one; a     *)
(* pipe has none.  One header stands for all that are for internal requests *)
(* only, and one for those that name the calling service.                   *)

CONSTANTS RqMaxHops,  \* bound: proxies in the chain
          RqHashes    \* what uuidModBy() makes of request ids

ASSUME RqConstants == RqMaxHops \in Nat \ {0} /\ RqHashes \subseteq Nat /\ RqHashes # {}

VARIABLE rq

RqModes == {"ForwardOnly", "AppendForward", "SanitizeSet", "Sanitize", "AlwaysForwardOnly"}
RqNoId == [n |-> 0, trace |-> "NoTrace", hash |-> 0, whole |-> FALSE]

\* The client sends what it likes: x-forwarded-for, a request id, marked or
\* not, or one that is no uuid, and all of the headers of internal services.
rqClients ==
    [xff : {<< >>, <<"internal">>, <<"external">>}, internal : {TRUE}, only : {TRUE},
     named : {"client"}, outside : {"none"}, proto : {"none"}, upgrade : BOOLEAN,
     force : {TRUE}, joins : BOOLEAN, xfcc : {<<0>>},
     id : {RqNoId} \cup {[n |-> 1, trace |-> t, hash |-> h, whole |-> t # "Client"] :
                         t \in {"NoTrace", "Forced", "Client"}, h \in RqHashes}]

\* A configuration and the connection of a hop.  What is about trust and tracing,
\* and what is about certificates, is varied one at a time; the peer's address is
\* read only where it is used.
rqTrusting ==
    {[remote |-> peer[1], use |-> peer[2], tls |-> "no", agent |-> FALSE, generate |-> g, tracing |-> t[1],
      sampled |-> t[2], enabled |-> t[3], mode |-> "Sanitize", http11 |-> TRUE] :
        peer \in ({"external", "internal", "loopback", "pipe"} \X {TRUE}) \cup {<<"external", FALSE>>},
        g \in BOOLEAN, t \in {<<FALSE, 0, 0>>, <<TRUE, 1, 0>>, <<TRUE, 0, 2>>, <<TRUE, 1, 2>>}}
rqCertifying ==
    [remote : {"internal", "external"}, use : {TRUE}, tls : {"no", "tls", "mutual"}, agent : BOOLEAN,
     generate : {TRUE}, tracing : {FALSE}, sampled : {0}, enabled : {0}, mode : RqModes, http11 : BOOLEAN]

\* what: what is varied; h: the headers; the rest is history: the first proxy
\* that uses the address of its peer, the edges, what the last hop did, and what
\* the hops do about certificates.
rqFirst(what, h) ==
    [what |-> what, h |-> h, hops |-> 0, ids |-> 1, from |-> "none", edges |-> 0,
     edge |-> FALSE, unbroken |-> FALSE, certs |-> << >>,
     tracedBefore |-> FALSE, idBefore |-> RqNoId, enabled |-> TRUE]

RqInit ==
    \E what \in {"trust", "certificates"}, h \in rqClients :
        /\ what = "trust" => ~h.upgrade
        /\ what = "certificates" => ~h.joins /\ h.xff = << >> /\ h.id = RqNoId
        /\ rq = rqFirst(what, h)

-----------------------------------------------------------------------------
\* Mutant: the last address decides.
rqIsInternalRequestLast(h) == h.xff # << >> /\ Last(h.xff) = "internal"

\* isInternalAddress(): a list is no address.
rqIsInternalAddress(xff) == xff = <<"internal">>

\* isInternalRequest(): of the header as a whole.
rqIsInternalRequest(h) == h.xff # << >> /\ rqIsInternalAddress(h.xff)

\* isLoopbackAddress(): a loopback peer is this machine, at its own address.
rqPeer(remote) == IF remote = "loopback" THEN "internal" ELSE remote

rqAppendXff(h, remote) == IF remote = "pipe" THEN h ELSE [h EXCEPT !.xff = Append(@, rqPeer(remote))]

rqProto(c) == IF c.tls = "no" THEN "http" ELSE "https"

\* From the clean up of proxy headers to x-forwarded-proto.
rqForwarded(h, c) ==
    LET cleaned == [h EXCEPT !.internal = FALSE, !.upgrade = @ /\ c.http11]
        appended == IF c.use THEN [rqAppendXff(cleaned, c.remote) EXCEPT !.proto = rqProto(c)] ELSE cleaned
    IN IF appended.proto = "none" THEN [appended EXCEPT !.proto = rqProto(c)] ELSE appended

\* Mutant: what is only for internal requests is left to proxies that are no edge.
rqTrustEdgeOnly(h, internal, edge) ==
    IF internal THEN [h EXCEPT !.internal = TRUE]
    ELSE IF edge THEN [h EXCEPT !.named = "none", !.only = FALSE, !.force = FALSE] ELSE h

\* Headers that a request may have if it is internal, or if this is no edge.
rqTrust(h, internal, edge) ==
    IF internal THEN [h EXCEPT !.internal = TRUE]
    ELSE [h EXCEPT !.named = IF edge THEN "none" ELSE @, !.only = FALSE, !.force = FALSE]

\* Mutant: a request keeps the id it came with.
rqIdentifyKeeps(h, c, edge, fresh) ==
    IF c.generate /\ h.id.n = 0 THEN [h EXCEPT !.id = fresh] ELSE h

\* x-request-id, for edge requests and where there is none.
rqIdentify(h, c, edge, fresh) == IF c.generate /\ (edge \/ h.id.n = 0) THEN [h EXCEPT !.id = fresh] ELSE h

\* isTraceableUuid(), setTraceableUuid(): only a whole uuid has the mark.
rqStatus(id) == IF id.whole THEN id.trace ELSE "NoTrace"
rqMark(id, trace) == IF id.whole THEN [id EXCEPT !.trace = trace] ELSE id

\* Mutant: what is traced already is decided anew.
rqTraceAnew(h, c) ==
    IF h.id.n = 0 THEN h
    ELSE LET chosen == IF h.joins THEN "Client" ELSE IF h.force THEN "Forced"
                       ELSE IF h.id.hash < c.sampled THEN "Sampled" ELSE "NoTrace"
         IN [h EXCEPT !.id = rqMark(@, IF h.id.hash < c.enabled THEN chosen ELSE "NoTrace")]

\* HttpTracerUtility::mutateHeaders(), tracing.client_enabled being on; an id
\* that is no uuid is left as it is, by rqMark if it has a hash.
rqTrace(h, c) ==
    IF h.id.n = 0 THEN h
    ELSE LET id == IF rqStatus(h.id) # "NoTrace" THEN h.id
                   ELSE IF h.joins THEN rqMark(h.id, "Client")
                   ELSE IF h.force THEN rqMark(h.id, "Forced")
                   ELSE IF h.id.hash < c.sampled THEN rqMark(h.id, "Sampled") ELSE h.id
         IN [h EXCEPT !.id = IF h.id.hash < c.enabled THEN id ELSE rqMark(id, "NoTrace")]

\* Mutant: a header that was there is replaced.
rqXfccReplaces(h, c, hop) ==
    IF c.mode \in {"ForwardOnly", "AlwaysForwardOnly"} THEN h
    ELSE [h EXCEPT !.xfcc = IF c.mode = "Sanitize" \/ c.tls # "mutual" THEN << >> ELSE <<hop>>]

\* mutateXfccRequestHeader(): the certificate of this hop is its number.
rqXfcc(h, c, hop) ==
    IF c.mode = "AlwaysForwardOnly" THEN h
    ELSE IF c.mode = "Sanitize" \/ c.tls # "mutual" THEN [h EXCEPT !.xfcc = << >>]
    ELSE IF c.mode = "ForwardOnly" THEN h
    ELSE IF c.mode = "AppendForward" THEN [h EXCEPT !.xfcc = Append(@, hop)]
    ELSE [h EXCEPT !.xfcc = <<hop>>]

\* HttpTracerUtility::isTracing() of a request that is no health check
rqIsTracing(h) == h.id.n # 0 /\ rqStatus(h.id) # "NoTrace"

\* mutateRequestHeaders()
rqMutate(h, c, hop, fresh) ==
    LET forwarded == rqForwarded(h, c)
        internal == rqIsInternalRequest(forwarded)
        edge == ~internal /\ c.use
        trusted == rqTrust(forwarded, internal, edge)
        named == IF c.agent THEN [trusted EXCEPT !.named = "proxy"] ELSE trusted
        placed == IF edge /\ c.remote # "pipe" THEN [named EXCEPT !.outside = c.remote] ELSE named
        identified == rqIdentify(placed, c, edge, fresh)
        traced == IF c.tracing THEN rqTrace(identified, c) ELSE identified
    IN [h |-> rqXfcc(traced, c, hop), edge |-> edge]

\* The service before this proxy has passed the headers on, and may ask for
\* retries or a trace of its own.
RqHop(c) ==
    \E hash \in RqHashes, asks \in BOOLEAN :
        LET sent == IF asks THEN [rq.h EXCEPT !.only = TRUE, !.force = TRUE] ELSE rq.h
            fresh == [n |-> rq.ids + 1, trace |-> "NoTrace", hash |-> hash, whole |-> TRUE]
            m == rqMutate(sent, c, rq.hops + 1, fresh)
            used == m.h.id.n = fresh.n
        IN /\ rq.hops < RqMaxHops
           /\ used \/ hash = 0
           /\ asks => rq.what = "trust"
           /\ rq' = [rq EXCEPT !.h = m.h, !.hops = @ + 1, !.ids = IF used THEN @ + 1 ELSE @,
                               !.from = IF @ = "none" /\ c.use THEN c.remote ELSE @,
                               !.edge = m.edge, !.edges = @ + (IF m.edge THEN 1 ELSE 0),
                               !.certs = IF rq.what = "trust" THEN @ ELSE Append(@, [mode |-> c.mode, tls |-> c.tls]),
                               !.tracedBefore = rqIsTracing(rq.h), !.idBefore = rq.h.id,
                               !.unbroken = c.generate /\ (@ \/ rq.hops = 0),
                               !.enabled = ~c.tracing \/ rq.h.id.hash < c.enabled]

RqNext == \/ rq.what = "trust" /\ \E c \in rqTrusting : RqHop(c)
          \/ rq.what = "certificates" /\ \E c \in rqCertifying : RqHop(c)

RqSpec == RqInit /\ [][RqNext]_rq

-----------------------------------------------------------------------------
\* The certificates that should be in the header: of the hops that add theirs,
\* from the last on that lets nothing of those before it pass.
rqExpected(certs) ==
    LET adds(k) == certs[k].tls = "mutual" /\ certs[k].mode \in {"AppendForward", "SanitizeSet"}
        stops(k) == /\ certs[k].mode # "AlwaysForwardOnly"
                    /\ certs[k].tls # "mutual" \/ certs[k].mode \in {"Sanitize", "SanitizeSet"}
        last == SelectLastInSeq([k \in DOMAIN certs |-> stops(k)], LAMBDA x : x)
    IN SelectSeq([k \in 1..(Len(certs) + 1) |-> k - 1],
                 LAMBDA k : IF k = 0 THEN last = 0 ELSE k >= last /\ adds(k))

\* Through the whole chain: once a proxy has used the address of an external
\* peer the request is never internal again, nothing that internal services
\* alone may ask for passes a proxy, a forced trace where ids are generated
\* among it; an id, and the mark that it is traced, stay as they are but at an
\* edge or where tracing is switched off; and the certificates are those
\* of the hops since the last that let none pass (ConnectionManagerUtility,
\* HttpTracerUtility::mutateHeaders).
RqSound ==
    /\ rq.from = "external" => ~rq.h.internal /\ ~rq.h.only /\ ~rq.h.force
    /\ rq.from = "external" /\ rq.unbroken => rq.h.id.trace # "Forced"
    /\ rq.hops > 0 /\ ~rq.edge /\ rq.idBefore.n # 0 => rq.h.id.n = rq.idBefore.n
    /\ rq.hops > 0 /\ ~rq.edge /\ rq.tracedBefore /\ rq.enabled => rq.h.id = rq.idBefore
    /\ rq.unbroken /\ rq.hops > 0 => rq.h.id.n # 0
    /\ rq.edges = 0 => rq.h.outside = "none"
    /\ rq.what = "certificates" => rq.h.xfcc = rqExpected(rq.certs)
=============================================================================
