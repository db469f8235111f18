----------------------- MODULE RateLimitFilterProofs -----------------------
(***************************************************************************)
(* Proofs about RateLimitFilter: for any requests, any configuration of    *)
(* the filter, any buffer limit and any number of body chunks, the four    *)
(* safety properties of a request that passes the rate limit filter.       *)
(*                                                                         *)
(* None of them is inductive: what a reply of the service does depends on  *)
(* what every earlier event left behind in four objects (the stream, the   *)
(* filter, the gRPC call and the router).  The invariant (Inv, below)      *)
(* says in which phase the request is, and what each object holds then:    *)
(*   New     no headers yet, and nothing else has happened;                *)
(*   Held    the filter waits: the call is in flight, its verdict is not   *)
(*           charged, the router has nothing, all that came is buffered,   *)
(*           and reading is paused once per reason;                        *)
(*   Passed  the call is over and the router has all that came;            *)
(*   Gone    the stream is destroyed and the call is over.                 *)
(* A callback nests (complete() in onSuccess() in onTrailers()), so the    *)
(* lemmas follow the calls from the inside out: each says what one         *)
(* operator returns for a worker state W(stream, filter, call, router) in  *)
(* one of the phases, and an action's lemma cites the outermost one.       *)
(***************************************************************************)
EXTENDS RateLimitFilter, TLAPS

\* The worker state with its parts named; no ASSERT has failed.
W(s, f, c, r) == [stream |-> s, filter |-> f, call |-> c, router |-> r, failed |-> {}]

\* The stream is answered and destroyed: an HTTP/1 connection that stays open reads.
Ended(s) ==
  /\ s.state = "destroyed" /\ s.localComplete
  /\ protocol = "http1" /\ ~s.closing => s.paused = 0

LEMMA WFields ==
    ASSUME NEW s, NEW f, NEW c, NEW r
    PROVE  /\ W(s, f, c, r).stream = s /\ W(s, f, c, r).filter = f
           /\ W(s, f, c, r).call = c /\ W(s, f, c, r).router = r
  BY DEF W

LEMMA WUpdate ==
    ASSUME NEW s, NEW f, NEW c, NEW r, NEW x
    PROVE  /\ [W(s, f, c, r) EXCEPT !.stream = x] = W(x, f, c, r)
           /\ [W(s, f, c, r) EXCEPT !.filter = x] = W(s, x, c, r)
           /\ [W(s, f, c, r) EXCEPT !.call = x] = W(s, f, x, r)
           /\ [W(s, f, c, r) EXCEPT !.router = x] = W(s, f, c, x)
  BY DEF W

LEMMA WAssert ==
    ASSUME NEW w, NEW holds, NEW name, holds
    PROVE  Assert(w, holds, name) = w
  BY DEF Assert

----------------------------------------------------------------------------
(***************************************************************************)
(* A response ends the stream.                                             *)
(***************************************************************************)
LEMMA AnsweredStream ==
    ASSUME NEW s \in StreamType, NEW code \in {"429", "local", "upstream"}
    PROVE  LET t == answered(s, code)
           IN  /\ t \in StreamType /\ t.localComplete /\ t.response = code /\ t.trailers = s.trailers
               /\ t.hasBuffer = s.hasBuffer
<1>. DEFINE yes == TRUE
            ends == s.closing \/ (protocol = "http1" /\ ~s.remoteComplete)
            t == [s EXCEPT !.localComplete = yes, !.response = code, !.closing = ends]
<1>1. yes \in BOOLEAN /\ yes /\ ends \in BOOLEAN
  BY DEF StreamType
<1>2. answered(s, code) = t
  BY DEF answered
<1>. HIDE DEF yes, ends
<1>3. t \in StreamType
  BY <1>1 DEF StreamType
<1>4. t.localComplete = yes /\ t.response = code /\ t.trailers = s.trailers /\ t.hasBuffer = s.hasBuffer
  BY DEF StreamType
<1>. QED
  BY <1>1, <1>2, <1>3, <1>4

\* doEndStream() of a stream whose filter has no call.
LEMMA EndStream ==
    ASSUME NEW s \in StreamType, s.localComplete, NEW f, f.state # "Calling", NEW c, NEW r
    PROVE  \E t \in StreamType :
              /\ doEndStream(W(s, f, c, r)) = W(t, f, c, r)
              /\ Ended(t) /\ t.response = s.response /\ t.trailers = s.trailers /\ t.hasBuffer = s.hasBuffer
<1>. DEFINE yes == TRUE
            w == W(s, f, c, r)
            gone == "destroyed"
            s1 == [s EXCEPT !.state = gone]
            reset == ~s.remoteComplete \/ ~s.localComplete
            closes == s1.closing \/ (reset /\ protocol = "http1")
            s2 == [s1 EXCEPT !.closing = closes]
            zero == 0
            s3 == [s2 EXCEPT !.paused = zero]
            s4 == IF protocol = "http1" /\ ~s2.closing THEN s3 ELSE s2
            v == W(s1, f, c, r)
<1>1. yes \in BOOLEAN /\ yes /\ closes \in BOOLEAN
  <2>1. s1.closing \in BOOLEAN
    BY DEF StreamType
  <2>. QED
    BY <2>1
<1>2. w.stream = s /\ w.filter = f /\ v.stream = s1 /\ W(s2, f, c, r).stream = s2
  BY WFields
<1>3. [w EXCEPT !.stream.localComplete = yes] = w
  <2>. HIDE DEF yes
  <2>1. [w EXCEPT !.stream.localComplete = yes] = W([s EXCEPT !.localComplete = yes], f, c, r)
    BY DEF W
  <2>2. [s EXCEPT !.localComplete = yes] = s
    BY <1>1 DEF StreamType, yes
  <2>. QED
    BY <2>1, <2>2
<1>4. doDeferredStreamDestroy(w) = onDestroy(v)
  <2>1. [w EXCEPT !.stream.state = gone] = v
    BY DEF W
  <2>. QED
    BY <2>1 DEF doDeferredStreamDestroy
<1>5. onDestroy(v) = v
  <2>1. v.filter = f
    BY WFields
  <2>. QED
    BY <2>1 DEF onDestroy
<1>6. doEndStream(w) = unwindReadDisable([v EXCEPT !.stream.closing = v.stream.closing \/ (reset /\ protocol = "http1")])
  <2>. HIDE DEF w, v
  <2>1. doDeferredStreamDestroy([w EXCEPT !.stream.localComplete = yes]) = v
    BY <1>3, <1>4, <1>5
  <2>. QED
    BY <1>2, <2>1 DEF doEndStream
<1>7. [v EXCEPT !.stream.closing = closes] = W(s2, f, c, r)
  <2>. HIDE DEF closes
  <2>. QED
    BY DEF W
<1>8. doEndStream(w) = unwindReadDisable(W(s2, f, c, r))
  BY <1>2, <1>6, <1>7
<1>9. [W(s2, f, c, r) EXCEPT !.stream.paused = 0] = W(s3, f, c, r)
  BY DEF W
<1>10. unwindReadDisable(W(s2, f, c, r)) = W(s4, f, c, r)
  <2>1. CASE protocol = "http1" /\ ~s2.closing
    BY <1>2, <1>9, <2>1 DEF unwindReadDisable
  <2>2. CASE ~(protocol = "http1" /\ ~s2.closing)
    BY <1>2, <2>2 DEF unwindReadDisable
  <2>. QED
    BY <2>1, <2>2
<1>. HIDE DEF closes
<1>11. /\ s2 \in StreamType /\ s2.localComplete = s.localComplete /\ s2.response = s.response /\ s2.trailers = s.trailers
       /\ s2.hasBuffer = s.hasBuffer /\ s2.state = gone
  BY <1>1 DEF StreamType
<1>. HIDE DEF s2
<1>14. zero \in 0..2 /\ zero = 0
  OBVIOUS
<1>. HIDE DEF zero
<1>12. /\ s3 \in StreamType /\ s3.localComplete = s2.localComplete /\ s3.response = s2.response /\ s3.trailers = s2.trailers
       /\ s3.hasBuffer = s2.hasBuffer /\ s3.state = s2.state /\ s3.paused = zero
  BY <1>11, <1>14 DEF StreamType
<1>. HIDE DEF s3
<1>13. /\ s4 \in StreamType /\ s4.localComplete = s.localComplete /\ s4.response = s.response /\ s4.trailers = s.trailers
       /\ s4.hasBuffer = s.hasBuffer /\ s4.state = gone
       /\ (protocol = "http1" /\ ~s4.closing => s4.paused = 0)
  BY <1>11, <1>12, <1>14
<1>. QED
  BY <1>8, <1>10, <1>13 DEF Ended

LEMMA EncodeResponse ==
    ASSUME NEW s \in StreamType, ~s.localComplete, NEW f, f.state # "Calling", NEW c, NEW r,
           NEW code \in {"429", "local", "upstream"}
    PROVE  \E t \in StreamType :
              /\ encodeResponse(W(s, f, c, r), code) = W(t, f, c, r)
              /\ Ended(t) /\ t.response = code /\ t.trailers = s.trailers /\ t.hasBuffer = s.hasBuffer
<1>. DEFINE w == W(s, f, c, r)
            a == answered(s, code)
<1>1. w.stream = s /\ [w EXCEPT !.stream = a] = W(a, f, c, r)
  BY WFields, WUpdate
<1>2. Assert(w, ~w.stream.localComplete, "commonEncodePrefix") = w
  BY <1>1, WAssert
<1>3. encodeResponse(w, code) = doEndStream(W(a, f, c, r))
  <2>. HIDE DEF w
  <2>. QED
    BY <1>1, <1>2 DEF encodeResponse
<1>4. /\ a \in StreamType /\ a.localComplete /\ a.response = code /\ a.trailers = s.trailers
      /\ a.hasBuffer = s.hasBuffer
  BY AnsweredStream
<1>. HIDE DEF a
<1>. QED
  BY <1>3, <1>4, EndStream

----------------------------------------------------------------------------
(***************************************************************************)
(* The chain is resumed.                                                   *)
(***************************************************************************)

\* The filter holds the request; n pauses are not those of the request buffer.
Held(s, n) ==
  /\ s.state = "open" /\ ~s.localComplete /\ s.stopped /\ ~s.headersContinued /\ s.response = "none" /\ ~s.closing
  /\ s.buffered = s.received /\ (s.received > 0 => s.hasBuffer) /\ (s.above => s.hasBuffer)
  /\ s.paused = (IF s.above THEN 1 ELSE 0) + n /\ (s.trailers => s.remoteComplete)

\* The router has the request.
Passed(s, n) ==
  /\ s.state = "open" /\ ~s.localComplete /\ ~s.stopped /\ s.headersContinued /\ s.response = "none" /\ ~s.closing
  /\ s.buffered = 0 /\ ~s.above /\ s.paused = n /\ (s.trailers => s.remoteComplete)

Empty(r) == r.headers = 0 /\ r.bytes = 0 /\ r.trailers = 0 /\ ~r.ended

Whole(r, s) ==
  /\ r.headers = 1 /\ r.bytes = s.received /\ r.ended = s.remoteComplete
  /\ r.trailers = IF s.trailers THEN 1 ELSE 0

LEMMA RouterHeaders ==
    ASSUME NEW r \in RouterType, Empty(r), NEW e \in BOOLEAN
    PROVE  LET q == withHeaders(r, e)
           IN  q \in RouterType /\ q.headers = 1 /\ q.bytes = 0 /\ q.trailers = 0 /\ q.ended = e
<1>. DEFINE n == r.headers + 1
            q == [r EXCEPT !.headers = n, !.ended = e]
<1>1. n \in 0..1 /\ n = 1
  BY DEF Empty
<1>2. withHeaders(r, e) = q
  BY DEF withHeaders
<1>. HIDE DEF n
<1>3. q \in RouterType /\ q.headers = n /\ q.bytes = r.bytes /\ q.trailers = r.trailers /\ q.ended = e
  BY <1>1 DEF RouterType
<1>. QED
  BY <1>1, <1>2, <1>3 DEF Empty

LEMMA RouterData ==
    ASSUME NEW r \in RouterType, NEW bytes \in Nat, r.bytes + bytes <= MaxChunks, NEW e \in BOOLEAN
    PROVE  LET q == withData(r, bytes, e)
           IN  q \in RouterType /\ q.headers = r.headers /\ q.bytes = r.bytes + bytes /\ q.trailers = r.trailers /\ q.ended = e
<1>. DEFINE n == r.bytes + bytes
            q == [r EXCEPT !.bytes = n, !.ended = e]
<1>1. n \in 0..MaxChunks
  BY FilterAssumption DEF RouterType
<1>2. withData(r, bytes, e) = q
  BY DEF withData
<1>. HIDE DEF n
<1>3. q \in RouterType /\ q.headers = r.headers /\ q.bytes = n /\ q.trailers = r.trailers /\ q.ended = e
  BY <1>1 DEF RouterType
<1>. QED
  BY <1>2, <1>3 DEF n

LEMMA RouterTrailers ==
    ASSUME NEW r \in RouterType, r.trailers = 0
    PROVE  LET q == withTrailers(r)
           IN  q \in RouterType /\ q.headers = r.headers /\ q.bytes = r.bytes /\ q.trailers = 1 /\ q.ended = TRUE
<1>. DEFINE n == r.trailers + 1
            yes == TRUE
            q == [r EXCEPT !.trailers = n, !.ended = yes]
<1>1. n \in 0..1 /\ n = 1 /\ yes \in BOOLEAN
  OBVIOUS
<1>2. withTrailers(r) = q
  BY DEF withTrailers
<1>. HIDE DEF n, yes
<1>3. q \in RouterType /\ q.headers = r.headers /\ q.bytes = r.bytes /\ q.trailers = n /\ q.ended = yes
  BY <1>1 DEF RouterType
<1>. QED
  BY <1>1, <1>2, <1>3 DEF yes

LEMMA DrainedStream ==
    ASSUME NEW s \in StreamType, NEW n \in 0..1, s.paused = (IF s.above THEN 1 ELSE 0) + n
    PROVE  LET t == drained(s)
           IN  /\ t \in StreamType /\ t.buffered = 0 /\ t.above = FALSE /\ t.paused = n /\ t.state = s.state
               /\ t.localComplete = s.localComplete /\ t.stopped = s.stopped /\ t.headersContinued = s.headersContinued
               /\ t.response = s.response /\ t.closing = s.closing /\ t.received = s.received
               /\ t.trailers = s.trailers /\ t.remoteComplete = s.remoteComplete
<1>. DEFINE no == FALSE
            zero == 0
            left == s.paused - (IF s.above THEN 1 ELSE 0)
            t == [s EXCEPT !.buffered = zero, !.above = no, !.paused = left]
<1>1. no \in BOOLEAN /\ zero \in 0..MaxChunks /\ zero = 0 /\ left = n /\ left \in 0..2
  BY FilterAssumption DEF StreamType
<1>2. drained(s) = t
  BY DEF drained
<1>. HIDE DEF no, zero, left
<1>3. t \in StreamType
  BY <1>1 DEF StreamType
<1>4. /\ t.buffered = zero /\ t.above = no /\ t.paused = left /\ t.state = s.state
      /\ t.localComplete = s.localComplete /\ t.stopped = s.stopped /\ t.headersContinued = s.headersContinued
      /\ t.response = s.response /\ t.closing = s.closing /\ t.received = s.received
      /\ t.trailers = s.trailers /\ t.remoteComplete = s.remoteComplete
  BY DEF StreamType
<1>. QED
  BY <1>1, <1>2, <1>3, <1>4 DEF no

\* The router's part of a resumed chain, without an answer: headers are in, the
\* buffered body and the trailers follow.
LEMMA ReplayBody ==
    ASSUME NEW s \in StreamType, NEW n \in 0..1, s.paused = (IF s.above THEN 1 ELSE 0) + n, ~s.localComplete,
           NEW f, NEW c, NEW r \in RouterType, r.ended = FALSE, r.bytes + s.buffered <= MaxChunks, NEW e \in BOOLEAN
    PROVE  decodeBufferedData(W(s, f, c, r), e) = W(drained(s), f, c, withData(r, s.buffered, e))
<1>. DEFINE w == W(s, f, c, r)
            q == withData(r, s.buffered, e)
            v == W(s, f, c, q)
<1>1. w.stream = s /\ w.router = r /\ [w EXCEPT !.router = q] = v
  BY WFields, WUpdate
<1>2. v.stream = s /\ [v EXCEPT !.stream = drained(s)] = W(drained(s), f, c, q)
  BY WFields, WUpdate
<1>3. Assert(w, ~w.router.ended, "encodeData") = w
  BY <1>1, WAssert
<1>4. Assert(v, v.stream.above => v.stream.paused > 0, "readDisable") = v
  <2>1. v.stream.above => v.stream.paused > 0
    BY <1>2
  <2>. QED
    BY <2>1, WAssert
<1>5. routerDecodeData(w, w.stream.buffered, e) = v
  <2>. HIDE DEF w, v
  <2>. QED
    BY <1>1, <1>3 DEF routerDecodeData
<1>6. drainBuffer(v) = W(drained(s), f, c, q)
  <2>. HIDE DEF v
  <2>. QED
    BY <1>2, <1>4 DEF drainBuffer
<1>. HIDE DEF w, v
<1>7. decodeBufferedData(w, e) = drainBuffer(v)
  BY <1>1, <1>5 DEF decodeBufferedData
<1>. QED
  BY <1>6, <1>7 DEF w

LEMMA ReplayTrailers ==
    ASSUME NEW s, ~s.localComplete, NEW f, NEW c, NEW r, ~r.ended
    PROVE  decodeTrailers(W(s, f, c, r)) = W(s, f, c, withTrailers(r))
<1>. DEFINE w == W(s, f, c, r)
<1>1. w.stream = s /\ w.router = r /\ [w EXCEPT !.router = withTrailers(r)] = W(s, f, c, withTrailers(r))
  BY WFields, WUpdate
<1>2. Assert(w, ~w.router.ended, "encodeTrailers") = w
  BY <1>1, WAssert
<1>. HIDE DEF w
<1>3. decodeTrailers(w) = W(s, f, c, withTrailers(r))
  BY <1>1, <1>2 DEF decodeTrailers
<1>. QED
  BY <1>3 DEF w

\* After an answer of the router nothing more is replayed.
LEMMA ReplayNothing ==
    ASSUME NEW w, w.stream.localComplete, NEW e
    PROVE  decodeBufferedData(w, e) = w /\ decodeTrailers(w) = w
  BY DEF decodeBufferedData, decodeTrailers

\* commonContinue() is three calls of the router.
Resumed(s) == [[s EXCEPT !.stopped = FALSE] EXCEPT !.headersContinued = TRUE]
HeadersReplayed(s, f, c, r, replies) == routerDecodeHeaders(W(s, f, c, r), headersEndStream(s), replies)
BodyReplayed(w) ==
  IF w.stream.hasBuffer THEN decodeBufferedData(w, w.stream.remoteComplete /\ ~w.stream.trailers) ELSE w
TrailersReplayed(w) == IF w.stream.trailers THEN decodeTrailers(w) ELSE w

LEMMA ContinueUnfolds ==
    ASSUME NEW s \in StreamType, s.stopped, ~s.headersContinued, NEW f, NEW c, NEW r, NEW replies
    PROVE  commonContinue(W(s, f, c, r), replies) =
             TrailersReplayed(BodyReplayed(HeadersReplayed(Resumed(s), f, c, r, replies)))
<1>. DEFINE no == FALSE
            yes == TRUE
            s0 == [s EXCEPT !.stopped = no]
            s1 == [s0 EXCEPT !.headersContinued = yes]
            v == HeadersReplayed(s1, f, c, r, replies)
            u == BodyReplayed(v)
            w == W(s, f, c, r)
            w0 == W(s0, f, c, r)
            a0 == [Assert(w, w.stream.stopped, "commonContinue") EXCEPT !.stream.stopped = no]
            a1 == IF a0.stream.headersContinued THEN a0
                  ELSE routerDecodeHeaders([a0 EXCEPT !.stream.headersContinued = yes],
                                           headersEndStream(a0.stream), replies)
            a2 == IF a1.stream.hasBuffer
                  THEN decodeBufferedData(a1, a1.stream.remoteComplete /\ ~a1.stream.trailers) ELSE a1
<1>1. w.stream = s /\ w0.stream = s0
  BY WFields
<1>2. Assert(w, w.stream.stopped, "commonContinue") = w
  BY <1>1, WAssert
<1>3. [w EXCEPT !.stream.stopped = no] = w0 /\ [w0 EXCEPT !.stream.headersContinued = yes] = W(s1, f, c, r)
  <2>. HIDE DEF no, yes
  <2>. QED
    BY DEF W
<1>4. s0.headersContinued = s.headersContinued /\ headersEndStream(s0) = headersEndStream(s1)
  <2>. HIDE DEF no, yes
  <2>. QED
    BY DEF StreamType, headersEndStream
<1>10. Resumed(s) = s1
  BY DEF Resumed
<1>5. commonContinue(w, replies) = IF a2.stream.trailers THEN decodeTrailers(a2) ELSE a2
  <2>. HIDE DEF w
  <2>. QED
    BY DEF commonContinue
<1>6. a0 = w0
  <2>. HIDE DEF w, w0, no
  <2>1. a0 = [w EXCEPT !.stream.stopped = no]
    BY <1>2
  <2>. QED
    BY <1>3, <2>1
<1>7. a1 = v
  <2>. HIDE DEF w, w0, s0, a0, yes
  <2>1. ~a0.stream.headersContinued
    BY <1>1, <1>4, <1>6
  <2>2. [a0 EXCEPT !.stream.headersContinued = yes] = W(s1, f, c, r)
    BY <1>3, <1>6
  <2>3. headersEndStream(a0.stream) = headersEndStream(s1)
    BY <1>1, <1>4, <1>6
  <2>. QED
    BY <2>1, <2>2, <2>3 DEF HeadersReplayed
<1>. HIDE DEF w, a0, a1, v
<1>8. a2 = u
  BY <1>7 DEF BodyReplayed
<1>. HIDE DEF a2, u
<1>9. commonContinue(w, replies) = TrailersReplayed(u)
  BY <1>5, <1>8 DEF TrailersReplayed
<1>. QED
  BY <1>9, <1>10 DEF w, u, v

LEMMA ContinueOK ==
    ASSUME NEW s \in StreamType, NEW n \in 0..1, Held(s, n), NEW f, f.state # "Calling", NEW c,
           NEW r \in RouterType, Empty(r), NEW replies \in BOOLEAN
    PROVE  \E t \in StreamType, q \in RouterType :
              /\ commonContinue(W(s, f, c, r), replies) = W(t, f, c, q) /\ q.headers = 1
              /\ \/ Passed(t, n) /\ Whole(q, t) /\ t.remoteComplete = s.remoteComplete
                 \/ Ended(t) /\ t.response = "local"
<1>. DEFINE no == FALSE
            yes == TRUE
            s1 == [[s EXCEPT !.stopped = no] EXCEPT !.headersContinued = yes]
            e == headersEndStream(s1)
            v == HeadersReplayed(s1, f, c, r, replies)
            u == BodyReplayed(v)
            q1 == withHeaders(r, e)
<1>0. no = FALSE /\ yes = TRUE /\ s.stopped /\ ~s.headersContinued
  BY DEF Held
<1>1. commonContinue(W(s, f, c, r), replies) = TrailersReplayed(u)
  <2>1. commonContinue(W(s, f, c, r), replies) =
          TrailersReplayed(BodyReplayed(HeadersReplayed(Resumed(s), f, c, r, replies)))
    BY <1>0, ContinueUnfolds
  <2>2. Resumed(s) = s1
    BY DEF Resumed
  <2>. HIDE DEF s1
  <2>. QED
    BY <2>1, <2>2
<1>2. no \in BOOLEAN /\ ~no /\ yes \in BOOLEAN /\ yes
  OBVIOUS
<1>. HIDE DEF no, yes
<1>3. /\ s1 \in StreamType /\ s1.stopped = no /\ s1.headersContinued = yes
      /\ s1.state = s.state /\ s1.localComplete = s.localComplete /\ s1.response = s.response /\ s1.closing = s.closing
      /\ s1.buffered = s.buffered /\ s1.received = s.received /\ s1.hasBuffer = s.hasBuffer /\ s1.above = s.above
      /\ s1.paused = s.paused /\ s1.trailers = s.trailers /\ s1.remoteComplete = s.remoteComplete
  BY <1>2 DEF StreamType
<1>. HIDE DEF s1
<1>4. e \in BOOLEAN /\ e = (s1.remoteComplete /\ ~s1.hasBuffer /\ ~s1.trailers)
  <2>1. s1.remoteComplete \in BOOLEAN /\ s1.hasBuffer \in BOOLEAN /\ s1.trailers \in BOOLEAN
    BY <1>3 DEF StreamType
  <2>. QED
    BY <2>1 DEF headersEndStream
<1>. HIDE DEF e
<1>5. q1 \in RouterType /\ q1.headers = 1 /\ q1.bytes = 0 /\ q1.trailers = 0 /\ q1.ended = e
  BY <1>4, RouterHeaders
<1>. HIDE DEF q1
<1>6. v = IF replies THEN encodeResponse(W(s1, f, c, q1), "local") ELSE W(s1, f, c, q1)
  <2>1. W(s1, f, c, r).router = r /\ [W(s1, f, c, r) EXCEPT !.router = q1] = W(s1, f, c, q1)
    BY WFields, WUpdate
  <2>. QED
    BY <2>1 DEF HeadersReplayed, routerDecodeHeaders, q1, e
<1>7. CASE replies
  <2>1. ~s1.localComplete
    BY <1>3 DEF Held
  <2>2. PICK t \in StreamType : v = W(t, f, c, q1) /\ Ended(t) /\ t.response = "local"
    BY <1>3, <1>6, <1>7, <2>1, EncodeResponse
  <2>3. v.stream.localComplete
    BY <2>2, WFields DEF Ended
  <2>. HIDE DEF v
  <2>4. u = v
    BY <2>3, ReplayNothing DEF BodyReplayed
  <2>5. commonContinue(W(s, f, c, r), replies) = v
    BY <1>1, <2>3, <2>4, ReplayNothing DEF TrailersReplayed
  <2>. QED
    BY <1>5, <2>2, <2>5
<1>8. CASE ~replies
  <2>1. v = W(s1, f, c, q1) /\ v.stream = s1
    BY <1>6, <1>8, WFields
  <2>. HIDE DEF v
  <2>. DEFINE end == s1.remoteComplete /\ ~s1.trailers
              s2 == IF s1.hasBuffer THEN drained(s1) ELSE s1
              q2 == IF s1.hasBuffer THEN withData(q1, s1.buffered, end) ELSE q1
  <2>2. s1.buffered \in Nat /\ s1.buffered <= MaxChunks /\ s1.paused = (IF s1.above THEN 1 ELSE 0) + n /\ ~s1.localComplete
    BY <1>3, FilterAssumption DEF StreamType, Held
  <2>3. end \in BOOLEAN /\ s1.hasBuffer \in BOOLEAN /\ s1.remoteComplete \in BOOLEAN /\ s1.trailers \in BOOLEAN /\ s1.above \in BOOLEAN
    BY <1>3 DEF StreamType
  <2>4. s1.hasBuffer => q1.ended = FALSE
    BY <1>4, <1>5
  <2>5. s1.hasBuffer => decodeBufferedData(v, end) = W(drained(s1), f, c, withData(q1, s1.buffered, end))
    <3>. SUFFICES ASSUME s1.hasBuffer PROVE decodeBufferedData(v, end) = W(drained(s1), f, c, withData(q1, s1.buffered, end))
      OBVIOUS
    <3>1. q1.bytes + s1.buffered <= MaxChunks /\ q1.ended = FALSE
      BY <1>5, <2>2, <2>4
    <3>2. /\ s1 \in StreamType /\ s1.paused = (IF s1.above THEN 1 ELSE 0) + n /\ ~s1.localComplete /\ q1 \in RouterType
          /\ end \in BOOLEAN
      BY <1>3, <1>5, <2>2, <2>3
    <3>. HIDE DEF end, v
    <3>3. decodeBufferedData(W(s1, f, c, q1), end) = W(drained(s1), f, c, withData(q1, s1.buffered, end))
      BY <3>1, <3>2, ReplayBody
    <3>. QED
      BY <2>1, <3>3
  <2>6. u = W(s2, f, c, q2)
    BY <2>1, <2>5 DEF BodyReplayed
  <2>7. /\ s1.hasBuffer => drained(s1) \in StreamType
        /\ s2 \in StreamType /\ s2.buffered = 0 /\ ~s2.above /\ s2.paused = n /\ s2.state = s1.state
        /\ s2.localComplete = s1.localComplete /\ s2.stopped = s1.stopped /\ s2.headersContinued = s1.headersContinued
        /\ s2.response = s1.response /\ s2.closing = s1.closing /\ s2.received = s1.received
        /\ s2.trailers = s1.trailers /\ s2.remoteComplete = s1.remoteComplete
    <3>1. CASE s1.hasBuffer
      BY <1>3, <2>2, <3>1, DrainedStream
    <3>2. CASE ~s1.hasBuffer
      <4>1. s1.received \in Nat
        BY <1>3, FilterAssumption DEF StreamType
      <4>2. ~s1.above /\ s1.buffered = 0
        BY <1>3, <3>2, <4>1 DEF Held
      <4>. QED
        BY <1>3, <2>2, <3>2, <4>2
    <3>. QED
      BY <2>3, <3>1, <3>2
  <2>8. /\ q2 \in RouterType /\ q2.headers = 1 /\ q2.bytes = s1.received /\ q2.trailers = 0
        /\ q2.ended = end
    <3>1. s1.buffered = s1.received
      BY <1>3 DEF Held
    <3>2. CASE s1.hasBuffer
      <4>. HIDE DEF end
      <4>1. q1.bytes + s1.buffered <= MaxChunks /\ q1.bytes + s1.buffered = s1.buffered
        BY <1>5, <2>2
      <4>. QED
        BY <1>5, <2>2, <2>3, <3>1, <3>2, <4>1, RouterData
    <3>3. CASE ~s1.hasBuffer
      <4>1. s1.received \in Nat
        BY <1>3, FilterAssumption DEF StreamType
      <4>2. s1.received = 0
        BY <1>3, <3>3, <4>1 DEF Held
      <4>3. e = end
        BY <1>4, <2>3, <3>3
      <4>. QED
        BY <1>5, <3>3, <4>2, <4>3
    <3>. QED
      BY <2>3, <3>2, <3>3
  <2>. HIDE DEF s2, q2, u
  <2>9. u.stream = s2
    BY <2>6, WFields
  <2>10. Passed(s2, n) /\ s2.remoteComplete = s.remoteComplete
    BY <1>2, <1>3, <2>7 DEF Passed, Held
  <2>11. CASE s2.trailers
    <3>1. s1.remoteComplete /\ s1.trailers /\ ~q2.ended
      BY <1>3, <2>7, <2>8, <2>11 DEF Held
    <3>2. commonContinue(W(s, f, c, r), replies) = W(s2, f, c, withTrailers(q2))
      BY <1>1, <2>2, <2>6, <2>7, <2>9, <2>11, <3>1, ReplayTrailers DEF TrailersReplayed
    <3>. DEFINE q3 == withTrailers(q2)
    <3>3. q3 \in RouterType /\ q3.headers = 1 /\ q3.bytes = s1.received /\ q3.trailers = 1 /\ q3.ended = TRUE
      BY <2>8, RouterTrailers
    <3>. HIDE DEF q3
    <3>4. s2.remoteComplete = TRUE
      BY <2>3, <2>7, <3>1
    <3>5. Whole(q3, s2)
      BY <2>7, <2>11, <3>3, <3>4 DEF Whole
    <3>. QED
      BY <2>7, <2>10, <3>2, <3>3, <3>5 DEF q3
  <2>12. CASE ~s2.trailers
    <3>1. commonContinue(W(s, f, c, r), replies) = W(s2, f, c, q2)
      BY <1>1, <2>6, <2>9, <2>12 DEF TrailersReplayed
    <3>2. end = s2.remoteComplete
      BY <2>3, <2>7, <2>12
    <3>3. Whole(q2, s2)
      BY <2>7, <2>8, <2>12, <3>2 DEF Whole
    <3>. QED
      BY <2>7, <2>8, <2>10, <3>1, <3>3
  <2>. QED
    BY <2>11, <2>12
<1>. QED
  BY <1>7, <1>8

----------------------------------------------------------------------------
(***************************************************************************)
(* The call is completed.                                                  *)
(***************************************************************************)
Sum(f) == f.ok + f.error + f.overLimit

Uncharged(f) == f.ok = 0 /\ f.error = 0 /\ f.overLimit = 0

\* What HeldUntilJudged says.
Judged(s, f, r) ==
  /\ r.headers > 0 => f.state \in {"NotStarted", "Complete"} /\ Sum(f) = IF f.state = "NotStarted" THEN 0 ELSE 1
  /\ s.response = "429" => r.headers = 0 /\ f.overLimit = 1

\* The request is past the filter, or answered.
Settled(s, f, r, n, complete1) ==
  \/ Passed(s, n) /\ s.remoteComplete = complete1 /\ Whole(r, s) /\ f.state = "Complete" /\ Sum(f) = 1
  \/ Ended(s) /\ Judged(s, f, r)

Statuses == {"OK", "Error", "OverLimit"}

LEMMA ChargedFilter ==
    ASSUME NEW f \in FilterType, Uncharged(f), NEW status \in Statuses
    PROVE  LET g == charged(f, status)
           IN  /\ g \in FilterType /\ g.state = "Complete" /\ Sum(g) = 1 /\ g.initiating = f.initiating
               /\ status = "OverLimit" => g.overLimit = 1
<1>. DEFINE a == f.ok + (IF status = "OK" THEN 1 ELSE 0)
            b == f.error + (IF status = "Error" THEN 1 ELSE 0)
            d == f.overLimit + (IF status = "OverLimit" THEN 1 ELSE 0)
            g == [f EXCEPT !.state = "Complete", !.ok = a, !.error = b, !.overLimit = d]
<1>1. a \in 0..1 /\ b \in 0..1 /\ d \in 0..1 /\ a + b + d = 1 /\ (status = "OverLimit" => d = 1)
  BY DEF Uncharged, Statuses
<1>2. charged(f, status) = g
  BY DEF charged
<1>. HIDE DEF a, b, d
<1>3. g \in FilterType /\ g.state = "Complete" /\ g.ok = a /\ g.error = b /\ g.overLimit = d /\ g.initiating = f.initiating
  BY <1>1 DEF FilterType
<1>. QED
  BY <1>1, <1>2, <1>3 DEF Sum

LEMMA CompleteOK ==
    ASSUME NEW s \in StreamType, NEW n \in 0..1, Held(s, n), NEW f \in FilterType, Uncharged(f), ~f.initiating, NEW c,
           NEW r \in RouterType, Empty(r), NEW status \in Statuses, NEW enforcing \in BOOLEAN, NEW replies \in BOOLEAN
    PROVE  \E t \in StreamType, g \in FilterType, q \in RouterType :
              /\ complete(W(s, f, c, r), status, enforcing, replies) = W(t, g, c, q)
              /\ Settled(t, g, q, n, s.remoteComplete)
<1>. DEFINE w == W(s, f, c, r)
            g == charged(f, status)
            v == W(s, g, c, r)
            g2 == [g EXCEPT !.state = "Responded"]
<1>1. w.filter = f /\ [w EXCEPT !.filter = g] = v
  BY WFields, WUpdate
<1>2. [v EXCEPT !.filter.state = "Responded"] = W(s, g2, c, r)
  BY DEF W
<1>3. /\ g \in FilterType /\ g.state = "Complete" /\ Sum(g) = 1
      /\ status = "OverLimit" => g.overLimit = 1
  BY ChargedFilter
<1>4. complete(w, status, enforcing, replies) =
        IF status = "OverLimit" /\ enforcing THEN encodeResponse(W(s, g2, c, r), "429")
        ELSE commonContinue(v, replies)
  <2>. HIDE DEF w, v, g2
  <2>. DEFINE a == [w EXCEPT !.filter = charged(w.filter, status)]
  <2>1. a = v
    BY <1>1
  <2>2. complete(w, status, enforcing, replies) =
          IF status = "OverLimit" /\ enforcing THEN encodeResponse([a EXCEPT !.filter.state = "Responded"], "429")
          ELSE IF ~w.filter.initiating THEN commonContinue(a, replies)
          ELSE a
    BY DEF complete
  <2>. HIDE DEF a, g
  <2>3. ~w.filter.initiating
    BY <1>1
  <2>. QED
    BY <1>2, <2>1, <2>2, <2>3
<1>. HIDE DEF w, g
<1>5. g2 \in FilterType /\ g2.state = "Responded" /\ g2.overLimit = g.overLimit
  BY <1>3 DEF FilterType
<1>6. CASE status = "OverLimit" /\ enforcing
  <2>. HIDE DEF g2
  <2>1. ~s.localComplete /\ g2.state # "Calling" /\ r.headers = 0
    BY <1>5 DEF Held, Empty
  <2>2. PICK t \in StreamType :
          encodeResponse(W(s, g2, c, r), "429") = W(t, g2, c, r) /\ Ended(t) /\ t.response = "429"
    BY <2>1, EncodeResponse
  <2>3. Judged(t, g2, r)
    BY <1>3, <1>5, <1>6, <2>1, <2>2 DEF Judged
  <2>4. Settled(t, g2, r, n, s.remoteComplete)
    BY <2>2, <2>3 DEF Settled
  <2>. QED
    BY <1>4, <1>5, <1>6, <2>2, <2>4 DEF w
<1>7. CASE ~(status = "OverLimit" /\ enforcing)
  <2>1. g.state # "Calling"
    BY <1>3
  <2>2. PICK t \in StreamType, q \in RouterType :
              /\ commonContinue(v, replies) = W(t, g, c, q) /\ q.headers = 1
              /\ \/ Passed(t, n) /\ Whole(q, t) /\ t.remoteComplete = s.remoteComplete
                 \/ Ended(t) /\ t.response = "local"
    BY <2>1, ContinueOK
  <2>3. Settled(t, g, q, n, s.remoteComplete)
    BY <1>3, <2>2 DEF Settled, Judged
  <2>. QED
    BY <1>3, <1>4, <1>7, <2>2, <2>3 DEF w
<1>. QED
  BY <1>6, <1>7

\* What becomes of the call.
Over(c) == ~c.callbacks /\ ~c.listed /\ c.http \in {"idle", "closed"}

\* Of the client's callbacks only the last is in doubt.
LEMMA ClientCompleteOK ==
    ASSUME NEW s \in StreamType, NEW n \in 0..1, Held(s, n), NEW f \in FilterType, Uncharged(f), ~f.initiating,
           NEW c \in CallType, c.callbacks, NEW r \in RouterType, Empty(r), NEW status \in Statuses,
           NEW enforcing \in BOOLEAN, NEW replies \in BOOLEAN
    PROVE  \E t \in StreamType, g \in FilterType, d \in CallType, q \in RouterType :
              /\ clientComplete(W(s, f, c, r), status, enforcing, replies) = W(t, g, d, q)
              /\ Settled(t, g, q, n, s.remoteComplete) /\ ~d.callbacks /\ d.localClosed = c.localClosed
<1>. DEFINE w == W(s, f, c, r)
            no == FALSE
            d == [c EXCEPT !.callbacks = no]
<1>1. PICK t \in StreamType, g \in FilterType, q \in RouterType :
              /\ complete(w, status, enforcing, replies) = W(t, g, c, q)
              /\ Settled(t, g, q, n, s.remoteComplete)
  BY CompleteOK
<1>2. w.call = c
  BY WFields
<1>3. Assert(w, w.call.callbacks, "callbacks_") = w
  BY <1>2, WAssert
<1>4. no \in BOOLEAN /\ ~no
  OBVIOUS
<1>5. [W(t, g, c, q) EXCEPT !.call.callbacks = no] = W(t, g, d, q)
  <2>. HIDE DEF no
  <2>. QED
    BY DEF W
<1>6. clientComplete(w, status, enforcing, replies) = [W(t, g, c, q) EXCEPT !.call.callbacks = no]
  <2>. HIDE DEF w
  <2>. QED
    BY <1>1, <1>3 DEF clientComplete
<1>. HIDE DEF no, w
<1>7. d \in CallType /\ d.callbacks = no /\ d.localClosed = c.localClosed
  BY <1>4 DEF CallType
<1>. HIDE DEF d
<1>. QED
  BY <1>1, <1>4, <1>5, <1>6, <1>7 DEF w

LEMMA OnRemoteCloseOK ==
    ASSUME NEW s \in StreamType, NEW n \in 0..1, Held(s, n), NEW f \in FilterType, Uncharged(f), ~f.initiating,
           NEW c \in CallType, c.callbacks, NEW r \in RouterType, Empty(r), NEW grpcStatus,
           NEW enforcing \in BOOLEAN, NEW replies \in BOOLEAN
    PROVE  \E t \in StreamType, g \in FilterType, d \in CallType, q \in RouterType :
              /\ onRemoteClose(W(s, f, c, r), grpcStatus, enforcing, replies) = W(t, g, d, q)
              /\ Settled(t, g, q, n, s.remoteComplete) /\ ~d.callbacks /\ d.localClosed = c.localClosed
<1>. DEFINE w == W(s, f, c, r)
            status == IF grpcStatus # "ok" \/ w.call.response = "none" THEN "Error"
                      ELSE IF w.call.response = "OVER_LIMIT" THEN "OverLimit" ELSE "OK"
            none == "none"
            c1 == IF status = "Error" THEN c ELSE [c EXCEPT !.response = none]
            v == W(s, f, c1, r)
<1>1. status \in Statuses
  BY DEF Statuses
<1>2. (IF status = "Error" THEN w ELSE [w EXCEPT !.call.response = none]) = v
  <2>. HIDE DEF status
  <2>. QED
    BY DEF W
<1>3. onRemoteClose(w, grpcStatus, enforcing, replies) = clientComplete(v, status, enforcing, replies)
  <2>. HIDE DEF w, v
  <2>. QED
    BY <1>2 DEF onRemoteClose
<1>. HIDE DEF status, w
<1>4. c1 \in CallType /\ c1.callbacks /\ c1.localClosed = c.localClosed
  BY DEF CallType
<1>. HIDE DEF c1
<1>. QED
  BY <1>1, <1>3, <1>4, ClientCompleteOK DEF w

LEMMA CleanupOK ==
    ASSUME NEW s, NEW f, NEW c \in CallType, ~c.callbacks, NEW r
    PROVE  \E d \in CallType : cleanup(W(s, f, c, r)) = W(s, f, d, r) /\ Over(d) /\ d.httpReset
<1>. DEFINE w == W(s, f, c, r)
            yes == TRUE
            no == FALSE
            closed == "closed"
            d == [c EXCEPT !.httpReset = yes, !.http = closed, !.listed = no]
<1>1. yes \in BOOLEAN /\ yes /\ no \in BOOLEAN /\ ~no
  OBVIOUS
<1>2. w.call = c /\ [w EXCEPT !.call = d] = W(s, f, d, r)
  <2>. HIDE DEF d
  <2>. QED
    BY WFields, WUpdate
<1>3. cleanup(w) = [w EXCEPT !.call = [w.call EXCEPT !.httpReset = yes, !.http = closed, !.listed = no]]
  <2>. HIDE DEF w
  <2>. QED
    BY DEF cleanup
<1>. HIDE DEF yes, no
<1>4. d \in CallType /\ d.httpReset = yes /\ d.http = closed /\ d.listed = no /\ d.callbacks = c.callbacks
  BY <1>1 DEF CallType
<1>5. cleanup(w) = W(s, f, d, r)
  <2>. HIDE DEF w
  <2>. QED
    BY <1>2, <1>3
<1>. HIDE DEF d
<1>. QED
  BY <1>1, <1>4, <1>5 DEF Over

LEMMA ResetStreamOK ==
    ASSUME NEW s, NEW f, NEW c \in CallType, ~c.callbacks, NEW r
    PROVE  \E d \in CallType : resetStream(W(s, f, c, r)) = W(s, f, d, r) /\ Over(d) /\ d.httpReset
<1>. DEFINE w == W(s, f, c, r)
            yes == TRUE
            d == [c EXCEPT !.localClosed = yes, !.remoteClosed = yes]
<1>1. yes \in BOOLEAN
  OBVIOUS
<1>2. w.call = c /\ [w EXCEPT !.call = d] = W(s, f, d, r)
  <2>. HIDE DEF d
  <2>. QED
    BY WFields, WUpdate
<1>3. resetStream(w) = cleanup([w EXCEPT !.call = [w.call EXCEPT !.localClosed = yes, !.remoteClosed = yes]])
  <2>. HIDE DEF w
  <2>. QED
    BY DEF resetStream
<1>. HIDE DEF yes
<1>4. d \in CallType /\ d.callbacks = c.callbacks
  BY <1>1 DEF CallType
<1>5. resetStream(w) = cleanup(W(s, f, d, r))
  <2>. HIDE DEF w
  <2>. QED
    BY <1>2, <1>3
<1>. HIDE DEF d
<1>. QED
  BY <1>4, <1>5, CleanupOK

LEMMA StreamErrorOK ==
    ASSUME NEW s \in StreamType, NEW n \in 0..1, Held(s, n), NEW f \in FilterType, Uncharged(f), ~f.initiating,
           NEW c \in CallType, c.callbacks, NEW r \in RouterType, Empty(r), NEW replies \in BOOLEAN
    PROVE  \E t \in StreamType, g \in FilterType, d \in CallType, q \in RouterType :
              /\ streamError(W(s, f, c, r), replies) = W(t, g, d, q)
              /\ Settled(t, g, q, n, s.remoteComplete) /\ Over(d)
<1>. DEFINE no == FALSE
<1>0. no \in BOOLEAN
  OBVIOUS
<1>1. streamError(W(s, f, c, r), replies) = resetStream(onRemoteClose(W(s, f, c, r), "error", no, replies))
  BY DEF streamError
<1>. HIDE DEF no
<1>2. PICK t \in StreamType, g \in FilterType, d \in CallType, q \in RouterType :
              /\ onRemoteClose(W(s, f, c, r), "error", no, replies) = W(t, g, d, q)
              /\ Settled(t, g, q, n, s.remoteComplete) /\ ~d.callbacks
  BY <1>0, OnRemoteCloseOK
<1>3. PICK d2 \in CallType : resetStream(W(t, g, d, q)) = W(t, g, d2, q) /\ Over(d2)
  BY <1>2, ResetStreamOK
<1>. QED
  BY <1>1, <1>2, <1>3

LEMMA OnTrailersOK ==
    ASSUME NEW s \in StreamType, NEW n \in 0..1, Held(s, n), NEW f \in FilterType, Uncharged(f), ~f.initiating,
           NEW c \in CallType, c.callbacks, ~c.remoteClosed, c.localClosed, NEW r \in RouterType, Empty(r),
           NEW grpcStatus, NEW enforcing \in BOOLEAN, NEW replies \in BOOLEAN
    PROVE  \E t \in StreamType, g \in FilterType, d \in CallType, q \in RouterType :
              /\ onTrailers(W(s, f, c, r), grpcStatus, enforcing, replies) = W(t, g, d, q)
              /\ Settled(t, g, q, n, s.remoteComplete) /\ Over(d)
<1>. DEFINE w == W(s, f, c, r)
            yes == TRUE
<1>1. w.call = c
  BY WFields
<1>2. Assert(w, ~w.call.remoteClosed, "onTrailers") = w
  BY <1>1, WAssert
<1>3. CASE grpcStatus # "ok"
  <2>1. onTrailers(w, grpcStatus, enforcing, replies) = streamError(w, replies)
    <3>. HIDE DEF w
    <3>. QED
      BY <1>2, <1>3 DEF onTrailers
  <2>. QED
    BY <2>1, StreamErrorOK
<1>4. CASE grpcStatus = "ok"
  <2>1. PICK t \in StreamType, g \in FilterType, d \in CallType, q \in RouterType :
              /\ onRemoteClose(w, "ok", enforcing, replies) = W(t, g, d, q)
              /\ Settled(t, g, q, n, s.remoteComplete) /\ ~d.callbacks /\ d.localClosed
    BY OnRemoteCloseOK
  <2>. DEFINE d1 == [d EXCEPT !.remoteClosed = yes]
              v == W(t, g, d1, q)
  <2>2. yes \in BOOLEAN
    OBVIOUS
  <2>3. [W(t, g, d, q) EXCEPT !.call.remoteClosed = yes] = v /\ v.call = d1
    <3>. HIDE DEF yes
    <3>. QED
      BY DEF W
  <2>4. onTrailers(w, grpcStatus, enforcing, replies) = IF v.call.localClosed THEN cleanup(v) ELSE v
    <3>. HIDE DEF w, v
    <3>. QED
      BY <1>2, <1>4, <2>1, <2>3 DEF onTrailers
  <2>. HIDE DEF yes
  <2>5. d1 \in CallType /\ d1.callbacks = d.callbacks /\ d1.localClosed = d.localClosed
    BY <2>1, <2>2 DEF CallType
  <2>. HIDE DEF d1
  <2>6. PICK d2 \in CallType : cleanup(v) = W(t, g, d2, q) /\ Over(d2)
    BY <2>1, <2>5, CleanupOK
  <2>. QED
    BY <2>1, <2>3, <2>4, <2>5, <2>6
<1>. QED
  BY <1>3, <1>4

----------------------------------------------------------------------------
(***************************************************************************)
(* The invariant.                                                          *)
(***************************************************************************)
New(s) ==
  /\ s.state = "none" /\ ~s.remoteComplete /\ ~s.localComplete /\ ~s.stopped /\ ~s.headersContinued /\ ~s.trailers
  /\ ~s.hasBuffer /\ ~s.above /\ ~s.closing /\ s.received = 0 /\ s.buffered = 0 /\ s.paused = 0 /\ s.response = "none"

Idle(c) ==
  /\ ~c.callbacks /\ ~c.request /\ ~c.listed /\ ~c.localClosed /\ ~c.remoteClosed /\ ~c.httpReset /\ c.http = "idle"

\* The call is in flight.
Live(c) ==
  /\ c.callbacks /\ c.request /\ c.listed /\ c.localClosed /\ ~c.remoteClosed /\ ~c.httpReset
  /\ c.http \in {"open", "started"}

Gone(s) ==
  /\ s.state \in {"destroyed", "deleted"}
  /\ (s.response # "none" /\ protocol = "http1" /\ ~s.closing) => s.paused = 0

Typed(s, f, c, r) == s \in StreamType /\ f \in FilterType /\ c \in CallType /\ r \in RouterType

Calling(f) == f.state = "Calling" /\ Uncharged(f) /\ ~f.initiating

\* A request that has arrived: the filter holds it while its call is in flight, or
\* the router has it, or its stream is gone.
Arrived(s, f, c, r, n) ==
  \/ Held(s, n) /\ Calling(f) /\ Live(c) /\ Empty(r)
  \/ Passed(s, n) /\ Whole(r, s) /\ Judged(s, f, r) /\ Over(c)
  \/ Gone(s) /\ Judged(s, f, r) /\ Over(c)

\* The pause of an HTTP/1 connection whose request is complete.
Pipelined(s) == IF protocol = "http1" /\ s.remoteComplete THEN 1 ELSE 0

Sound(s, f, c, r) ==
  /\ Typed(s, f, c, r)
  /\ \/ New(s) /\ f.state = "NotStarted" /\ Uncharged(f) /\ ~f.initiating /\ Idle(c) /\ Empty(r)
     \/ Arrived(s, f, c, r, Pipelined(s))

Inv == protocol \in Protocols /\ failed = {} /\ Sound(stream, filter, call, router)

LEMMA InitInv == Init => Inv
<1>. SUFFICES ASSUME Init PROVE Inv
  OBVIOUS
<1>. DEFINE no == FALSE
            zero == 0
<1>1. no \in BOOLEAN /\ ~no /\ zero \in 0..MaxChunks /\ zero \in 0..1 /\ zero \in 0..2 /\ zero = 0
  BY FilterAssumption
<1>2. /\ stream = [state |-> "none", remoteComplete |-> no, localComplete |-> no,
               stopped |-> no, headersContinued |-> no, received |-> zero, trailers |-> no,
               hasBuffer |-> no, buffered |-> zero, above |-> no,
               paused |-> zero, closing |-> no, response |-> "none"]
      /\ filter = [state |-> "NotStarted", initiating |-> no, ok |-> zero, error |-> zero, overLimit |-> zero]
      /\ call = [callbacks |-> no, request |-> no, listed |-> no,
             localClosed |-> no, remoteClosed |-> no, httpReset |-> no, response |-> "none", http |-> "idle"]
      /\ router = [headers |-> zero, bytes |-> zero, trailers |-> zero, ended |-> no]
  BY DEF Init
<1>3. protocol \in Protocols /\ failed = {}
  BY DEF Init
<1>. HIDE DEF no, zero
<1>4. stream \in StreamType /\ New(stream)
  BY <1>1, <1>2 DEF StreamType, New
<1>5. filter \in FilterType /\ filter.state = "NotStarted" /\ Uncharged(filter) /\ ~filter.initiating
  BY <1>1, <1>2 DEF FilterType, Uncharged
<1>6. call \in CallType /\ Idle(call)
  BY <1>1, <1>2 DEF CallType, Idle
<1>7. router \in RouterType /\ Empty(router)
  BY <1>1, <1>2 DEF RouterType, Empty
<1>. QED
  BY <1>3, <1>4, <1>5, <1>6, <1>7 DEF Inv, Sound, Typed

\* What an action leads to.
LEMMA BecomesOK ==
    ASSUME Inv, NEW s, NEW f, NEW c, NEW r, Becomes(W(s, f, c, r)), Sound(s, f, c, r)
    PROVE  Inv'
<1>1. stream' = s /\ filter' = f /\ call' = c /\ router' = r /\ failed' = {} /\ protocol' = protocol
  BY DEF Becomes, W
<1>2. Sound(stream, filter, call, router)'
  BY <1>1 DEF Sound, Typed, New, Arrived, Pipelined, Gone, Held, Passed, Whole, Judged, Over, Live, Idle, Calling,
             Uncharged, Empty, Sum, StreamType, FilterType, CallType, RouterType
<1>. QED
  BY <1>1, <1>2 DEF Inv

LEMMA WorldIs == Inv => World = W(stream, filter, call, router)
  BY DEF Inv, World, W

LEMMA SettledArrived ==
    ASSUME NEW s, NEW f, NEW c, NEW r, NEW n, NEW b, Settled(s, f, r, n, b), Over(c)
    PROVE  Arrived(s, f, c, r, n) /\ (Gone(s) \/ s.remoteComplete = b)
<1>1. CASE Passed(s, n) /\ s.remoteComplete = b /\ Whole(r, s) /\ f.state = "Complete" /\ Sum(f) = 1
  <2>1. Judged(s, f, r)
    BY <1>1 DEF Judged, Passed, Whole
  <2>. QED
    BY <1>1, <2>1 DEF Arrived
<1>2. CASE Ended(s) /\ Judged(s, f, r)
  BY <1>2 DEF Ended, Gone, Arrived
<1>. QED
  BY <1>1, <1>2 DEF Settled

----------------------------------------------------------------------------
(***************************************************************************)
(* Events of the call.                                                     *)
(***************************************************************************)
LEMMA CallState ==
    ASSUME Inv, CallOpen
    PROVE  /\ Typed(stream, filter, call, router) /\ Held(stream, Pipelined(stream)) /\ Calling(filter) /\ Live(call)
           /\ Empty(router) /\ Pipelined(stream) \in 0..1
  BY DEF Inv, Sound, CallOpen, Idle, Arrived, Over, Pipelined

\* The end of the call.
LEMMA CallEnds ==
    ASSUME Inv, CallOpen,
           NEW t \in StreamType, NEW g \in FilterType, NEW d \in CallType, NEW q \in RouterType,
           Settled(t, g, q, Pipelined(stream), stream.remoteComplete), Over(d), Becomes(W(t, g, d, q))
    PROVE  Inv'
<1>1. Arrived(t, g, d, q, Pipelined(stream)) /\ (Gone(t) \/ t.remoteComplete = stream.remoteComplete)
  BY SettledArrived
<1>2. Arrived(t, g, d, q, Pipelined(t))
  BY <1>1 DEF Arrived, Pipelined, Gone, Held, Passed
<1>3. Sound(t, g, d, q)
  BY <1>2 DEF Sound, Typed
<1>. QED
  BY <1>3, BecomesOK

LEMMA GrpcOnHeadersInv == Inv /\ GrpcOnHeaders => Inv'
<1>. SUFFICES ASSUME Inv, GrpcOnHeaders PROVE Inv'
  OBVIOUS
<1>. DEFINE w == W(stream, filter, call, router)
            n == Pipelined(stream)
            started == "started"
            c1 == [call EXCEPT !.http = started]
<1>1. CallOpen /\ call.http = "open"
  BY DEF GrpcOnHeaders
<1>2. /\ stream \in StreamType /\ filter \in FilterType /\ call \in CallType /\ router \in RouterType
      /\ Held(stream, n) /\ Calling(filter) /\ Live(call) /\ Empty(router) /\ n \in 0..1
      /\ Uncharged(filter) /\ ~filter.initiating /\ call.callbacks /\ ~call.remoteClosed /\ call.localClosed
  BY <1>1, CallState DEF Typed, Calling, Live
<1>3. Assert(World, ~call.remoteClosed, "onHeaders") = w
  BY <1>2, WorldIs, WAssert
<1>4. PICK is200 \in BOOLEAN, end \in BOOLEAN, grpcStatus \in {"none", "ok", "error"},
           enforcing \in BOOLEAN, replies \in BOOLEAN :
         Becomes(IF end /\ (is200 \/ grpcStatus # "none") THEN onTrailers(w, grpcStatus, enforcing, replies)
                 ELSE IF is200 THEN [w EXCEPT !.call.http = started]
                 ELSE streamError(w, replies))
  <2>. HIDE DEF w
  <2>. QED
    BY <1>3 DEF GrpcOnHeaders
<1>. HIDE DEF n
<1>5. CASE Becomes(onTrailers(w, grpcStatus, enforcing, replies))
  BY <1>1, <1>2, <1>5, OnTrailersOK, CallEnds DEF n
<1>6. CASE Becomes(streamError(w, replies))
  BY <1>1, <1>2, <1>6, StreamErrorOK, CallEnds DEF n
<1>7. CASE Becomes([w EXCEPT !.call.http = started])
  <2>1. [w EXCEPT !.call.http = started] = W(stream, filter, c1, router)
    BY DEF W
  <2>2. c1 \in CallType /\ Live(c1)
    BY <1>2 DEF CallType, Live
  <2>3. Sound(stream, filter, c1, router)
    BY <1>2, <2>2 DEF Sound, Typed, Arrived, n
  <2>. HIDE DEF w, c1
  <2>. QED
    BY <1>7, <2>1, <2>3, BecomesOK
<1>. QED
  BY <1>4, <1>5, <1>6, <1>7

LEMMA GrpcOnDataInv == Inv /\ GrpcOnData => Inv'
<1>. SUFFICES ASSUME Inv, GrpcOnData PROVE Inv'
  OBVIOUS
<1>. DEFINE w == W(stream, filter, call, router)
            n == Pipelined(stream)
<1>1. CallOpen
  BY DEF GrpcOnData
<1>2. /\ stream \in StreamType /\ filter \in FilterType /\ call \in CallType /\ router \in RouterType
      /\ Held(stream, n) /\ Calling(filter) /\ Live(call) /\ Empty(router) /\ n \in 0..1
      /\ Uncharged(filter) /\ ~filter.initiating /\ call.callbacks /\ ~call.remoteClosed
  BY <1>1, CallState DEF Typed, Calling, Live
<1>3. Assert(World, ~call.remoteClosed, "onData") = w
  BY <1>2, WorldIs, WAssert
<1>4. \/ \E m \in {"OK", "OVER_LIMIT"} : Becomes([w EXCEPT !.call.response = m])
      \/ \E replies \in BOOLEAN : Becomes(streamError(w, replies))
  <2>. HIDE DEF w
  <2>. QED
    BY <1>3 DEF GrpcOnData
<1>. HIDE DEF n
<1>5. ASSUME NEW replies \in BOOLEAN, Becomes(streamError(w, replies)) PROVE Inv'
  BY <1>1, <1>2, <1>5, StreamErrorOK, CallEnds DEF n
<1>6. ASSUME NEW m \in {"OK", "OVER_LIMIT"}, Becomes([w EXCEPT !.call.response = m]) PROVE Inv'
  <2>. DEFINE c1 == [call EXCEPT !.response = m]
  <2>1. [w EXCEPT !.call.response = m] = W(stream, filter, c1, router)
    BY DEF W
  <2>2. c1 \in CallType /\ Live(c1)
    BY <1>2 DEF CallType, Live
  <2>3. Sound(stream, filter, c1, router)
    BY <1>2, <2>2 DEF Sound, Typed, Arrived, n
  <2>. HIDE DEF w, c1
  <2>. QED
    BY <1>6, <2>1, <2>3, BecomesOK
<1>. QED
  BY <1>4, <1>5, <1>6

LEMMA GrpcOnTrailersInv == Inv /\ GrpcOnTrailers => Inv'
<1>. SUFFICES ASSUME Inv, GrpcOnTrailers PROVE Inv'
  OBVIOUS
<1>. DEFINE w == W(stream, filter, call, router)
            n == Pipelined(stream)
<1>1. CallOpen
  BY DEF GrpcOnTrailers
<1>2. /\ stream \in StreamType /\ filter \in FilterType /\ call \in CallType /\ router \in RouterType
      /\ Held(stream, n) /\ Empty(router) /\ n \in 0..1
      /\ Uncharged(filter) /\ ~filter.initiating /\ call.callbacks /\ ~call.remoteClosed /\ call.localClosed
  BY <1>1, CallState DEF Typed, Calling, Live
<1>3. World = w
  BY WorldIs
<1>4. PICK grpcStatus \in {"none", "ok", "error"}, enforcing \in BOOLEAN, replies \in BOOLEAN :
         Becomes(onTrailers(w, grpcStatus, enforcing, replies))
  <2>. HIDE DEF w
  <2>. QED
    BY <1>3 DEF GrpcOnTrailers
<1>. HIDE DEF n
<1>. QED
  BY <1>1, <1>2, <1>4, OnTrailersOK, CallEnds DEF n

\* A lost connection.
LEMMA OnResetOK ==
    ASSUME Inv, CallOpen, NEW replies \in BOOLEAN, Becomes(onReset(World, replies))
    PROVE  Inv'
<1>. DEFINE w == W(stream, filter, call, router)
            n == Pipelined(stream)
            yes == TRUE
            c1 == [call EXCEPT !.httpReset = yes]
<1>2. /\ stream \in StreamType /\ filter \in FilterType /\ call \in CallType /\ router \in RouterType
      /\ Held(stream, n) /\ Empty(router) /\ n \in 0..1
      /\ Uncharged(filter) /\ ~filter.initiating /\ call.callbacks /\ ~call.httpReset
  BY CallState DEF Typed, Calling, Live
<1>3. World = w /\ w.call = call
  BY WorldIs, WFields
<1>4. yes \in BOOLEAN
  OBVIOUS
<1>5. [w EXCEPT !.call.httpReset = yes] = W(stream, filter, c1, router)
  <2>. HIDE DEF yes
  <2>. QED
    BY DEF W
<1>6. onReset(w, replies) = streamError([w EXCEPT !.call.httpReset = yes], replies)
  <2>. HIDE DEF w
  <2>. QED
    BY <1>2, <1>3 DEF onReset
<1>. HIDE DEF yes
<1>7. c1 \in CallType /\ c1.callbacks = call.callbacks
  BY <1>2, <1>4 DEF CallType
<1>8. Becomes(streamError(W(stream, filter, c1, router), replies))
  <2>. HIDE DEF w, c1
  <2>. QED
    BY <1>3, <1>5, <1>6
<1>10. c1.callbacks
  BY <1>2, <1>7
<1>. HIDE DEF n, c1
<1>9. PICK t \in StreamType, g \in FilterType, d \in CallType, q \in RouterType :
              /\ streamError(W(stream, filter, c1, router), replies) = W(t, g, d, q)
              /\ Settled(t, g, q, n, stream.remoteComplete) /\ Over(d)
  BY <1>2, <1>7, <1>10, StreamErrorOK
<1>. QED
  BY <1>8, <1>9, CallEnds DEF n

LEMMA GrpcOnResetInv == Inv /\ GrpcOnReset => Inv'
  BY OnResetOK DEF GrpcOnReset

LEMMA ResponseTimeoutInv == Inv /\ ResponseTimeout => Inv'
<1>. SUFFICES ASSUME Inv, ResponseTimeout PROVE Inv'
  OBVIOUS
<1>. DEFINE w == W(stream, filter, call, router)
            n == Pipelined(stream)
<1>1. CallOpen
  BY DEF ResponseTimeout
<1>2. /\ stream \in StreamType /\ filter \in FilterType /\ call \in CallType /\ router \in RouterType
      /\ Held(stream, n) /\ Empty(router) /\ n \in 0..1
      /\ Uncharged(filter) /\ ~filter.initiating /\ call.callbacks
  BY <1>1, CallState DEF Typed, Calling, Live
<1>3. World = w
  BY WorldIs
<1>4. ASSUME NEW replies \in BOOLEAN, Becomes(streamError(World, replies)) PROVE Inv'
  <2>1. Becomes(streamError(w, replies))
    <3>. HIDE DEF w
    <3>. QED
      BY <1>3, <1>4
  <2>. HIDE DEF n
  <2>. QED
    BY <1>1, <1>2, <2>1, StreamErrorOK, CallEnds DEF n
<1>. QED
  BY <1>1, <1>4, OnResetOK DEF ResponseTimeout

----------------------------------------------------------------------------
(***************************************************************************)
(* The end of the stream.                                                  *)
(***************************************************************************)

\* The client goes away: a call in flight is cancelled.
LEMMA CancelOK ==
    ASSUME NEW s, NEW f \in FilterType, f.state = "Calling", NEW c \in CallType, c.callbacks, c.request, NEW r
    PROVE  \E g \in FilterType, d \in CallType :
              onDestroy(W(s, f, c, r)) = W(s, g, d, r) /\ Over(d) /\ g.state = "Complete"
<1>. DEFINE g == [f EXCEPT !.state = "Complete"]
            w == W(s, f, c, r)
            v == W(s, g, c, r)
            no == FALSE
<1>1. w.filter = f /\ v.call = c
  BY WFields
<1>2. [w EXCEPT !.filter.state = "Complete"] = v
  BY DEF W
<1>3. onDestroy(w) = clientCancel(v)
  <2>. HIDE DEF w, v
  <2>. QED
    BY <1>1, <1>2 DEF onDestroy
<1>4. Assert(v, v.call.callbacks /\ v.call.request, "cancel") = v
  BY <1>1, WAssert
<1>5. clientCancel(v) = [resetStream(v) EXCEPT !.call.callbacks = no]
  <2>. HIDE DEF v
  <2>. QED
    BY <1>4 DEF clientCancel
<1>6. g \in FilterType /\ g.state = "Complete"
  BY DEF FilterType
<1>7. PICK d \in CallType : resetStream(v) = W(s, g, d, r) /\ ~d.listed /\ d.http = "closed"
  <2>. DEFINE yes == TRUE
              c1 == [c EXCEPT !.localClosed = yes, !.remoteClosed = yes]
              c2 == [c1 EXCEPT !.httpReset = yes, !.http = "closed", !.listed = no]
              v1 == W(s, g, c1, r)
  <2>1. yes \in BOOLEAN /\ no \in BOOLEAN /\ ~no
    OBVIOUS
  <2>2. [v EXCEPT !.call = c1] = v1 /\ v1.call = c1 /\ [v1 EXCEPT !.call = c2] = W(s, g, c2, r)
    <3>. HIDE DEF c1, c2, g
    <3>. QED
      BY WFields, WUpdate
  <2>3. resetStream(v) = cleanup([v EXCEPT !.call = [v.call EXCEPT !.localClosed = yes, !.remoteClosed = yes]])
    <3>. HIDE DEF v
    <3>. QED
      BY DEF resetStream
  <2>4. cleanup(v1) = [v1 EXCEPT !.call = [v1.call EXCEPT !.httpReset = yes, !.http = "closed", !.listed = no]]
    <3>. HIDE DEF v1
    <3>. QED
      BY DEF cleanup
  <2>. HIDE DEF yes, no
  <2>5. resetStream(v) = cleanup(v1)
    <3>. HIDE DEF v, v1
    <3>. QED
      BY <1>1, <2>2, <2>3
  <2>6. cleanup(v1) = W(s, g, c2, r)
    <3>. HIDE DEF v, v1
    <3>. QED
      BY <2>2, <2>4
  <2>7. c2 \in CallType /\ c2.listed = no /\ c2.http = "closed"
    BY <2>1 DEF CallType
  <2>. HIDE DEF c2
  <2>. QED
    BY <2>1, <2>5, <2>6, <2>7
<1>. DEFINE d1 == [d EXCEPT !.callbacks = no]
<1>8. no \in BOOLEAN /\ ~no
  OBVIOUS
<1>9. [W(s, g, d, r) EXCEPT !.call.callbacks = no] = W(s, g, d1, r)
  <2>. HIDE DEF no, g
  <2>. QED
    BY DEF W
<1>. HIDE DEF no, g, w, v
<1>10. d1 \in CallType /\ d1.callbacks = no /\ d1.listed = d.listed /\ d1.http = d.http
  BY <1>8 DEF CallType
<1>11. onDestroy(w) = W(s, g, d1, r)
  <2>. HIDE DEF d1
  <2>. QED
    BY <1>3, <1>5, <1>7, <1>9
<1>12. Over(d1)
  BY <1>7, <1>8, <1>10 DEF Over
<1>. QED
  BY <1>6, <1>10, <1>11, <1>12 DEF w

LEMMA OpenState ==
    ASSUME Inv, stream.state = "open"
    PROVE  LET n == Pipelined(stream)
           IN  /\ Typed(stream, filter, call, router) /\ n \in 0..1
               /\ \/ Held(stream, n) /\ Calling(filter) /\ Live(call) /\ Empty(router)
                  \/ Passed(stream, n) /\ Whole(router, stream) /\ Judged(stream, filter, router) /\ Over(call)
                     /\ filter.state \in {"NotStarted", "Complete"}
  BY DEF Inv, Sound, New, Arrived, Gone, Pipelined, Judged, Whole

LEMMA OnResetStreamInv == Inv /\ OnResetStream => Inv'
<1>. SUFFICES ASSUME Inv, OnResetStream PROVE Inv'
  OBVIOUS
<1>. DEFINE w == W(stream, filter, call, router)
            gone == "destroyed"
            s1 == [stream EXCEPT !.state = gone]
            v == W(s1, filter, call, router)
<1>1. stream.state = "open" /\ Becomes(doDeferredStreamDestroy(World))
  BY DEF OnResetStream
<1>2. /\ stream \in StreamType /\ filter \in FilterType /\ call \in CallType /\ router \in RouterType
      /\ stream.response = "none"
      /\ \/ Calling(filter) /\ Live(call) /\ Empty(router)
         \/ Judged(stream, filter, router) /\ Over(call) /\ filter.state \in {"NotStarted", "Complete"}
  BY <1>1, OpenState DEF Typed, Held, Passed
<1>3. Becomes(onDestroy(v))
  <2>1. [w EXCEPT !.stream.state = gone] = v
    BY DEF W
  <2>2. World = w
    BY WorldIs
  <2>. HIDE DEF w, v
  <2>. QED
    BY <1>1, <2>1, <2>2 DEF doDeferredStreamDestroy
<1>4. s1 \in StreamType /\ s1.state = gone /\ s1.response = stream.response
  BY <1>2 DEF StreamType
<1>5. Gone(s1)
  BY <1>2, <1>4 DEF Gone
<1>. HIDE DEF s1
<1>6. CASE Calling(filter) /\ Live(call) /\ Empty(router)
  <2>1. filter.state = "Calling" /\ call.callbacks /\ call.request
    BY <1>6 DEF Calling, Live
  <2>2. PICK g \in FilterType, d \in CallType :
              onDestroy(v) = W(s1, g, d, router) /\ Over(d) /\ g.state = "Complete"
    BY <1>2, <2>1, CancelOK
  <2>3. Judged(s1, g, router)
    BY <1>2, <1>4, <1>6 DEF Judged, Empty
  <2>4. Sound(s1, g, d, router)
    BY <1>2, <1>4, <1>5, <2>2, <2>3 DEF Sound, Typed, Arrived
  <2>. HIDE DEF v
  <2>. QED
    BY <1>3, <2>2, <2>4, BecomesOK
<1>7. CASE Judged(stream, filter, router) /\ Over(call) /\ filter.state \in {"NotStarted", "Complete"}
  <2>1. v.filter = filter
    BY WFields
  <2>2. onDestroy(v) = v
    BY <1>7, <2>1 DEF onDestroy
  <2>3. Judged(s1, filter, router)
    BY <1>4, <1>7 DEF Judged
  <2>4. Sound(s1, filter, call, router)
    BY <1>2, <1>4, <1>5, <1>7, <2>3 DEF Sound, Typed, Arrived
  <2>. QED
    BY <1>3, <2>2, <2>4, BecomesOK
<1>. QED
  BY <1>2, <1>6, <1>7

LEMMA UpstreamResponseInv == Inv /\ UpstreamResponse => Inv'
<1>. SUFFICES ASSUME Inv, UpstreamResponse PROVE Inv'
  OBVIOUS
<1>. DEFINE w == W(stream, filter, call, router)
<1>1. stream.state = "open" /\ router.headers > 0 /\ ~stream.localComplete /\ Becomes(encodeResponse(World, "upstream"))
  BY DEF UpstreamResponse
<1>2. /\ stream \in StreamType /\ filter \in FilterType /\ call \in CallType /\ router \in RouterType
      /\ Judged(stream, filter, router) /\ Over(call) /\ filter.state # "Calling"
  BY <1>1, OpenState DEF Typed, Empty
<1>3. PICK t \in StreamType : encodeResponse(w, "upstream") = W(t, filter, call, router) /\ Ended(t) /\ t.response = "upstream"
  BY <1>1, <1>2, EncodeResponse
<1>4. Judged(t, filter, router) /\ Gone(t)
  BY <1>2, <1>3 DEF Judged, Gone, Ended
<1>5. Sound(t, filter, call, router)
  BY <1>2, <1>4 DEF Sound, Typed, Arrived
<1>6. World = w
  BY WorldIs
<1>. HIDE DEF w
<1>. QED
  BY <1>1, <1>3, <1>5, <1>6, BecomesOK

LEMMA DeferredDeleteInv == Inv /\ DeferredDelete => Inv'
<1>. SUFFICES ASSUME Inv, DeferredDelete PROVE Inv'
  OBVIOUS
<1>. DEFINE w == W(stream, filter, call, router)
            deleted == "deleted"
            s1 == [stream EXCEPT !.state = deleted]
            v == W(s1, filter, call, router)
<1>1. stream.state = "destroyed"
  BY DEF DeferredDelete
<1>2. /\ stream \in StreamType /\ filter \in FilterType /\ call \in CallType /\ router \in RouterType
      /\ Judged(stream, filter, router) /\ Over(call) /\ Gone(stream)
  BY <1>1 DEF Inv, Sound, Typed, New, Arrived, Held, Passed
<1>3. [w EXCEPT !.stream.state = deleted] = v
  BY DEF W
<1>4. World = w /\ ~call.callbacks /\ ~call.listed
  BY <1>2, WorldIs DEF Over
<1>5. Becomes(v)
  <2>. HIDE DEF w, v
  <2>1. [World EXCEPT !.stream.state = "deleted"] = v
    BY <1>3, <1>4
  <2>2. Assert([World EXCEPT !.stream.state = "deleted"], ~call.callbacks, "~GrpcClientImpl") = v
    BY <1>4, <2>1, WAssert
  <2>. QED
    BY <1>4, <2>2 DEF DeferredDelete
<1>6. s1 \in StreamType /\ s1.state = deleted /\ s1.response = stream.response /\ s1.closing = stream.closing
      /\ s1.paused = stream.paused
  BY <1>2 DEF StreamType
<1>. HIDE DEF s1
<1>7. Gone(s1) /\ Judged(s1, filter, router)
  BY <1>2, <1>6 DEF Gone, Judged
<1>8. Sound(s1, filter, call, router)
  BY <1>2, <1>6, <1>7 DEF Sound, Typed, Arrived
<1>. QED
  BY <1>5, <1>8, BecomesOK

----------------------------------------------------------------------------
(***************************************************************************)
(* Events of the downstream connection.                                    *)
(***************************************************************************)

\* onData() ends by pausing an HTTP/1 connection whose request is complete.
LEMMA DispatchOK ==
    ASSUME Inv, NEW s, NEW f, NEW c, NEW r, Typed(s, f, c, r), Arrived(s, f, c, r, 0),
           Becomes(afterDispatch(W(s, f, c, r)))
    PROVE  Inv'
<1>. DEFINE w == W(s, f, c, r)
            more == s.paused + 1
            t == [s EXCEPT !.paused = more]
<1>1. w.stream = s
  BY WFields
<1>2. [w EXCEPT !.stream.paused = w.stream.paused + 1] = W(t, f, c, r)
  <2>1. [w EXCEPT !.stream.paused = w.stream.paused + 1] = [w EXCEPT !.stream.paused = more]
    BY <1>1
  <2>2. [w EXCEPT !.stream.paused = more] = W(t, f, c, r)
    <3>. HIDE DEF more
    <3>. QED
      BY DEF W
  <2>. QED
    BY <2>1, <2>2
<1>3. CASE ~(protocol = "http1" /\ s.state = "open" /\ s.remoteComplete)
  <2>1. afterDispatch(w) = w
    BY <1>1, <1>3 DEF afterDispatch
  <2>2. Arrived(s, f, c, r, Pipelined(s))
    BY <1>3 DEF Arrived, Held, Passed, Gone, Pipelined
  <2>3. Sound(s, f, c, r)
    BY <2>2 DEF Sound
  <2>. QED
    BY <2>1, <2>3, BecomesOK
<1>4. CASE protocol = "http1" /\ s.state = "open" /\ s.remoteComplete
  <2>1. afterDispatch(w) = W(t, f, c, r)
    <3>. HIDE DEF w, t
    <3>. QED
      BY <1>1, <1>2, <1>4 DEF afterDispatch
  <2>2. ~Gone(s) /\ s \in StreamType /\ more \in 0..2 /\ more = s.paused + 1
    <3>1. s.paused \in 0..1
      BY <1>4 DEF Arrived, Held, Passed, Gone
    <3>. QED
      BY <1>4, <3>1 DEF Gone, Typed
  <2>. HIDE DEF more
  <2>3. /\ t \in StreamType /\ t.paused = more /\ t.state = s.state /\ t.localComplete = s.localComplete /\ t.stopped = s.stopped
        /\ t.headersContinued = s.headersContinued /\ t.response = s.response /\ t.closing = s.closing
        /\ t.buffered = s.buffered /\ t.received = s.received /\ t.hasBuffer = s.hasBuffer /\ t.above = s.above
        /\ t.trailers = s.trailers /\ t.remoteComplete = s.remoteComplete
    BY <2>2 DEF StreamType
  <2>. HIDE DEF t
  <2>4. Pipelined(t) = 1
    BY <1>4, <2>3 DEF Pipelined
  <2>5. Arrived(t, f, c, r, 1)
    <3>1. CASE Held(s, 0) /\ Calling(f) /\ Live(c) /\ Empty(r)
      <4>1. Held(t, 1)
        BY <2>2, <2>3, <3>1 DEF Held
      <4>. QED
        BY <3>1, <4>1 DEF Arrived
    <3>2. CASE Passed(s, 0) /\ Whole(r, s) /\ Judged(s, f, r) /\ Over(c)
      <4>1. Passed(t, 1) /\ Whole(r, t) /\ Judged(t, f, r)
        BY <2>2, <2>3, <3>2 DEF Passed, Whole, Judged
      <4>. QED
        BY <3>2, <4>1 DEF Arrived
    <3>. QED
      BY <2>2, <3>1, <3>2 DEF Arrived
  <2>6. Sound(t, f, c, r)
    BY <2>3, <2>4, <2>5 DEF Sound, Typed
  <2>7. Becomes(W(t, f, c, r))
    <3>. HIDE DEF w
    <3>. QED
      BY <2>1 DEF w
  <2>. QED
    BY <2>6, <2>7, BecomesOK
<1>. QED
  BY <1>3, <1>4

\* Of a body that the filter holds.
LEMMA FilledStream ==
    ASSUME NEW s \in StreamType, NEW bytes \in {0, 1}, s.buffered + bytes <= MaxChunks, s.paused \in 0..1
    PROVE  LET t == filled(s, bytes)
           IN  /\ t \in StreamType /\ t.hasBuffer /\ t.buffered = s.buffered + bytes
               /\ t.state = s.state /\ t.localComplete = s.localComplete /\ t.stopped = s.stopped
               /\ t.headersContinued = s.headersContinued /\ t.response = s.response /\ t.closing = s.closing
               /\ t.received = s.received /\ t.trailers = s.trailers /\ t.remoteComplete = s.remoteComplete
               /\ (s.paused = (IF s.above THEN 1 ELSE 0) => t.paused = IF t.above THEN 1 ELSE 0)
<1>. DEFINE yes == TRUE
            size == s.buffered + bytes
            over == ~s.above /\ size > BufferLimit
            above == s.above \/ over
            paused == s.paused + (IF over THEN 1 ELSE 0)
            t == [s EXCEPT !.hasBuffer = yes, !.buffered = size, !.above = above, !.paused = paused]
<1>1. yes \in BOOLEAN /\ yes /\ size \in 0..MaxChunks /\ above \in BOOLEAN /\ paused \in 0..2
  BY FilterAssumption DEF StreamType
<1>2. s.paused = (IF s.above THEN 1 ELSE 0) => paused = IF above THEN 1 ELSE 0
  BY DEF StreamType
<1>3. filled(s, bytes) = t
  BY DEF filled
<1>. HIDE DEF yes, above, paused
<1>4. size = s.buffered + bytes
  OBVIOUS
<1>. HIDE DEF size
<1>5. t \in StreamType
  BY <1>1 DEF StreamType
<1>6. /\ t.hasBuffer = yes /\ t.buffered = size /\ t.above = above /\ t.paused = paused
      /\ t.state = s.state /\ t.localComplete = s.localComplete /\ t.stopped = s.stopped
      /\ t.headersContinued = s.headersContinued /\ t.response = s.response /\ t.closing = s.closing
      /\ t.received = s.received /\ t.trailers = s.trailers /\ t.remoteComplete = s.remoteComplete
  BY DEF StreamType
<1>. HIDE DEF t
<1>. QED
  BY <1>1, <1>2, <1>3, <1>4, <1>5, <1>6

LEMMA DecodeDataInv == Inv /\ DecodeData => Inv'
<1>. SUFFICES ASSUME Inv, DecodeData PROVE Inv'
  OBVIOUS
<1>1. stream.state = "open" /\ ~stream.remoteComplete
  BY DEF DecodeData
<1>2. PICK bytes \in {0, 1}, end \in BOOLEAN, replies \in BOOLEAN :
       /\ stream.received + bytes <= MaxChunks
       /\ bytes = 0 => end
       /\ LET w0 == [World EXCEPT !.stream = [stream EXCEPT !.remoteComplete = end, !.received = stream.received + bytes]]
              w1 == Assert(w0, filter.state # "Responded", "decodeData")
              w2 == IF stream.localComplete THEN w0
                    ELSE IF filter.state = "Calling"
                      THEN commonHandleBufferData([w1 EXCEPT !.stream.stopped = TRUE], bytes)
                    ELSE IF stream.stopped
                      THEN commonContinue(commonHandleBufferData(w1, bytes), replies)
                    ELSE routerDecodeData(w1, bytes, end)
          IN  Becomes(afterDispatch(w2))
  BY DEF DecodeData
<1>. DEFINE now == stream.received + bytes
            s0 == [stream EXCEPT !.remoteComplete = end, !.received = now]
            w0 == [World EXCEPT !.stream = [stream EXCEPT !.remoteComplete = end, !.received = stream.received + bytes]]
            w1 == Assert(w0, filter.state # "Responded", "decodeData")
            yes == TRUE
            v == W(s0, filter, call, router)
<1>3. /\ stream \in StreamType /\ filter \in FilterType /\ call \in CallType /\ router \in RouterType
      /\ \/ Held(stream, 0) /\ Calling(filter) /\ Live(call) /\ Empty(router)
         \/ Passed(stream, 0) /\ Whole(router, stream) /\ Judged(stream, filter, router) /\ Over(call)
            /\ filter.state \in {"NotStarted", "Complete"}
  BY <1>1, OpenState DEF Typed, Pipelined
<1>4. ~stream.localComplete /\ filter.state # "Responded"
  BY <1>3 DEF Held, Passed, Calling
<1>5. w0 = v
  <2>1. w0 = [World EXCEPT !.stream = s0]
    OBVIOUS
  <2>2. World = W(stream, filter, call, router)
    BY WorldIs
  <2>. HIDE DEF s0, w0
  <2>3. [W(stream, filter, call, router) EXCEPT !.stream = s0] = v
    BY WUpdate
  <2>. QED
    BY <2>1, <2>2, <2>3
<1>6. w1 = v
  <2>. HIDE DEF w0, v
  <2>. QED
    BY <1>4, <1>5, WAssert
<1>7. now \in 0..MaxChunks /\ stream.received \in 0..MaxChunks /\ now = stream.received + bytes
  BY <1>2, <1>3, FilterAssumption DEF StreamType
<1>8. Becomes(afterDispatch(IF filter.state = "Calling"
                            THEN commonHandleBufferData([v EXCEPT !.stream.stopped = yes], bytes)
                            ELSE IF stream.stopped
                            THEN commonContinue(commonHandleBufferData(v, bytes), replies)
                            ELSE routerDecodeData(v, bytes, end)))
  <2>1. Becomes(afterDispatch(IF stream.localComplete THEN w0
                              ELSE IF filter.state = "Calling"
                                THEN commonHandleBufferData([w1 EXCEPT !.stream.stopped = yes], bytes)
                              ELSE IF stream.stopped
                                THEN commonContinue(commonHandleBufferData(w1, bytes), replies)
                              ELSE routerDecodeData(w1, bytes, end)))
    BY <1>2
  <2>. HIDE DEF w0, w1, v, yes
  <2>. QED
    BY <1>4, <1>6, <2>1
<1>. HIDE DEF w0, w1, now
<1>9. /\ s0 \in StreamType /\ s0.remoteComplete = end /\ s0.received = now /\ s0.state = stream.state
      /\ s0.localComplete = stream.localComplete /\ s0.stopped = stream.stopped /\ s0.headersContinued = stream.headersContinued
      /\ s0.response = stream.response /\ s0.closing = stream.closing /\ s0.buffered = stream.buffered
      /\ s0.hasBuffer = stream.hasBuffer /\ s0.above = stream.above /\ s0.paused = stream.paused /\ s0.trailers = stream.trailers
  BY <1>3, <1>7 DEF StreamType
<1>. HIDE DEF s0
<1>10. CASE Held(stream, 0) /\ Calling(filter) /\ Live(call) /\ Empty(router)
  <2>. DEFINE t == filled(s0, bytes)
  <2>1. [v EXCEPT !.stream.stopped = yes] = v
    <3>. HIDE DEF yes
    <3>1. [v EXCEPT !.stream.stopped = yes] = W([s0 EXCEPT !.stopped = yes], filter, call, router)
      BY DEF W
    <3>2. s0.stopped = yes
      <4>1. stream.stopped /\ stream.stopped \in BOOLEAN
        BY <1>3, <1>10 DEF Held, StreamType
      <4>. QED
        BY <1>9, <4>1 DEF yes
    <3>3. [s0 EXCEPT !.stopped = yes] = s0
      BY <1>9, <3>2 DEF StreamType
    <3>. QED
      BY <3>1, <3>3
  <2>2. v.stream = s0 /\ [v EXCEPT !.stream = t] = W(t, filter, call, router)
    BY WFields, WUpdate
  <2>3. commonHandleBufferData(v, bytes) = W(t, filter, call, router)
    <3>. HIDE DEF v
    <3>. QED
      BY <2>2 DEF commonHandleBufferData
  <2>4. Becomes(afterDispatch(W(t, filter, call, router)))
    <3>1. filter.state = "Calling"
      BY <1>10 DEF Calling
    <3>. HIDE DEF v, t, yes
    <3>. QED
      BY <1>8, <2>1, <2>3, <3>1
  <2>5. s0.buffered + bytes <= MaxChunks /\ s0.buffered + bytes = now /\ s0.paused \in 0..1
        /\ s0.paused = IF s0.above THEN 1 ELSE 0
    BY <1>2, <1>7, <1>9, <1>10 DEF Held
  <2>6. /\ t \in StreamType /\ t.hasBuffer /\ t.buffered = s0.buffered + bytes
        /\ t.state = s0.state /\ t.localComplete = s0.localComplete /\ t.stopped = s0.stopped
        /\ t.headersContinued = s0.headersContinued /\ t.response = s0.response /\ t.closing = s0.closing
        /\ t.received = s0.received /\ t.trailers = s0.trailers /\ t.remoteComplete = s0.remoteComplete
        /\ t.paused = IF t.above THEN 1 ELSE 0
    BY <1>9, <2>5, FilledStream
  <2>. HIDE DEF t
  <2>7. Held(t, 0)
    <3>1. ~stream.trailers
      BY <1>1, <1>10 DEF Held
    <3>. QED
      BY <1>9, <1>10, <2>5, <2>6, <3>1 DEF Held
  <2>8. Arrived(t, filter, call, router, 0)
    BY <1>10, <2>7 DEF Arrived
  <2>. QED
    BY <1>3, <2>4, <2>6, <2>8, DispatchOK DEF Typed
<1>11. CASE /\ Passed(stream, 0) /\ Whole(router, stream) /\ Judged(stream, filter, router) /\ Over(call)
            /\ filter.state \in {"NotStarted", "Complete"}
  <2>. DEFINE q == withData(router, bytes, end)
  <2>1. v.router = router /\ [v EXCEPT !.router = q] = W(s0, filter, call, q)
    BY WFields, WUpdate
  <2>2. ~stream.trailers /\ router.bytes + bytes = now /\ ~router.ended /\ ~stream.stopped
    BY <1>1, <1>7, <1>11 DEF Passed, Whole
  <2>3. Assert(v, ~v.router.ended, "encodeData") = v
    BY <2>1, <2>2, WAssert
  <2>4. routerDecodeData(v, bytes, end) = W(s0, filter, call, q)
    <3>. HIDE DEF v
    <3>. QED
      BY <2>1, <2>3 DEF routerDecodeData
  <2>5. Becomes(afterDispatch(W(s0, filter, call, q)))
    <3>. HIDE DEF v, q, yes
    <3>. QED
      BY <1>8, <1>11, <2>2, <2>4
  <2>6. /\ q \in RouterType /\ q.headers = router.headers /\ q.bytes = router.bytes + bytes
        /\ q.trailers = router.trailers /\ q.ended = end
    BY <1>2, <1>3, <1>7, <2>2, RouterData
  <2>. HIDE DEF q
  <2>7. Passed(s0, 0)
    BY <1>9, <1>11, <2>2 DEF Passed
  <2>8. Whole(q, s0) /\ Judged(s0, filter, q)
    BY <1>9, <1>11, <2>2, <2>6 DEF Whole, Judged
  <2>9. Arrived(s0, filter, call, q, 0)
    BY <1>11, <2>7, <2>8 DEF Arrived
  <2>. QED
    BY <1>3, <1>9, <2>5, <2>6, <2>9, DispatchOK DEF Typed
<1>. QED
  BY <1>3, <1>10, <1>11

LEMMA DecodeTrailersInv == Inv /\ DecodeTrailers => Inv'
<1>. SUFFICES ASSUME Inv, DecodeTrailers PROVE Inv'
  OBVIOUS
<1>. DEFINE yes == TRUE
            s0 == [stream EXCEPT !.remoteComplete = yes, !.trailers = yes]
            w0 == [World EXCEPT !.stream = [stream EXCEPT !.remoteComplete = yes, !.trailers = yes]]
            w1 == Assert(w0, filter.state # "Responded", "decodeTrailers")
            v == W(s0, filter, call, router)
<1>1. stream.state = "open" /\ ~stream.remoteComplete
  BY DEF DecodeTrailers
<1>2. \/ /\ filter.state = "Calling" \/ stream.localComplete
         /\ Becomes(afterDispatch(IF stream.localComplete THEN w0 ELSE w1))
      \/ /\ filter.state # "Calling" /\ ~stream.localComplete
         /\ \E replies \in BOOLEAN :
              Becomes(afterDispatch(IF stream.stopped THEN commonContinue(w1, replies) ELSE decodeTrailers(w1)))
  BY DEF DecodeTrailers
<1>3. /\ stream \in StreamType /\ filter \in FilterType /\ call \in CallType /\ router \in RouterType
      /\ \/ Held(stream, 0) /\ Calling(filter) /\ Live(call) /\ Empty(router)
         \/ Passed(stream, 0) /\ Whole(router, stream) /\ Judged(stream, filter, router) /\ Over(call)
            /\ filter.state \in {"NotStarted", "Complete"}
  BY <1>1, OpenState DEF Typed, Pipelined
<1>4. ~stream.localComplete /\ filter.state # "Responded"
  BY <1>3 DEF Held, Passed, Calling
<1>5. w0 = v
  <2>. HIDE DEF yes
  <2>1. w0 = [World EXCEPT !.stream = s0]
    OBVIOUS
  <2>2. World = W(stream, filter, call, router)
    BY WorldIs
  <2>. HIDE DEF s0, w0
  <2>3. [W(stream, filter, call, router) EXCEPT !.stream = s0] = v
    BY WUpdate
  <2>. QED
    BY <2>1, <2>2, <2>3
<1>6. w1 = v
  <2>. HIDE DEF w0, v
  <2>. QED
    BY <1>4, <1>5, WAssert
<1>7. yes \in BOOLEAN /\ yes
  OBVIOUS
<1>. HIDE DEF w0, w1, yes
<1>8. /\ s0 \in StreamType /\ s0.remoteComplete = yes /\ s0.received = stream.received /\ s0.state = stream.state
      /\ s0.localComplete = stream.localComplete /\ s0.stopped = stream.stopped /\ s0.headersContinued = stream.headersContinued
      /\ s0.response = stream.response /\ s0.closing = stream.closing /\ s0.buffered = stream.buffered
      /\ s0.hasBuffer = stream.hasBuffer /\ s0.above = stream.above /\ s0.paused = stream.paused /\ s0.trailers = yes
  BY <1>3, <1>7 DEF StreamType
<1>. HIDE DEF s0
<1>9. CASE Held(stream, 0) /\ Calling(filter) /\ Live(call) /\ Empty(router)
  <2>1. Becomes(afterDispatch(v))
    <3>. HIDE DEF v
    <3>. QED
      BY <1>2, <1>4, <1>6, <1>9 DEF Calling
  <2>2. Held(s0, 0)
    BY <1>7, <1>8, <1>9 DEF Held
  <2>3. Arrived(s0, filter, call, router, 0)
    BY <1>9, <2>2 DEF Arrived
  <2>. QED
    BY <1>3, <1>8, <2>1, <2>3, DispatchOK DEF Typed
<1>10. CASE /\ Passed(stream, 0) /\ Whole(router, stream) /\ Judged(stream, filter, router) /\ Over(call)
            /\ filter.state \in {"NotStarted", "Complete"}
  <2>. DEFINE q == withTrailers(router)
  <2>1. ~stream.stopped /\ ~router.ended /\ router.trailers = 0 /\ ~s0.localComplete
    BY <1>1, <1>4, <1>8, <1>10 DEF Passed, Whole
  <2>2. decodeTrailers(v) = W(s0, filter, call, q)
    BY <2>1, ReplayTrailers
  <2>3. Becomes(afterDispatch(W(s0, filter, call, q)))
    <3>. HIDE DEF v, q
    <3>. QED
      BY <1>2, <1>4, <1>6, <1>10, <2>1, <2>2
  <2>4. q \in RouterType /\ q.headers = router.headers /\ q.bytes = router.bytes /\ q.trailers = 1 /\ q.ended = TRUE
    BY <1>3, <2>1, RouterTrailers
  <2>. HIDE DEF q
  <2>5. Passed(s0, 0)
    BY <1>7, <1>8, <1>10 DEF Passed
  <2>6. s0.remoteComplete = TRUE
    BY <1>8 DEF yes
  <2>7. Whole(q, s0) /\ Judged(s0, filter, q)
    BY <1>7, <1>8, <1>10, <2>4, <2>6 DEF Whole, Judged
  <2>8. Arrived(s0, filter, call, q, 0)
    BY <1>10, <2>5, <2>7 DEF Arrived
  <2>. QED
    BY <1>3, <1>8, <2>3, <2>4, <2>8, DispatchOK DEF Typed
<1>. QED
  BY <1>3, <1>9, <1>10

\* A call that fails inside limit(): decodeHeaders() is on the stack and resumes
\* the chain itself.
LEMMA InlineFailure ==
    ASSUME NEW s, NEW f \in FilterType, f.initiating, Uncharged(f), NEW c \in CallType, c.callbacks, NEW r,
           NEW replies \in BOOLEAN
    PROVE  \E g \in FilterType, d \in CallType :
              /\ streamError(W(s, f, c, r), replies) = W(s, g, d, r)
              /\ g.state = "Complete" /\ Sum(g) = 1 /\ Over(d) /\ d.httpReset
<1>. DEFINE w == W(s, f, c, r)
            no == FALSE
            status == "Error"
            g == charged(f, status)
            v == W(s, g, c, r)
            c1 == [c EXCEPT !.callbacks = no]
<1>1. w.filter = f /\ w.call = c /\ [w EXCEPT !.filter = g] = v
  BY WFields, WUpdate
<1>2. complete(w, status, no, replies) = v
  <2>. HIDE DEF w, v
  <2>1. [w EXCEPT !.filter = charged(w.filter, status)] = v
    BY <1>1
  <2>. QED
    BY <1>1, <2>1 DEF complete
<1>3. Assert(w, w.call.callbacks, "callbacks_") = w
  BY <1>1, WAssert
<1>4. clientComplete(w, status, no, replies) = [v EXCEPT !.call.callbacks = no]
  <2>. HIDE DEF w, v
  <2>. QED
    BY <1>2, <1>3 DEF clientComplete
<1>5. onRemoteClose(w, "error", no, replies) = clientComplete(w, status, no, replies)
  <2>. HIDE DEF w
  <2>. QED
    BY DEF onRemoteClose
<1>6. streamError(w, replies) = resetStream(onRemoteClose(w, "error", no, replies))
  BY DEF streamError
<1>7. no \in BOOLEAN /\ ~no /\ no = FALSE /\ status \in Statuses
  BY DEF Statuses
<1>8. [v EXCEPT !.call.callbacks = no] = W(s, g, c1, r)
  <2>. HIDE DEF no, g
  <2>. QED
    BY DEF W
<1>9. g \in FilterType /\ g.state = "Complete" /\ Sum(g) = 1
  BY <1>7, ChargedFilter
<1>. HIDE DEF w, v, no, g
<1>10. c1 \in CallType /\ c1.callbacks = no
  BY <1>7 DEF CallType
<1>. HIDE DEF c1
<1>11. ~c1.callbacks
  BY <1>7, <1>10
<1>12. PICK d \in CallType : resetStream(W(s, g, c1, r)) = W(s, g, d, r) /\ Over(d) /\ d.httpReset
  BY <1>10, <1>11, ResetStreamOK
<1>13. streamError(w, replies) = W(s, g, d, r)
  BY <1>4, <1>5, <1>6, <1>8, <1>12
<1>. QED
  BY <1>7, <1>9, <1>12, <1>13 DEF w

LEMMA LimitOK ==
    ASSUME NEW s, NEW f \in FilterType, f.state = "Calling", f.initiating, Uncharged(f), NEW c \in CallType, Idle(c),
           NEW r, NEW fails \in BOOLEAN
    PROVE  \E g \in FilterType, d \in CallType :
              /\ limit(W(s, f, c, r), fails) = W(s, g, d, r)
              /\ \/ g.state = "Complete" /\ Sum(g) = 1 /\ Over(d)
                 \/ g.state = "Calling" /\ Uncharged(g) /\ Live(d)
<1>. DEFINE w == W(s, f, c, r)
            yes == TRUE
            c1 == [c EXCEPT !.callbacks = yes]
            c2 == [c1 EXCEPT !.http = "open"]
            c3 == [c2 EXCEPT !.localClosed = yes]
            i == initialize(W(s, f, c1, r), fails)
            sent == ~i.call.httpReset
            no == FALSE
<1>1. w.call = c /\ ~c.callbacks
  BY WFields DEF Idle
<1>2. Assert(w, ~w.call.callbacks, "limit") = w
  BY <1>1, WAssert
<1>3. /\ [w EXCEPT !.call.callbacks = yes] = W(s, f, c1, r)
      /\ [W(s, f, c1, r) EXCEPT !.call.http = "open"] = W(s, f, c2, r)
      /\ [W(s, f, c2, r) EXCEPT !.call.localClosed = yes] = W(s, f, c3, r)
  <2>. HIDE DEF yes
  <2>. QED
    BY DEF W
<1>4. limit(w, fails) = [i EXCEPT !.call = [i.call EXCEPT !.request = sent, !.listed = sent]]
  <2>. HIDE DEF w, c1
  <2>1. initialize([Assert(w, ~w.call.callbacks, "limit") EXCEPT !.call.callbacks = TRUE], fails) = i
    <3>1. [Assert(w, ~w.call.callbacks, "limit") EXCEPT !.call.callbacks = TRUE] = W(s, f, c1, r)
      BY <1>2, <1>3
    <3>. QED
      BY <3>1
  <2>. HIDE DEF i
  <2>. QED
    BY <2>1 DEF limit
<1>5. i = IF fails THEN streamError(W(s, f, c2, r), no) ELSE W(s, f, c3, r)
  <2>. HIDE DEF c1, c2, c3
  <2>. QED
    BY <1>3 DEF initialize
<1>6. yes \in BOOLEAN /\ yes
  OBVIOUS
<1>11. no \in BOOLEAN /\ ~no /\ no = FALSE
  OBVIOUS
<1>. HIDE DEF yes, no
<1>7. /\ c2 \in CallType /\ c2.callbacks = yes
      /\ c3 \in CallType /\ c3.callbacks = yes /\ c3.localClosed = yes /\ c3.remoteClosed = c.remoteClosed
      /\ c3.httpReset = c.httpReset /\ c3.http = "open"
  BY <1>6 DEF CallType
<1>. HIDE DEF i, c2, c3
<1>8. ASSUME NEW g \in FilterType, NEW d \in CallType, i = W(s, g, d, r),
             NEW b \in BOOLEAN, sent = b
      PROVE  /\ limit(w, fails) = W(s, g, [d EXCEPT !.request = b, !.listed = b], r)
             /\ [d EXCEPT !.request = b, !.listed = b] \in CallType
  <2>. DEFINE e == [d EXCEPT !.request = b, !.listed = b]
  <2>1. i.call = d /\ [i EXCEPT !.call = e] = W(s, g, e, r)
    <3>. HIDE DEF e
    <3>. QED
      BY <1>8, WFields, WUpdate
  <2>2. limit(w, fails) = W(s, g, e, r)
    <3>. HIDE DEF sent, w
    <3>. QED
      BY <1>4, <1>8, <2>1
  <2>3. e \in CallType
    BY <1>8 DEF CallType
  <2>. QED
    BY <2>2, <2>3
<1>9. CASE fails
  <2>1. c2.callbacks
    BY <1>6, <1>7
  <2>2. PICK g \in FilterType, d \in CallType :
              /\ streamError(W(s, f, c2, r), no) = W(s, g, d, r)
              /\ g.state = "Complete" /\ Sum(g) = 1 /\ Over(d) /\ d.httpReset
    BY <1>7, <1>11, <2>1, InlineFailure
  <2>. DEFINE e == [d EXCEPT !.request = no, !.listed = no]
  <2>3. i = W(s, g, d, r) /\ i.call = d
    BY <1>5, <1>9, <2>2, WFields
  <2>4. sent = no /\ no \in BOOLEAN /\ ~no
    BY <1>11, <2>2, <2>3
  <2>. HIDE DEF sent, w
  <2>5. limit(w, fails) = W(s, g, e, r) /\ e \in CallType
    BY <1>8, <2>3, <2>4
  <2>6. e.callbacks = d.callbacks /\ e.listed = no /\ e.http = d.http
    BY DEF CallType
  <2>. HIDE DEF e
  <2>7. Over(e)
    BY <2>2, <2>4, <2>6 DEF Over
  <2>. QED
    BY <2>2, <2>5, <2>7 DEF w
<1>10. CASE ~fails
  <2>. DEFINE e == [c3 EXCEPT !.request = yes, !.listed = yes]
  <2>1. i = W(s, f, c3, r) /\ i.call = c3
    BY <1>5, <1>10, WFields
  <2>2. sent = yes
    <3>1. ~c3.httpReset
      BY <1>7 DEF Idle
    <3>. QED
      BY <2>1, <3>1 DEF yes
  <2>. HIDE DEF sent, w
  <2>3. limit(w, fails) = W(s, f, e, r) /\ e \in CallType
    BY <1>6, <1>7, <1>8, <2>1, <2>2
  <2>4. /\ e.callbacks = c3.callbacks /\ e.listed = yes /\ e.request = yes /\ e.http = c3.http
        /\ e.localClosed = c3.localClosed /\ e.remoteClosed = c3.remoteClosed /\ e.httpReset = c3.httpReset
    BY <1>7 DEF CallType
  <2>. HIDE DEF e
  <2>5. Live(e)
    BY <1>6, <1>7, <2>4 DEF Live, Idle
  <2>. QED
    BY <2>3, <2>5 DEF w
<1>. QED
  BY <1>9, <1>10

LEMMA InitiateCallOK ==
    ASSUME NEW s, NEW f \in FilterType, f.state = "NotStarted", ~f.initiating, Uncharged(f),
           NEW c \in CallType, Idle(c), NEW r, NEW request, NEW fails \in BOOLEAN
    PROVE  \E g \in FilterType, d \in CallType :
              /\ initiateCall(W(s, f, c, r), request, fails) = W(s, g, d, r)
              /\ \/ g.state \in {"NotStarted", "Complete"} /\ Sum(g) = (IF g.state = "NotStarted" THEN 0 ELSE 1) /\ Over(d)
                 \/ Calling(g) /\ Live(d)
<1>. DEFINE w == W(s, f, c, r)
            early == TypeMismatch(request) \/ ~request.routeEntry \/ ~request.cluster \/ Descriptors(request) = {}
            yes == TRUE
            no == FALSE
            f1 == [f EXCEPT !.state = "Calling", !.initiating = yes]
<1>1. CASE early
  <2>1. initiateCall(w, request, fails) = w
    BY <1>1 DEF initiateCall
  <2>2. Sum(f) = 0 /\ Over(c)
    BY DEF Sum, Uncharged, Idle, Over
  <2>. QED
    BY <2>1, <2>2
<1>2. CASE ~early
  <2>1. w.filter = f /\ [w EXCEPT !.filter = f1] = W(s, f1, c, r)
    <3>. HIDE DEF f1
    <3>. QED
      BY WFields, WUpdate
  <2>2. initiateCall(w, request, fails) =
          [limit([w EXCEPT !.filter = [w.filter EXCEPT !.state = "Calling", !.initiating = yes]], fails)
             EXCEPT !.filter.initiating = no]
    <3>. HIDE DEF w
    <3>. QED
      BY <1>2 DEF initiateCall
  <2>3. yes \in BOOLEAN /\ yes /\ no \in BOOLEAN /\ ~no
    OBVIOUS
  <2>. HIDE DEF yes, no
  <2>4. initiateCall(w, request, fails) = [limit(W(s, f1, c, r), fails) EXCEPT !.filter.initiating = no]
    <3>. HIDE DEF w
    <3>. QED
      BY <2>1, <2>2
  <2>5. /\ f1 \in FilterType /\ f1.state = "Calling" /\ f1.initiating = yes /\ f1.ok = f.ok /\ f1.error = f.error
        /\ f1.overLimit = f.overLimit
    BY <2>3 DEF FilterType
  <2>. HIDE DEF f1
  <2>6. f1.initiating /\ Uncharged(f1)
    BY <2>3, <2>5 DEF Uncharged
  <2>7. PICK g \in FilterType, d \in CallType :
              /\ limit(W(s, f1, c, r), fails) = W(s, g, d, r)
              /\ \/ g.state = "Complete" /\ Sum(g) = 1 /\ Over(d)
                 \/ g.state = "Calling" /\ Uncharged(g) /\ Live(d)
    BY <2>5, <2>6, LimitOK
  <2>. DEFINE g1 == [g EXCEPT !.initiating = no]
  <2>8. [W(s, g, d, r) EXCEPT !.filter.initiating = no] = W(s, g1, d, r)
    BY DEF W
  <2>9. /\ g1 \in FilterType /\ g1.state = g.state /\ g1.initiating = no /\ g1.ok = g.ok /\ g1.error = g.error
        /\ g1.overLimit = g.overLimit
    BY <2>3 DEF FilterType
  <2>. HIDE DEF g1
  <2>10. Sum(g1) = Sum(g) /\ (Uncharged(g) => Uncharged(g1))
    BY <2>9 DEF Sum, Uncharged
  <2>11. \/ g1.state = "Complete" /\ Sum(g1) = 1 /\ Over(d)
         \/ Calling(g1) /\ Live(d)
    BY <2>3, <2>7, <2>9, <2>10 DEF Calling
  <2>12. initiateCall(w, request, fails) = W(s, g1, d, r)
    <3>. HIDE DEF w
    <3>. QED
      BY <2>4, <2>7, <2>8
  <2>. QED
    BY <2>9, <2>11, <2>12
<1>. QED
  BY <1>1, <1>2

LEMMA DecodeHeadersInv == Inv /\ DecodeHeaders => Inv'
<1>. SUFFICES ASSUME Inv, DecodeHeaders PROVE Inv'
  OBVIOUS
<1>1. PICK request \in Requests, end \in BOOLEAN, enabled \in BOOLEAN, fails \in BOOLEAN, replies \in BOOLEAN :
       /\ ~request.routeEntry \/ ~request.cluster => replies
       /\ LET w0 == [World EXCEPT !.stream = [stream EXCEPT !.state = "open", !.remoteComplete = end]]
              w1 == IF enabled THEN initiateCall(w0, request, fails) ELSE w0
              stop == stopsIteration(w1.filter.state)
              w2 == Assert(w1, ~w1.stream.headersContinued /\ ~w1.stream.stopped,
                           "commonHandleAfterHeadersCallback")
              w3 == IF stop THEN [w2 EXCEPT !.stream.stopped = TRUE]
                    ELSE routerDecodeHeaders([w2 EXCEPT !.stream.headersContinued = TRUE], end, replies)
          IN  Becomes(afterDispatch(w3))
  BY DEF DecodeHeaders
<1>. DEFINE yes == TRUE
            s0 == [stream EXCEPT !.state = "open", !.remoteComplete = end]
            w0 == [World EXCEPT !.stream = [stream EXCEPT !.state = "open", !.remoteComplete = end]]
            w1 == IF enabled THEN initiateCall(w0, request, fails) ELSE w0
            w2 == Assert(w1, ~w1.stream.headersContinued /\ ~w1.stream.stopped, "commonHandleAfterHeadersCallback")
            w3 == IF stopsIteration(w1.filter.state) THEN [w2 EXCEPT !.stream.stopped = yes]
                  ELSE routerDecodeHeaders([w2 EXCEPT !.stream.headersContinued = yes], end, replies)
            v == W(s0, filter, call, router)
<1>2. Becomes(afterDispatch(w3))
  BY <1>1
<1>3. stream.state = "none"
  BY DEF DecodeHeaders
<1>4. /\ stream \in StreamType /\ filter \in FilterType /\ call \in CallType /\ router \in RouterType
      /\ New(stream) /\ filter.state = "NotStarted" /\ Uncharged(filter) /\ ~filter.initiating /\ Idle(call) /\ Empty(router)
  BY <1>3 DEF Inv, Sound, Typed, Arrived, Held, Passed, Gone
<1>5. w0 = v
  <2>1. w0 = [World EXCEPT !.stream = s0]
    OBVIOUS
  <2>2. World = W(stream, filter, call, router)
    BY WorldIs
  <2>. HIDE DEF s0, w0
  <2>3. [W(stream, filter, call, router) EXCEPT !.stream = s0] = v
    BY WUpdate
  <2>. QED
    BY <2>1, <2>2, <2>3
<1>6. /\ s0 \in StreamType /\ s0.state = "open" /\ s0.remoteComplete = end /\ s0.received = stream.received
      /\ s0.localComplete = stream.localComplete /\ s0.stopped = stream.stopped /\ s0.headersContinued = stream.headersContinued
      /\ s0.response = stream.response /\ s0.closing = stream.closing /\ s0.buffered = stream.buffered
      /\ s0.hasBuffer = stream.hasBuffer /\ s0.above = stream.above /\ s0.paused = stream.paused /\ s0.trailers = stream.trailers
  BY <1>4 DEF StreamType
<1>. HIDE DEF s0, w0
<1>7. PICK g \in FilterType, d \in CallType :
        /\ w1 = W(s0, g, d, router)
        /\ \/ g.state \in {"NotStarted", "Complete"} /\ Sum(g) = (IF g.state = "NotStarted" THEN 0 ELSE 1) /\ Over(d)
           \/ Calling(g) /\ Live(d)
  <2>1. CASE enabled
    <3>1. PICK g \in FilterType, d \in CallType :
              /\ initiateCall(v, request, fails) = W(s0, g, d, router)
              /\ \/ g.state \in {"NotStarted", "Complete"} /\ Sum(g) = (IF g.state = "NotStarted" THEN 0 ELSE 1) /\ Over(d)
                 \/ Calling(g) /\ Live(d)
      BY <1>4, InitiateCallOK
    <3>. HIDE DEF v
    <3>2. w1 = W(s0, g, d, router)
      BY <1>5, <2>1, <3>1
    <3>. QED
      BY <3>1, <3>2
  <2>2. CASE ~enabled
    <3>1. Sum(filter) = 0 /\ Over(call)
      BY <1>4 DEF Sum, Uncharged, Idle, Over
    <3>2. w1 = v
      BY <1>5, <2>2
    <3>. QED
      BY <1>4, <3>1, <3>2
  <2>. QED
    BY <2>1, <2>2
<1>. HIDE DEF w1
<1>8. w1.stream = s0 /\ w1.filter = g
  BY <1>7, WFields
<1>9. w2 = W(s0, g, d, router)
  <2>1. ~w1.stream.headersContinued /\ ~w1.stream.stopped
    BY <1>4, <1>6, <1>8 DEF New
  <2>2. w2 = w1
    BY <2>1, WAssert
  <2>. QED
    BY <1>7, <2>2
<1>. HIDE DEF w2
<1>10. yes \in BOOLEAN /\ yes
  OBVIOUS
<1>. HIDE DEF yes
<1>11. CASE Calling(g) /\ Live(d)
  <2>. DEFINE t == [s0 EXCEPT !.stopped = yes]
  <2>1. [W(s0, g, d, router) EXCEPT !.stream.stopped = yes] = W(t, g, d, router)
    BY DEF W
  <2>2. w3 = W(t, g, d, router)
    <3>1. stopsIteration(w1.filter.state)
      BY <1>8, <1>11 DEF Calling, stopsIteration
    <3>. QED
      BY <1>9, <2>1, <3>1
  <2>3. /\ t \in StreamType /\ t.stopped = yes /\ t.state = s0.state /\ t.remoteComplete = s0.remoteComplete
        /\ t.received = s0.received /\ t.localComplete = s0.localComplete /\ t.headersContinued = s0.headersContinued
        /\ t.response = s0.response /\ t.closing = s0.closing /\ t.buffered = s0.buffered
        /\ t.hasBuffer = s0.hasBuffer /\ t.above = s0.above /\ t.paused = s0.paused /\ t.trailers = s0.trailers
    BY <1>6, <1>10 DEF StreamType
  <2>. HIDE DEF t, w3
  <2>4. Held(t, 0)
    BY <1>4, <1>6, <1>10, <2>3 DEF Held, New
  <2>5. Arrived(t, g, d, router, 0)
    BY <1>4, <1>11, <2>4 DEF Arrived
  <2>. QED
    BY <1>2, <1>4, <2>2, <2>3, <2>5, DispatchOK DEF Typed
<1>12. CASE g.state \in {"NotStarted", "Complete"} /\ Sum(g) = (IF g.state = "NotStarted" THEN 0 ELSE 1) /\ Over(d)
  <2>. DEFINE t == [s0 EXCEPT !.headersContinued = yes]
              q == withHeaders(router, end)
  <2>1. [W(s0, g, d, router) EXCEPT !.stream.headersContinued = yes] = W(t, g, d, router)
    BY DEF W
  <2>2. w3 = routerDecodeHeaders(W(t, g, d, router), end, replies)
    <3>1. ~stopsIteration(w1.filter.state)
      BY <1>8, <1>12 DEF stopsIteration
    <3>. QED
      BY <1>9, <2>1, <3>1
  <2>3. /\ t \in StreamType /\ t.headersContinued = yes /\ t.state = s0.state /\ t.remoteComplete = s0.remoteComplete
        /\ t.received = s0.received /\ t.localComplete = s0.localComplete /\ t.stopped = s0.stopped
        /\ t.response = s0.response /\ t.closing = s0.closing /\ t.buffered = s0.buffered
        /\ t.hasBuffer = s0.hasBuffer /\ t.above = s0.above /\ t.paused = s0.paused /\ t.trailers = s0.trailers
    BY <1>6, <1>10 DEF StreamType
  <2>. HIDE DEF t, w3
  <2>4. q \in RouterType /\ q.headers = 1 /\ q.bytes = 0 /\ q.trailers = 0 /\ q.ended = end
    BY <1>4, RouterHeaders
  <2>5. w3 = IF replies THEN encodeResponse(W(t, g, d, q), "local") ELSE W(t, g, d, q)
    <3>1. W(t, g, d, router).router = router /\ [W(t, g, d, router) EXCEPT !.router = q] = W(t, g, d, q)
      BY WFields, WUpdate
    <3>. QED
      BY <2>2, <3>1 DEF routerDecodeHeaders
  <2>. HIDE DEF q
  <2>6. CASE replies
    <3>1. ~t.localComplete /\ g.state # "Calling"
      BY <1>4, <1>6, <1>12, <2>3 DEF New
    <3>2. PICK u \in StreamType : encodeResponse(W(t, g, d, q), "local") = W(u, g, d, q) /\ Ended(u) /\ u.response = "local"
      BY <2>3, <3>1, EncodeResponse
    <3>3. Gone(u) /\ Judged(u, g, q)
      BY <1>12, <2>4, <3>2 DEF Ended, Gone, Judged
    <3>4. Arrived(u, g, d, q, 0)
      BY <1>12, <3>3 DEF Arrived
    <3>5. w3 = W(u, g, d, q)
      BY <2>5, <2>6, <3>2
    <3>. QED
      BY <1>2, <2>4, <3>4, <3>5, DispatchOK DEF Typed
  <2>7. CASE ~replies
    <3>1. Passed(t, 0)
      BY <1>4, <1>6, <1>10, <2>3 DEF Passed, New
    <3>2. Whole(q, t) /\ Judged(t, g, q)
      BY <1>4, <1>6, <1>12, <2>3, <2>4 DEF Whole, Judged, New
    <3>3. Arrived(t, g, d, q, 0)
      BY <1>12, <3>1, <3>2 DEF Arrived
    <3>4. w3 = W(t, g, d, q)
      BY <2>5, <2>7
    <3>. QED
      BY <1>2, <2>3, <2>4, <3>3, <3>4, DispatchOK DEF Typed
  <2>. QED
    BY <2>6, <2>7
<1>. QED
  BY <1>7, <1>11, <1>12

----------------------------------------------------------------------------
LEMMA StepInv == Inv /\ [Next]_vars => Inv'
<1>1. ASSUME Inv, UNCHANGED vars PROVE Inv'
  BY <1>1 DEF vars, Inv, Sound, Typed, New, Arrived, Pipelined, Gone, Held, Passed, Whole, Judged, Over, Live, Idle,
             Calling, Uncharged, Empty, Sum
<1>. QED
  BY <1>1, DecodeHeadersInv, DecodeDataInv, DecodeTrailersInv, OnResetStreamInv, UpstreamResponseInv, DeferredDeleteInv,
     GrpcOnHeadersInv, GrpcOnDataInv, GrpcOnTrailersInv, GrpcOnResetInv, ResponseTimeoutInv DEF Next, Done

LEMMA Always == Spec => []Inv
  BY InitInv, StepInv, PTL DEF Spec

\* Whatever a client, the rate limit service and the upstream do, and in whatever
\* order, no ASSERT of the filter, its gRPC client or the filter chain fails, no
\* verdict is charged twice and no call outlives its stream: for any requests, any
\* filter configuration, any buffer limit and any number of body chunks.
THEOREM NoAssertFailsHolds == Spec => []NoAssertFails
<1>1. Inv => NoAssertFails
  BY DEF Inv, Sound, Typed, New, Arrived, Held, Passed, Gone, Over, NoAssertFails, TypeOK, NoCallOutlivesStream
<1>. QED
  BY <1>1, Always, PTL

\* The router never sees a request that is still being judged or was answered with
\* 429, and what it sees was judged exactly once if at all (ratelimit.cc, complete()).
THEOREM HeldUntilJudgedHolds == Spec => []HeldUntilJudged
<1>1. ASSUME Inv PROVE HeldUntilJudged
  <2>1. router.headers > 0 \/ stream.response = "429" => Judged(stream, filter, router)
    BY <1>1 DEF Inv, Sound, New, Arrived, Held, Empty
  <2>. QED
    BY <2>1 DEF HeldUntilJudged, Judged, Verdicts, Sum
<1>. QED
  BY <1>1, Always, PTL

\* A request that is past the filter reached the router unabridged: body, trailers
\* and end of stream are replayed by commonContinue() and passed on ever after.
THEOREM NothingLostHolds == Spec => []NothingLost
<1>1. Inv => NothingLost
  BY DEF Inv, Sound, New, Arrived, Calling, Gone, Whole, NothingLost
<1>. QED
  BY <1>1, Always, PTL

\* Every pause of reading is undone: by the drained buffer, and on an HTTP/1
\* connection that stays open by the end of the stream (doEndStream()).
THEOREM ReadingResumesHolds == Spec => []ReadingResumes
<1>1. Inv => ReadingResumes
  BY DEF Inv, Sound, New, Arrived, Held, Passed, Calling, Gone, Pipelined, ReadingResumes
<1>. QED
  BY <1>1, Always, PTL
=============================================================================
