----------------------------- MODULE FilterChain ----------------------------
(***************************************************************************)
(* How the connection manager passes a response through its filters        *)
(* (http/conn_manager_impl.cc; requests go the same way): filters stop and *)
(* continue the iteration, all of them share one buffer, calls nest.  The  *)
(* stack holds the calls in progress.  The last stage is the codec.        *)
(***************************************************************************)
EXTENDS Integers, Sequences, SequencesExt

CONSTANTS FcFilters,    \* how many filters
          FcMaxData,    \* bound: data frames of the response
          FcAddLate     \* a filter adds a body after one before it had stopped

VARIABLE fc

FcCodec == FcFilters + 1
FcAdded == 0            \* the data a filter adds itself

\* seen[i]: what stage i was given, [kind, data, end]; inPlace: a data frame that is
\* the shared buffer.
FcInit ==
    fc = [stopped |-> [i \in 1..FcFilters |-> FALSE], continued |-> [i \in 1..FcFilters |-> FALSE],
          buffer |-> <<>>, hasBuffer |-> FALSE, complete |-> FALSE, trailers |-> FALSE,
          sent |-> 0, started |-> FALSE, added |-> FALSE, stack |-> <<>>,
          seen |-> [i \in 1..FcCodec |-> <<>>], asserts |-> TRUE]

fcFrame(kind, i, data, inPlace, end) ==
    [kind |-> kind, at |-> i, data |-> data, inPlace |-> inPlace, end |-> end, entry |-> 0]
fcHeaders(i, end) == fcFrame("headers", i, <<>>, FALSE, end)
fcContinue(i) == fcFrame("continue headers", i, <<>>, FALSE, FALSE)

fcPop(p) == [p EXCEPT !.stack = Tail(@)]
fcPush(p, frame) == [p EXCEPT !.stack = <<frame>> \o @]
fcSees(p, i, kind, data, end) == [p EXCEPT !.seen[i] = Append(@, [kind |-> kind, data |-> data, end |-> end])]

\* Mutant: what is in the buffer already is buffered again.
fcBufferTwice(p, frame) ==
    [p EXCEPT !.hasBuffer = TRUE, !.buffer = @ \o (IF frame.inPlace THEN p.buffer ELSE frame.data)]

\* commonHandleBufferData()
fcBuffer(p, frame) ==
    IF frame.inPlace THEN p ELSE [p EXCEPT !.hasBuffer = TRUE, !.buffer = @ \o frame.data]

fcTop == Head(fc.stack)
fcRest == fcPop(fc)

----------------------------------------------------------------------------
\* What arrives for the stream, when no call is in progress.
fcIdle == fc.stack = <<>> /\ ~fc.complete

FcEncodeHeaders(end) ==
    /\ fcIdle /\ ~fc.started
    /\ fc' = fcPush([fc EXCEPT !.started = TRUE, !.complete = end], fcHeaders(1, end))

FcEncodeData(end) ==
    /\ fcIdle /\ fc.started /\ fc.sent < FcMaxData
    /\ fc' = fcPush([fc EXCEPT !.sent = @ + 1, !.complete = end], fcFrame("data", 1, <<fc.sent + 1>>, FALSE, end))

FcEncodeTrailers ==
    /\ fcIdle /\ fc.started
    /\ fc' = fcPush([fc EXCEPT !.trailers = TRUE, !.complete = TRUE], fcFrame("trailers", 1, <<>>, FALSE, TRUE))

\* addEncodedData(), within the headers call.
fcAdd(p, i) == fcBuffer([p EXCEPT !.added = TRUE], fcFrame("data", i, <<FcAdded>>, FALSE, FALSE))

\* commonHandleAfterHeadersCallback()
fcAfterHeaders(p, i, stop, next) ==
    [IF stop THEN [p EXCEPT !.stopped[i] = TRUE] ELSE fcPush([p EXCEPT !.continued[i] = TRUE], next)
     EXCEPT !.asserts = @ /\ ~p.continued[i] /\ ~p.stopped[i]]

\* encodeHeaders(), one filter: it stops, or continues; it may add a body to headers
\* that end the stream.
FcHeaders(stop, add) ==
    /\ fc.stack # <<>> /\ fcTop.kind = "headers" /\ fcTop.at < FcCodec
    /\ LET i == fcTop.at
           end == fcTop.end /\ fcTop.entry = 0
           p == fcSees(fcRest, i, "headers", <<>>, end)
           q == IF add THEN fcAdd(p, i) ELSE p
           entry == IF fcTop.end /\ q.hasBuffer /\ fcTop.entry = 0 THEN i ELSE fcTop.entry
       IN  /\ add => end /\ ~fc.added /\ (FcAddLate \/ Len(fc.stack) = 1)
           /\ fc' = fcAfterHeaders(q, i, stop, [fcTop EXCEPT !.at = i + 1, !.entry = entry])

\* encodeHeaders(): the codec, and the body that a filter added.
FcHeadersEnd ==
    /\ fc.stack # <<>> /\ fcTop.kind = "headers" /\ fcTop.at = FcCodec
    /\ LET p == fcSees(fcRest, FcCodec, "headers", <<>>, fcTop.end /\ fcTop.entry = 0)
       IN  fc' = IF fcTop.entry = 0 THEN p
                 ELSE fcPush([p EXCEPT !.stopped[fcTop.entry] = TRUE], fcContinue(fcTop.entry))

\* As the filters of the code do: one that stopped lets data go on only at the end of
\* the stream, one that did not stop at the headers does not stop later.
fcMayStop(i) == fc.stopped[i]
fcMayContinue(i, end) == ~fc.stopped[i] \/ end

fcData == IF fcTop.inPlace THEN fc.buffer ELSE fcTop.data

\* commonHandleAfterDataCallback()
fcAfterData(p, i, stop) ==
    IF stop THEN fcBuffer([p EXCEPT !.stopped[i] = TRUE], fcTop)
    ELSE IF p.stopped[i] THEN fcPush(fcBuffer(p, fcTop), fcContinue(i))
    ELSE fcPush([p EXCEPT !.asserts = @ /\ p.continued[i]], [fcTop EXCEPT !.at = i + 1])

\* encodeData()
FcData(stop) ==
    /\ fc.stack # <<>> /\ fcTop.kind = "data" /\ fcTop.at < FcCodec
    /\ IF stop THEN fcMayStop(fcTop.at) ELSE fcMayContinue(fcTop.at, fcTop.end)
    /\ fc' = fcAfterData(fcSees(fcRest, fcTop.at, "data", fcData, fcTop.end), fcTop.at, stop)

FcDataEnd ==
    /\ fc.stack # <<>> /\ fcTop.kind = "data" /\ fcTop.at = FcCodec
    /\ LET p == fcSees(fcRest, FcCodec, "data", fcData, fcTop.end)
       IN  fc' = IF fcTop.inPlace THEN [p EXCEPT !.buffer = <<>>] ELSE p

\* commonHandleAfterTrailersCallback()
fcAfterTrailers(p, i, stop) ==
    IF stop THEN p
    ELSE IF p.stopped[i] THEN fcPush(p, fcContinue(i))
    ELSE fcPush([p EXCEPT !.asserts = @ /\ p.continued[i]], [fcTop EXCEPT !.at = i + 1])

\* encodeTrailers()
FcTrailers(stop) ==
    /\ fc.stack # <<>> /\ fcTop.kind = "trailers"
    /\ stop => fcTop.at < FcCodec /\ fcMayStop(fcTop.at)
    /\ LET p == fcSees(fcRest, fcTop.at, "trailers", <<>>, TRUE)
       IN  fc' = IF fcTop.at = FcCodec THEN p ELSE fcAfterTrailers(p, fcTop.at, stop)

\* continueEncoding(), by a filter that has stopped.
FcContinueEncoding(i) ==
    /\ fc.stack = <<>> /\ fc.stopped[i]
    /\ fc' = fcPush(fc, fcContinue(i))

\* commonContinue(): headers, then what is buffered, then trailers, each looked at when
\* its turn comes.
FcContinueHeaders ==
    /\ fc.stack # <<>> /\ fcTop.kind = "continue headers"
    /\ LET i == fcTop.at
           p == fcPush([fcRest EXCEPT !.stopped[i] = FALSE, !.continued[i] = TRUE, !.asserts = @ /\ fc.stopped[i]],
                       [fcTop EXCEPT !.kind = "continue data"])
       IN  fc' = IF fc.continued[i] THEN p
                 ELSE fcPush(p, fcHeaders(i + 1, fc.complete /\ ~fc.hasBuffer /\ ~fc.trailers))

FcContinueData ==
    /\ fc.stack # <<>> /\ fcTop.kind = "continue data"
    /\ LET p == fcPush(fcRest, [fcTop EXCEPT !.kind = "continue trailers"])
       IN  fc' = IF fc.hasBuffer
                 THEN fcPush(p, fcFrame("data", fcTop.at + 1, <<>>, TRUE, fc.complete /\ ~fc.trailers)) ELSE p

FcContinueTrailers ==
    /\ fc.stack # <<>> /\ fcTop.kind = "continue trailers"
    /\ fc' = IF fc.trailers THEN fcPush(fcRest, fcFrame("trailers", fcTop.at + 1, <<>>, FALSE, TRUE)) ELSE fcRest

FcNext ==
    \/ \E b \in BOOLEAN : FcEncodeHeaders(b) \/ FcEncodeData(b) \/ FcData(b) \/ FcTrailers(b)
    \/ \E stop, add \in BOOLEAN : FcHeaders(stop, add)
    \/ \E i \in 1..FcFilters : FcContinueEncoding(i)
    \/ FcEncodeTrailers \/ FcHeadersEnd \/ FcDataEnd
    \/ FcContinueHeaders \/ FcContinueData \/ FcContinueTrailers

FcSpec == FcInit /\ [][FcNext]_fc

----------------------------------------------------------------------------
(***************************************************************************)
(* Properties.                                                             *)
(***************************************************************************)

fcBody(i) == FlattenSeq([k \in DOMAIN fc.seen[i] |-> fc.seen[i][k].data])
fcSource == [k \in 1..fc.sent |-> k]

\* The codec is given headers once and first, every piece of the body once and in
\* order, and the end once and last; when nothing is in progress, no filter has
\* stopped and the response is complete, it has all of it.  No filter sees data or
\* trailers before headers, and no assertion about stopped filters fails.
FcSound ==
    LET codec == fc.seen[FcCodec]
        ends == {k \in DOMAIN codec : codec[k].end}
    IN  /\ fc.asserts
        /\ \A i \in 1..FcCodec : \A k \in DOMAIN fc.seen[i] : (fc.seen[i][k].kind = "headers") = (k = 1)
        /\ \A k \in ends : k = Len(codec)
        /\ IsPrefix(fcBody(FcCodec), IF fc.added THEN <<FcAdded>> ELSE fcSource)
        /\ fc.stack = <<>> /\ fc.complete /\ (\A i \in 1..FcFilters : ~fc.stopped[i]) =>
              ends # {} /\ fcBody(FcCodec) = (IF fc.added THEN <<FcAdded>> ELSE fcSource)

\* include/envoy/http/filter.h, on a body added to headers that end the stream:
\* the next filters get headers and then the data, which ends the stream, also when
\* the iteration is a continued one.  Nothing follows the end.
FcEndOnce ==
    \A i \in 1..FcCodec : \A k \in DOMAIN fc.seen[i] : fc.seen[i][k].end => k = Len(fc.seen[i])
=============================================================================
