------------------------------ MODULE TcpConnections ------------------------
(***************************************************************************)
(* TCP connections in three parts: accepting them (Li), TLS on them (Tl),  *)
(* and proxying them (Tp).                                                 *)
(***************************************************************************)

(* Accepting connections on a worker: ListenerImpl::listenCallback with its *)
(* hand-off by original destination (common/network/listener_impl.cc), the  *)
(* PROXY protocol line (common/network/proxy_protocol.cc) and the           *)
(* connections of ConnectionHandlerImpl (server/connection_handler_impl.cc).*)
EXTENDS Integers, Sequences, FiniteSets, SequencesExt

CONSTANTS
    LiConns,      \* connections, in the order they are accepted
    LiMaxLine,    \* MAX_PROXY_PROTO_LEN, 108 in the code
    LiMaxBytes    \* bound: bytes a client sends

ASSUME LiConstants == LiConns \subseteq Nat /\ LiMaxLine \in Nat /\ LiMaxBytes \in Nat

VARIABLE li

\* The listeners, in the order of listeners_: addresses, options.
LiListeners == <<
    [ip |-> "any", port |-> 1, original |-> TRUE,  proxy |-> FALSE],
    [ip |-> "any", port |-> 2, original |-> FALSE, proxy |-> FALSE],
    [ip |-> "B",   port |-> 2, original |-> FALSE, proxy |-> TRUE]>>

\* Addresses iptables may have redirected a connection from.
LiDestinations == {[ip |-> "B", port |-> 2], [ip |-> "C", port |-> 2], [ip |-> "C", port |-> 3]}

LiNone == [ip |-> "none", port |-> 0]

\* A client's bytes: letters, \r and \n; of the first one any,
\* of the others the end of a line only.
LiStreams(i) == IF i > 1 THEN {<<"r", "n">>} ELSE [1..LiMaxBytes -> {"a", "r", "n"}]

LiIdle == [at |-> "idle", listener |-> 0, sent |-> <<>>, queue |-> <<>>,
           buf |-> <<>>, search |-> 1, read |-> <<>>]

LiClosed == [LiIdle EXCEPT !.at = "closed"]

LiInit == li = [c |-> [i \in LiConns |-> LiIdle], listening |-> 1..3, exists |-> 1..3,
                count |-> 0, active |-> 0]

\* findListenerByAddress: an exact address before a wildcard; never a stopped one.
liFind(x, a) ==
    LET exact == {l \in x.listening : LiListeners[l].ip = a.ip /\ LiListeners[l].port = a.port}
        wild == {l \in x.listening : LiListeners[l].ip = "any" /\ LiListeners[l].port = a.port}
        first(s) == CHOOSE l \in s : \A k \in s : l <= k
    IN IF exact # {} THEN first(exact) ELSE IF wild # {} THEN first(wild) ELSE 0

\* onNewConnection: kept, unless the filter chain is empty or closed it already.
liNewConnection(x, i, kept) ==
    IF kept THEN [x EXCEPT !.c[i].at = "active", !.count = @ + 1, !.active = @ + 1]
    ELSE [x EXCEPT !.c[i] = LiClosed]

\* listenCallback.
LiAccept(i, l, dst, kept) ==
    LET handed == LiListeners[l].original /\ dst # LiNone /\ liFind(li, dst) # 0
        to == IF handed THEN liFind(li, dst) ELSE l
        x == [li EXCEPT !.c[i].listener = to]
    IN /\ li.c[i].at = "idle" /\ \A j \in LiConns : j < i => li.c[j].at # "idle"
       /\ l \in li.listening
       /\ IF LiListeners[to].proxy
          THEN \E stream \in LiStreams(i) :
                  li' = [x EXCEPT !.c[i].at = "line", !.c[i].sent = stream]
          ELSE li' = liNewConnection(x, i, kept)

\* More of the client's bytes come in.
LiBytes(i) ==
    LET c == li.c[i] IN
    /\ c.at = "line"
    /\ \E n \in 1..(Len(c.sent) - Len(c.buf) - Len(c.queue)) :
          li' = [li EXCEPT !.c[i].queue = @ \o SubSeq(c.sent, Len(c.buf) + Len(c.queue) + 1,
                                                      Len(c.buf) + Len(c.queue) + n)]

\* Where the search for \r\n goes on: at search_index_, which is never 0.
liSearchFromHere(c) == Len(c.buf) + 1
liSearch(c) == c.search

\* readLine: peeks at what there is and takes it up to the end of the line.
\* Indices are the code's, which count from 0.
liReadLine(c) ==
    LET room == LiMaxLine - Len(c.buf)
        seen == c.buf \o SubSeq(c.queue, 1, IF Len(c.queue) < room THEN Len(c.queue) ELSE room)
        ends == {k \in liSearch(c)..(Len(seen) - 1) : seen[k + 1] = "n" /\ seen[k] = "r"}
        end == IF ends # {} THEN (CHOOSE k \in ends : \A j \in ends : k <= j) + 1
               ELSE IF liSearch(c) > Len(seen) THEN liSearch(c) ELSE Len(seen)
    IN [c EXCEPT !.buf = SubSeq(seen, 1, end), !.search = end,
                 !.queue = SubSeq(@, end - Len(c.buf) + 1, Len(@)),
                 !.at = IF ends # {} THEN "found"
                        ELSE IF Len(seen) >= LiMaxLine THEN "closed" ELSE "line"]

\* onReadWorker: six parts, TCP4 or TCP6, both addresses of that version and unicast.
LiHeaders == [parts : {5, 6}, proto : {"v4", "v6", "other"}, remote : {"v4", "v6"},
              localIp : {"v4", "v6", "bad"}, unicast : BOOLEAN]

liParses(h) == /\ h.parts = 6 /\ h.proto # "other" /\ h.localIp # "bad"
               /\ h.remote = h.proto /\ h.localIp = h.proto
               /\ h.unicast

LiOutcomes == {liParses(h) : h \in LiHeaders}

\* onRead: the connection goes on with the bytes after the line, or is closed.
LiRead(i, parses, kept) ==
    LET c == li.c[i]
        d == liReadLine(c)
        x == [li EXCEPT !.c[i] = d]
    IN /\ c.at = "line" /\ c.queue # <<>>
       /\ li' = IF d.at = "closed" THEN [li EXCEPT !.c[i] = LiClosed]
                ELSE IF d.at = "line" THEN x
                ELSE IF ~parses THEN [x EXCEPT !.c[i] = LiClosed]
                ELSE liNewConnection([x EXCEPT !.c[i].read = d.queue, !.c[i].queue = <<>>], i, kept)

\* The client goes away before its line is complete: recv gives 0.
LiGone(i) ==
    /\ li.c[i].at = "line" /\ li.c[i].queue = <<>>
    /\ li' = [li EXCEPT !.c[i] = LiClosed]

\* ActiveConnection::onEvent, removeConnection; then ~ActiveConnection.
liRemoveConnection(x, i) == [x EXCEPT !.c[i].at = "deferred", !.count = @ - 1]

liDelete(x, is) ==
    [x EXCEPT !.c = [i \in LiConns |-> IF i \in is THEN LiClosed ELSE @[i]],
              !.active = @ - Cardinality(is)]

LiClose(i) ==
    /\ li.c[i].at = "active"
    /\ li' = liRemoveConnection(li, i)

liDeferred(x) == {i \in LiConns : x.c[i].at = "deferred"}

LiClearDeferred ==
    /\ liDeferred(li) # {}
    /\ li' = liDelete(li, liDeferred(li))

\* ~ListenerImpl: the sockets that wait for their line are closed with it.
liStop(x, ls) ==
    [x EXCEPT !.listening = @ \ ls,
              !.c = [i \in LiConns |-> IF @[i].at = "line" /\ @[i].listener \in ls
                                       THEN LiClosed ELSE @[i]]]

LiStopListeners(ls) == ls \cap li.listening # {} /\ li' = liStop(li, ls)

\* The end of ~ActiveListener: clearDeferredDeleteList.
liClearNot(x) == x
liClear(x) == liDelete(x, liDeferred(x))

\* removeListeners, ~ActiveListener: closes its connections and destroys them.
LiRemoveListener(l) ==
    LET mine == {i \in LiConns : li.c[i].at = "active" /\ li.c[i].listener = l}
        closed == FoldSet(LAMBDA i, x : liRemoveConnection(x, i), li, mine)
    IN /\ l \in li.exists
       /\ li' = [liClear(liStop(closed, {l})) EXCEPT !.exists = @ \ {l}]

LiNext ==
    \/ \E i \in LiConns, l \in 1..3, dst \in LiDestinations \cup {LiNone}, kept \in BOOLEAN :
          LiAccept(i, l, dst, kept)
    \/ \E i \in LiConns : LiBytes(i) \/ LiGone(i) \/ LiClose(i)
    \/ \E i \in LiConns, parses \in LiOutcomes, kept \in BOOLEAN :
          LiRead(i, parses, kept)
    \/ \E l \in 1..3 : LiRemoveListener(l) \/ LiStopListeners({l})
    \/ LiStopListeners(1..3)
    \/ LiClearDeferred

(***************************************************************************)
(* Properties                                                              *)
(***************************************************************************)
\* Where the first line ends, from the bytes the client sent alone.
liLineEnd(s) ==
    LET ends == {k \in 2..Len(s) : s[k] = "n" /\ s[k - 1] = "r"}
    IN IF ends = {} THEN 0 ELSE CHOOSE k \in ends : \A j \in ends : k <= j

\* However its bytes were cut up, a connection behind a PROXY line starts after
\* the line, which is whole and not too long; one that still waits for the line
\* has not been sent it.
liLineTaken ==
    \A i \in LiConns : LET c == li.c[i] IN
        /\ c.at = "active" /\ LiListeners[c.listener].proxy =>
              /\ liLineEnd(c.sent) \in 2..LiMaxLine
              /\ c.buf = SubSeq(c.sent, 1, liLineEnd(c.sent))
              /\ c.buf \o c.read = SubSeq(c.sent, 1, Len(c.buf) + Len(c.read))
        /\ c.at = "line" /\ c.queue = <<>> => liLineEnd(c.buf) = 0 /\ Len(c.buf) < LiMaxLine

\* A connection lives with a listener that still is there, and the counts are of
\* the connections there are.
liCounted ==
    /\ \A i \in LiConns : li.c[i].at \in {"active", "deferred"} => li.c[i].listener \in li.exists
    /\ \A i \in LiConns : li.c[i].at = "line" => li.c[i].listener \in li.listening
    /\ li.count = Cardinality({i \in LiConns : li.c[i].at = "active"})
    /\ li.active = li.count + Cardinality(liDeferred(li))

LiSound == liLineTaken /\ liCounted

-----------------------------------------------------------------------------
(* common/ssl/connection_impl.cc, on top of common/network/connection_impl: *)
(* one connection, its handshake and the data either way.  A file event is  *)
(* edge triggered: the kernel reports what is ready when something changes, *)
(* or when the event is enabled anew, and enabling drops what was reported  *)
(* or activated before.  What the TLS library has taken from the socket and *)
(* not yet given out is not seen by the kernel.                             *)

CONSTANTS TlFlights,  \* flights of the peer's handshake
          TlRecord,   \* units of data in a record
          TlLimit,    \* read_buffer_limit_, in units; 0 is no limit
          TlMaxIn,    \* bound: records the peer sends
          TlMaxOut    \* bound: writes

ASSUME TlConstants == {TlFlights, TlRecord} \subseteq Nat \ {0} /\ {TlLimit, TlMaxIn, TlMaxOut} \subseteq Nat

VARIABLE tl

\* fd: the socket is open; want: the handshake waits for room in the socket;
\* flights: of the peer, in the socket; taken: those the library has taken;
\* socket, pending, buffer: units in the socket, in the library, in read_buffer_.
TlInit ==
    \E connecting \in BOOLEAN :
        tl = [fd |-> TRUE, connecting |-> connecting, flush |-> FALSE, reads |-> TRUE,
              handshake |-> FALSE, flights |-> 0, taken |-> 0, sent |-> 0, fin |-> FALSE,
              socket |-> 0, pending |-> 0, buffer |-> 0, got |-> 0,
              out |-> 0, written |-> 0, wrote |-> 0, room |-> TRUE,
              ev |-> IF connecting THEN {} ELSE {"W"}, raised |-> << >>, shutdown |-> 0,
              errors |-> 0, failed |-> FALSE, asked |-> "none", dropped |-> FALSE, late |-> FALSE]

tlState(p) == IF ~p.fd THEN "Closed" ELSE IF p.flush THEN "Closing" ELSE "Open"

\* What the kernel finds ready, of what the event asks for.
tlReady(p) ==
    {e \in {"R", "W", "C"} :
        CASE e = "R" -> p.reads /\ (p.flights > 0 \/ p.socket > 0 \/ p.fin)
          [] e = "W" -> p.room /\ ~p.connecting
          [] e = "C" -> ~p.reads /\ p.fin}

tlEdge(p) == IF p.fd THEN [p EXCEPT !.ev = @ \cup tlReady(p)] ELSE p

\* FileEventImpl::setEnabled(), activate()
tlSetEnabled(p) == [p EXCEPT !.ev = tlReady(p)]
tlActivate(p, e) == [p EXCEPT !.ev = @ \cup {e}]

tlRaise(p, event) == [p EXCEPT !.raised = Append(@, event)]

\* Mutant: a shutdown is sent whenever there was a handshake.
tlCloseSocketAgain(p, event) ==
    LET q == IF p.handshake THEN [p EXCEPT !.shutdown = @ + 1] ELSE p
    IN IF p.fd THEN tlRaise([q EXCEPT !.fd = FALSE, !.ev = {}], event) ELSE q

\* closeSocket() of Ssl::ConnectionImpl and of Network::ConnectionImpl
tlCloseSocket(p, event) ==
    IF ~p.fd THEN p
    ELSE tlRaise([p EXCEPT !.fd = FALSE, !.ev = {}, !.shutdown = IF p.handshake THEN @ + 1 ELSE @], event)

\* drainErrorQueue(): an error the library reports is counted here, unless the
\* verification of the certificate has counted it.
tlDrainErrorQueue(p, counted) == [p EXCEPT !.errors = IF counted THEN @ ELSE @ + 1]

tlFail(p) == {[a |-> "Close", p |-> tlDrainErrorQueue([p EXCEPT !.failed = TRUE], counted)] : counted \in BOOLEAN}

\* SSL_write() of what there is, slice after slice, until it is all written,
\* there is no room, or it fails.
tlWriteOut(p) ==
    IF p.out = 0 THEN {[a |-> "KeepOpen", p |-> p]}
    ELSE tlFail(p) \cup
         {[a |-> "KeepOpen", p |-> [p EXCEPT !.out = @ - k, !.wrote = @ + k, !.room = k = p.out, !.late = @ \/ ~p.fd]]
          : k \in IF p.room THEN 0..p.out ELSE {0}}

\* close(FlushWrite) with data to write waits; every other close ends it.
tlCloseFlush(p) ==
    IF ~p.fd THEN p
    ELSE IF p.out = 0 THEN tlCloseSocket(p, "LocalClose")
    ELSE tlSetEnabled([p EXCEPT !.flush = TRUE, !.reads = FALSE])

tlCloseNow(p) == IF ~p.fd THEN {p} ELSE {tlCloseSocket(o.p, "LocalClose") : o \in tlWriteOut(p)}

\* What the user of the connection does when it is told that it is connected.
tlReacts(p) == {p} \cup tlCloseNow(p) \cup {tlCloseFlush([p EXCEPT !.asked = "flush"])}

\* SSL_do_handshake(): takes the flights there are, needs room to answer, may fail.
tlSslHandshake(p) ==
    LET q == [p EXCEPT !.taken = @ + p.flights, !.flights = 0]
    IN {[r |-> "want", p |-> [q EXCEPT !.room = FALSE]]}
       \cup (IF p.room /\ q.taken = TlFlights THEN {[r |-> "done", p |-> q]}
             ELSE IF p.room /\ p.fin THEN {} ELSE {[r |-> "want", p |-> q]})
       \cup (IF p.flights > 0 \/ p.fin THEN {[r |-> "error", p |-> q]} ELSE {})

\* Mutant: a close in the callback of the handshake is not noticed.
tlAfterConnectedOpen(p) == "KeepOpen"

\* It is possible that the callback has closed the connection.
tlAfterConnected(p) == IF tlState(p) = "Open" THEN "KeepOpen" ELSE "Close"

\* doHandshake(): outcomes with a post I/O action.
tlDoHandshake(p) ==
    UNION {CASE h.r = "want" -> {[a |-> "KeepOpen", p |-> h.p]}
             [] h.r = "error" -> tlFail(h.p)
             [] h.r = "done" -> {[a |-> tlAfterConnected(q), p |-> q] :
                                   q \in tlReacts(tlRaise([h.p EXCEPT !.handshake = TRUE], "Connected"))}
           : h \in tlSslHandshake(p)}

\* Reading and writing begin with the handshake, while there is one to do.
tlAfterHandshake(p) ==
    IF p.handshake THEN {[a |-> "KeepOpen", p |-> p]} ELSE tlDoHandshake(p)

\* Mutant: a full buffer ends the reading and nothing resumes it.
tlYieldsSilently(p) == p

\* setReadBufferReady()
tlYields(p) == tlActivate(p, "R")

\* The loop of doReadFromSocket(): to the end of what there is, or to any point
\* past the limit; a record may be left half read in the library, and one may
\* turn out to be bad.
tlReadAll(p) ==
    LET there == p.pending + p.socket
        full == TlLimit > 0 /\ p.buffer + there >= TlLimit
        stops == IF full THEN {n \in 0..there : p.buffer + n >= TlLimit} ELSE {there}
        half(n) == (there - n) % TlRecord
        take(n) == [p EXCEPT !.buffer = @ + n, !.pending = half(n), !.socket = there - n - half(n)]
    IN UNION {tlFail(take(n)) : n \in {n \in 0..there : n < there}} \cup
       {[a |-> IF ~full /\ p.fin THEN "Close" ELSE "KeepOpen",
         p |-> IF full THEN tlYields(take(n)) ELSE take(n)] : n \in stops}

tlDoRead(p) ==
    UNION {IF o.a = "Close" \/ ~o.p.handshake THEN {o} ELSE tlReadAll(o.p) : o \in tlAfterHandshake(p)}

\* readDisable()
tlReadDisable(p) == tlSetEnabled([p EXCEPT !.reads = FALSE, !.dropped = @ \/ p.pending > 0])
tlReadEnable(p) ==
    LET q == tlSetEnabled([p EXCEPT !.reads = TRUE]) IN IF q.buffer > 0 THEN tlActivate(q, "R") ELSE q

\* onRead(): the filter takes what there is, and may then stop reading or close.
tlOnRead(p) ==
    IF ~p.reads \/ p.buffer = 0 THEN {p}
    ELSE LET q == [p EXCEPT !.got = @ + p.buffer, !.buffer = 0, !.late = @ \/ ~p.fd]
         IN {q, tlReadDisable(q), tlCloseFlush([q EXCEPT !.asked = "flush"])}

tlOnReadReady(p) ==
    UNION {{IF o.a = "Close" THEN tlCloseSocket(q, "RemoteClose") ELSE q : q \in tlOnRead(o.p)} : o \in tlDoRead(p)}

tlDoWrite(p) ==
    UNION {IF o.a = "Close" \/ ~o.p.handshake THEN {o} ELSE tlWriteOut(o.p)
           : o \in tlAfterHandshake(p)}

tlOnWriteReady(p) ==
    {IF o.a = "Close" THEN tlCloseSocket(o.p, "RemoteClose")
     ELSE IF o.p.flush /\ o.p.out = 0 THEN tlCloseSocket(o.p, "LocalClose") ELSE o.p : o \in tlDoWrite(p)}

\* onFileEvent()
TlFileEvent ==
    /\ tl.fd /\ tl.ev # {}
    /\ LET p == [tl EXCEPT !.ev = {}] IN
       IF "C" \in tl.ev THEN tl' = tlCloseSocket(p, "RemoteClose")
       ELSE \E q \in IF "W" \in tl.ev THEN tlOnWriteReady(p) ELSE {p} :
               IF q.fd /\ "R" \in tl.ev THEN \E r \in tlOnReadReady(q) : tl' = r ELSE tl' = q

\* write(), close() and readDisable() of the user, outside a callback.
TlWrite ==
    /\ tlState(tl) = "Open" /\ tl.written < TlMaxOut
    /\ LET p == [tl EXCEPT !.written = @ + 1, !.out = @ + 1]
       IN tl' = IF p.connecting THEN p ELSE tlActivate(p, "W")

\* A close that does not wait still tries to write, and for that to shake hands.
TlClose ==
    /\ tlState(tl) = "Open"
    /\ \/ tl' = tlCloseFlush([tl EXCEPT !.asked = "flush"])
       \/ \E o \in IF tl.out > 0 /\ ~tl.connecting THEN tlDoWrite(tl) ELSE {[a |-> "KeepOpen", p |-> tl]} :
             tl' = [tlCloseSocket(o.p, "LocalClose") EXCEPT !.asked = "now"]

TlReadDisable == tlState(tl) = "Open" /\ tl' = IF tl.reads THEN tlReadDisable(tl) ELSE tlReadEnable(tl)

\* The peer and the network: its flights, its data, its end; room in the socket.
TlConnects == tl.connecting /\ tl.fd /\ tl' = tlEdge([tl EXCEPT !.connecting = FALSE])
TlPeerShakes ==
    /\ ~tl.connecting /\ tl.fd /\ ~tl.fin /\ tl.flights + tl.taken < TlFlights
    /\ tl' = tlEdge([tl EXCEPT !.flights = @ + 1])
TlPeerSends ==
    /\ tl.fd /\ ~tl.fin /\ tl.flights + tl.taken = TlFlights /\ tl.sent < TlMaxIn * TlRecord
    /\ tl' = tlEdge([tl EXCEPT !.sent = @ + TlRecord, !.socket = @ + TlRecord])
TlPeerCloses == tl.fd /\ ~tl.connecting /\ ~tl.fin /\ tl' = tlEdge([tl EXCEPT !.fin = TRUE])
TlRoom == tl.fd /\ ~tl.room /\ tl' = tlEdge([tl EXCEPT !.room = TRUE])

TlNext ==
    \/ TlFileEvent \/ TlWrite \/ TlClose \/ TlReadDisable
    \/ TlConnects \/ TlPeerShakes \/ TlPeerSends \/ TlPeerCloses \/ TlRoom

TlSpec == TlInit /\ [][TlNext]_tl

(***************************************************************************)
(* Properties                                                              *)
(***************************************************************************)
tlTimes(event) == Len(SelectSeq(tl.raised, LAMBDA e : e = event))

\* Connected is raised at most once, when the handshake is done, and before any
\* data; a closed connection has raised exactly one close, and nothing is
\* raised, delivered or written after it.
tlEventsInOrder ==
    /\ tlTimes("Connected") = IF tl.handshake THEN 1 ELSE 0
    /\ tlTimes("LocalClose") + tlTimes("RemoteClose") = IF tl.fd THEN 0 ELSE 1
    /\ ~tl.fd => tl.raised[Len(tl.raised)] # "Connected"
    /\ tl.got + tl.buffer + tl.wrote > 0 => tl.handshake
    /\ ~tl.late

\* A shutdown is sent once, for a connection that had its handshake.
tlShutdownOnce == tl.shutdown = IF tl.handshake /\ ~tl.fd THEN 1 ELSE 0

\* Nothing is lost or made up while the connection is open.
tlConserved ==
    /\ tl.fd => tl.got + tl.buffer + tl.pending + tl.socket = tl.sent
    /\ tl.out + tl.wrote = tl.written

tlWaiting == tl.fd /\ ~tl.connecting

\* Whoever could go on has an event coming: the peer's flights and data are
\* read, what is to be written is written, unless there is no room.  The one
\* exception is data in the library when reading was stopped.
tlNeverStuck ==
    /\ tlWaiting /\ tl.reads /\ tl.handshake /\ tl.socket + tl.pending > 0 /\ ~tl.dropped => "R" \in tl.ev
    /\ tlWaiting /\ tl.reads /\ ~tl.handshake /\ tl.flights > 0 => "R" \in tl.ev
    /\ tlWaiting /\ tl.handshake /\ tl.out > 0 /\ tl.room => "W" \in tl.ev
    /\ tlWaiting /\ tl.taken = TlFlights /\ ~tl.handshake /\ tl.room => tl.ev # {}
    /\ tlWaiting /\ tl.fin /\ (tl.handshake \/ tl.room) => tl.ev \cap {"R", "C"} # {} \/ tl.dropped

TlSound == tlEventsInOrder /\ tlShutdownOnce /\ tlConserved /\ tlNeverStuck

\* Data that has arrived is read, when reading is enabled.
TlDataSeen == tlWaiting /\ tl.reads /\ tl.handshake /\ tl.socket + tl.pending > 0 => "R" \in tl.ev

\* A close that flushes raises LocalClose when everything is written.
TlFlushHonoured ==
    tl.asked = "flush" /\ ~tl.fd /\ ~tl.fin /\ ~tl.failed => tlTimes("LocalClose") = 1 /\ tl.out = 0

\* Who closes a connection is not told meanwhile that it is connected.
TlQuietClose == [][tl.asked # "now" /\ tl'.asked = "now" => tl'.handshake = tl.handshake]_tl

-----------------------------------------------------------------------------
(* A TCP proxy session (common/filter/tcp_proxy.cc): a downstream and an   *)
(* upstream Network::ConnectionImpl (common/network/connection_impl.cc)    *)
(* and the filter between them.  Bytes are counted, not stored.  The       *)
(* kernel's side of a socket is the bytes to read (kin), whether its send  *)
(* buffer is full, whether the peer has closed (fin) and the edge          *)
(* triggered events not yet delivered (ev).  An operator that writes to a  *)
(* socket gives the set of states it may leave, one for each amount the    *)
(* kernel takes.                                                           *)

CONSTANTS
    TpMaxData,   \* bound: bytes each peer sends
    TpChunk,     \* bytes one read takes, 16384 in the code
    TpLimit,     \* per_connection_buffer_limit_bytes, 0 for none
    TpRoutes     \* the routes: [ports, cluster], an empty set for any port

ASSUME TpConstants == /\ {TpMaxData, TpChunk} \subseteq Nat \ {0}
                      /\ TpLimit \in Nat

VARIABLE tp

\* Socket and InternalState of a connection that is not connecting.
TpConn == [fd |-> TRUE, connecting |-> FALSE, error |-> FALSE, bind |-> FALSE,
           readEnabled |-> TRUE, disables |-> 0, flush |-> FALSE,
           rbuf |-> 0, wbuf |-> 0, above |-> FALSE,
           kin |-> 0, full |-> FALSE, fin |-> FALSE, kst |-> "ok",
           en |-> {"R", "W"}, ev |-> {"W"}]

TpNoConn == [TpConn EXCEPT !.fd = FALSE, !.ev = {}]

\* closeSocket: state_ and the write buffer are left as they were.
tpClosed(c) == [TpNoConn EXCEPT !.connecting = c.connecting, !.bind = c.bind,
                                !.wbuf = c.wbuf, !.above = c.above]

TpInit == tp = [d |-> TpNoConn, u |-> TpNoConn, phase |-> "idle", timer |-> FALSE,
                cx |-> 0, sent |-> [d |-> 0, u |-> 0], got |-> [d |-> 0, u |-> 0],
                early |-> FALSE, flushed |-> FALSE, crash |-> "no"]

tpOther(s) == IF s = "d" THEN "u" ELSE "d"

tpState(c) == IF ~c.fd THEN "Closed" ELSE IF c.flush THEN "Closing" ELSE "Open"

\* setEnabled: epoll looks at the socket again.
tpEnable(c, es) ==
    [c EXCEPT !.en = es,
              !.ev = {e \in es : \/ e = "R" /\ (c.kin > 0 \/ c.fin)
                                 \/ e = "W" /\ ~c.full
                                 \/ e = "C" /\ c.fin}]

tpReadDisable(x, s, disable) ==
    LET c == x[s] IN
    IF tpState(c) # "Open" THEN [x EXCEPT !.crash = s]
    ELSE IF disable
    THEN IF ~c.readEnabled THEN [x EXCEPT ![s].disables = @ + 1]
         ELSE [x EXCEPT ![s] = tpEnable([c EXCEPT !.readEnabled = FALSE], {"W", "C"})]
    ELSE IF c.disables > 0 THEN [x EXCEPT ![s].disables = @ - 1]
         ELSE [x EXCEPT ![s] =
                 LET e == tpEnable([c EXCEPT !.readEnabled = TRUE], {"R", "W"}) IN
                 IF c.rbuf > 0 THEN [e EXCEPT !.ev = @ \cup {"R"}] ELSE e]

tpReadDisableUpstreamAlways(x, disable) == tpReadDisable(x, "u", disable)

\* readDisableUpstream looks at the state first, readDisableDownstream does not.
tpReadDisableUpstream(x, disable) ==
    IF tpState(x.u) # "Open" THEN x ELSE tpReadDisable(x, "u", disable)

tpReadDisableDownstream(x, disable) == tpReadDisable(x, "d", disable)

tpDisableOther(x, s, disable) ==
    IF s = "d" THEN tpReadDisableUpstream(x, disable) ELSE tpReadDisableDownstream(x, disable)

\* WatermarkBuffer with setWatermarks(limit + 1): low is half of high.
tpHigh == TpLimit + 1
tpLow == tpHigh \div 2

tpCheckHigh(x, s) ==
    IF x[s].above \/ TpLimit = 0 \/ x[s].wbuf <= tpHigh THEN x
    ELSE tpDisableOther([x EXCEPT ![s].above = TRUE], s, TRUE)

tpCheckLow(x, s) ==
    IF ~x[s].above \/ x[s].wbuf >= tpLow THEN x
    ELSE tpDisableOther([x EXCEPT ![s].above = FALSE], s, FALSE)

\* write: into the buffer; the socket is written from the loop.
tpWrite(x, s, n) ==
    IF n = 0 THEN x
    ELSE IF ~x[s].fd /\ ~x[s].connecting THEN [x EXCEPT !.crash = "write"]
    ELSE LET y == tpCheckHigh([x EXCEPT ![s].wbuf = @ + n], s) IN
         IF y[s].connecting THEN y ELSE [y EXCEPT ![s].ev = @ \cup {"W"}]

\* doWriteToSocket: until the buffer is empty or the kernel takes no more;
\* a peer that has gone may answer with an error.
tpDoWrite(x, s) ==
    LET c == x[s]
        after(k) == tpCheckLow([x EXCEPT ![s].wbuf = @ - k, ![s].full = k < c.wbuf,
                                         !.got[s] = @ + k], s)
    IN IF c.wbuf = 0 THEN {[x |-> x, close |-> FALSE]}
       ELSE {[x |-> after(k), close |-> FALSE] : k \in IF c.full \/ c.kst # "ok" THEN {0} ELSE 1..c.wbuf}
            \cup (IF c.fin \/ c.kst = "refused" THEN {[x |-> x, close |-> TRUE]} ELSE {})

tpDisableTimer(x) == [x EXCEPT !.timer = FALSE]

\* closeSocket of the upstream from close(NoFlush): what the kernel takes is
\* written first; onUpstreamEvent(LocalClose).
tpCloseUpstream(x) ==
    IF ~x.u.fd THEN {x}
    ELSE {tpDisableTimer([r.x EXCEPT !.u = tpClosed(@)])
             : r \in tpDoWrite(x, "u")}

\* closeSocket of the downstream: onDownstreamEvent closes the upstream, the
\* listener's ActiveConnection::onEvent hands the connection to deferredDelete.
tpCloseDownSocket(x, flushed) ==
    {[y EXCEPT !.phase = "closed", !.flushed = flushed]
        : y \in tpCloseUpstream([x EXCEPT !.d = tpClosed(@)])}

\* close of the downstream: NoFlush or FlushWrite.
tpCloseNoFlush(x) ==
    IF ~x.d.fd THEN {x}
    ELSE UNION {tpCloseDownSocket(r.x, FALSE) : r \in tpDoWrite(x, "d")}

tpCloseFlush(x) ==
    IF ~x.d.fd THEN {x}
    ELSE IF x.d.wbuf = 0 THEN tpCloseDownSocket(x, TRUE)
    ELSE {[x EXCEPT !.d = tpEnable([@ EXCEPT !.flush = TRUE, !.readEnabled = FALSE],
                                   {"W", "C"})]}

\* closeSocket(RemoteClose): onUpstreamEvent closes the downstream with a flush.
tpRemoteClosed(x, s) ==
    IF s = "d" THEN tpCloseDownSocket(x, FALSE)
    ELSE {tpDisableTimer(y) : y \in tpCloseFlush([x EXCEPT !.u = tpClosed(@)])}

\* closeSocket(LocalClose) of the upstream: the downstream is left alone.
tpLocalClosed(x, s) ==
    IF s = "d" THEN tpCloseDownSocket(x, TRUE)
    ELSE {tpDisableTimer([x EXCEPT !.u = tpClosed(@)])}

\* The upstream was closed without reading it to its end.
tpEarly(xs, s) == {[x EXCEPT !.early = s = "u"] : x \in xs}

tpOnWriteReady(x, s) ==
    IF x[s].connecting /\ x[s].kst = "refused" THEN tpRemoteClosed(x, s)
    ELSE LET y == IF x[s].connecting
                  THEN tpDisableTimer([x EXCEPT ![s].connecting = FALSE]) ELSE x
         IN UNION {IF r.close THEN tpEarly(tpRemoteClosed(r.x, s), s)
                   ELSE IF r.x[s].flush /\ r.x[s].wbuf = 0 THEN tpLocalClosed(r.x, s)
                   ELSE {r.x} : r \in tpDoWrite(y, s)}

\* doReadFromSocket: reads until there is nothing left or the limit is reached;
\* at the limit the read is taken up again from the loop.
tpTaken(c) ==
    LET taken(k) == IF k * TpChunk < c.kin THEN k * TpChunk ELSE c.kin
        last(k) == \/ taken(k) = c.kin
                   \/ TpLimit > 0 /\ c.rbuf + taken(k) >= TpLimit
    IN taken(CHOOSE k \in 1..(c.kin + 1) : last(k) /\ \A j \in 1..(k - 1) : ~last(j))

tpDrains(c) == c.kin > 0 /\ TpLimit > 0 /\ c.rbuf + tpTaken(c) >= TpLimit

tpSetReadBufferReadyNot(c) == c

\* setReadBufferReady: an event of our own, for what the kernel still holds.
tpSetReadBufferReady(c) == [c EXCEPT !.ev = @ \cup {"R"}]

\* onRead and the filter's onData: all that is buffered goes to the other side.
tpOnRead(x, s) ==
    IF ~x[s].readEnabled \/ x[s].rbuf = 0 THEN x
    ELSE tpWrite([x EXCEPT ![s].rbuf = 0], tpOther(s), x[s].rbuf)

tpOnReadReady(x, s) ==
    IF x[s].connecting THEN {[x EXCEPT !.crash = "read"]}
    ELSE LET c == x[s]
             n == tpTaken(c)
             r == [c EXCEPT !.kin = @ - n, !.rbuf = @ + n]
             y == tpOnRead([x EXCEPT ![s] = IF tpDrains(c) THEN tpSetReadBufferReady(r) ELSE r], s)
         IN IF c.fin /\ r.kin = 0 /\ ~tpDrains(c) THEN tpRemoteClosed(y, s) ELSE {y}

\* onFileEvent.
tpOnFileEvent(x, s) ==
    LET c == x[s]
        y == [x EXCEPT ![s].ev = {}]
    IN CASE c.error -> tpRemoteClosed(y, s)
         [] ~c.error /\ c.bind -> tpLocalClosed(y, s)
         [] ~c.error /\ ~c.bind /\ "C" \in c.ev ->
              tpEarly(tpRemoteClosed(y, s), s)
         [] OTHER ->
              LET ws == IF "W" \in c.ev THEN tpOnWriteReady(y, s) ELSE {y} IN
              UNION {IF w[s].fd /\ "R" \in c.ev /\ w.crash = "no"
                     THEN tpOnReadReady(w, s) ELSE {w} : w \in ws}

TpFileEvent(s) ==
    /\ tp.crash = "no" /\ tp[s].fd /\ tp[s].ev # {}
    /\ tp' \in tpOnFileEvent(tp, s)

\* getRouteFromEntries: the first route the port falls in.
tpRoute(port) ==
    LET fits == {i \in 1..Len(TpRoutes) : TpRoutes[i].ports = {} \/ port \in TpRoutes[i].ports}
    IN IF fits = {} THEN "none"
       ELSE TpRoutes[CHOOSE i \in fits : \A j \in fits : i <= j].cluster

\* onNewConnection of the listener and of the filter: initializeUpstreamConnection.
\* how: the host is there or not, and what bind and connect say.
TpNewConnection(port, how) ==
    LET x == [tp EXCEPT !.d = TpConn, !.phase = "open"]
        up == [TpConn EXCEPT !.connecting = how \in {"progress", "bind"},
                             !.error = how = "immediate", !.bind = how = "bind",
                             !.kst = IF how = "immediate" THEN "refused" ELSE "syn", !.ev = IF how = "progress" THEN {} ELSE {"W"}]
    IN /\ tp.phase = "idle"
       /\ IF tpRoute(port) = "none" \/ how = "nohost"
          THEN tp' \in tpCloseNoFlush(x)
          ELSE tp' = [x EXCEPT !.u = up, !.timer = TRUE, !.cx = 1]

\* onConnectTimeout.
TpConnectTimeout ==
    /\ tp.crash = "no" /\ tp.timer
    /\ tp' \in tpCloseNoFlush(tp)

\* ~TcpProxy, from the deferred delete list.
TpDestroy ==
    /\ tp.crash = "no" /\ tp.phase = "closed"
    /\ tp' = [tp EXCEPT !.phase = "destroyed", !.cx = 0]

\* The kernel and the peers.
TpConnects(to) ==
    /\ tp.u.fd /\ tp.u.kst = "syn" /\ tp.u.connecting /\ ~tp.u.bind
    /\ tp' = [tp EXCEPT !.u.kst = to, !.u.ev = @ \cup {"W"}]

TpPeerSends(s) ==
    /\ tp[s].fd /\ tp[s].kst = "ok" /\ ~tp[s].fin /\ tp.sent[s] < TpMaxData
    /\ tp' = [tp EXCEPT !.sent[s] = @ + 1, ![s].kin = @ + 1,
                        ![s].ev = @ \cup (tp[s].en \cap {"R"})]

TpPeerCloses(s) ==
    /\ tp[s].fd /\ tp[s].kst = "ok" /\ ~tp[s].fin
    /\ tp' = [tp EXCEPT ![s].fin = TRUE, ![s].ev = @ \cup (tp[s].en \cap {"R", "C"})]

TpKernelDrains(s) ==
    /\ tp[s].fd /\ tp[s].full
    /\ tp' = [tp EXCEPT ![s].full = FALSE, ![s].ev = @ \cup {"W"}]

TpNext ==
    \/ \E port \in 1..2, how \in {"progress", "immediate", "bind", "nohost"} :
            TpNewConnection(port, how)
    \/ \E s \in {"d", "u"} : TpFileEvent(s) \/ TpPeerSends(s) \/ TpPeerCloses(s) \/ TpKernelDrains(s)
    \/ \E to \in {"ok", "refused"} : TpConnects(to)
    \/ TpConnectTimeout
    \/ TpDestroy

(***************************************************************************)
(* Properties                                                              *)
(***************************************************************************)
\* Bytes are neither lost nor made while both sockets are open.
tpConserved ==
    tp.d.fd /\ tp.u.fd =>
        \A s \in {"d", "u"} :
            tp.sent[s] = tp[s].kin + tp[s].rbuf + tp[tpOther(s)].wbuf + tp.got[tpOther(s)]

\* Events are edge triggered, so what can be done has its event: a connection
\* that may read and has something to read, buffered bytes included, one that
\* may write, one that stopped reading and was closed by its peer.
tpNeverStuck ==
    \A s \in {"d", "u"} : LET c == tp[s] IN
        c.fd /\ ~c.connecting =>
            /\ c.readEnabled /\ (c.kin > 0 \/ c.fin \/ c.rbuf > 0) => "R" \in c.ev
            /\ ~c.readEnabled /\ c.fin => "C" \in c.ev
            /\ c.wbuf > 0 /\ ~c.full => "W" \in c.ev

\* A side stops reading only while the other's write buffer is too full.
tpPausedForCause ==
    \A s \in {"d", "u"} :
        tpState(tp[s]) = "Open" => (tp[s].readEnabled <=> ~(tp[tpOther(s)].above))

\* A session that ended because the upstream closed gave its client all the
\* upstream had sent, unless the close was noticed by a failed write or while
\* reading was stopped.
tpAnswerWhole == tp.flushed /\ ~tp.early => tp.got.d = tp.sent.u

\* When the session is over nothing of it is left.
tpNothingLeft ==
    tp.phase \in {"closed", "destroyed"} =>
        ~tp.d.fd /\ ~tp.u.fd /\ ~tp.timer /\ (tp.phase = "destroyed" => tp.cx = 0)

\* An open session has an upstream that is open, or could not be bound.
tpServed == tp.phase = "open" /\ tpState(tp.d) = "Open" => tp.u.fd \/ tp.u.bind

TpSound ==
    /\ tp.crash \in {"no", "d"}
    /\ tp.crash = "no" =>
          tpConserved /\ tpNeverStuck /\ tpPausedForCause /\ tpAnswerWhole /\ tpNothingLeft /\ tpServed

\* readDisable: "ASSERT(state() == State::Open)".  A downstream that closes while
\* the upstream's buffer is above its mark: the last write to the upstream may
\* bring it below, and readDisableDownstream calls the closed connection.
TpDisablesOpen == tp.crash # "d"

\* A session does not outlive its upstream: violated when the upstream's source
\* address cannot be bound (a LocalClose nobody asked for).
TpServedAll == tp.phase = "open" /\ tpState(tp.d) = "Open" => tp.u.fd
=============================================================================
