------------------------------ MODULE RedisProxy ----------------------------
(***************************************************************************)
(* The Redis proxy in two parts: its protocol codec (Rc), then the command *)
(* splitter, the connection pool and the filter (Rp).                      *)
(***************************************************************************)

(***************************************************************************)
(* The Redis protocol codec (redis/codec_impl.cc): EncoderImpl and the     *)
(* state machine of DecoderImpl, with the stack of arrays it is inside.  A *)
(* token is a type character with its number, a byte of a string, or the   *)
(* line end of a string; a slice ends after any of them.  Integers have    *)
(* RcWidth bits where the code has 64.                                     *)
(***************************************************************************)
EXTENDS Integers, Sequences, SequencesExt, FiniteSets

CONSTANT RcWidth   \* bits of an integer

VARIABLE rc

RcHalf == 2 ^ (RcWidth - 1)
RcIntegers == -RcHalf..(RcHalf - 1)

rcValue(type, n, elems) == [type |-> type, n |-> n, elems |-> elems]
RcLeaves ==
    {rcValue("null", 0, <<>>)} \cup {rcValue(t, n, <<>>) : t \in {"bulk", "simple", "error"}, n \in 0..2}
    \cup {rcValue("integer", n, <<>>) : n \in RcIntegers}
RcFew == {rcValue("null", 0, <<>>), rcValue("bulk", 0, <<>>), rcValue("bulk", 1, <<>>), rcValue("integer", -RcHalf, <<>>)}
rcArrays(elements) == {rcValue("array", 0, <<>>)} \cup {rcValue("array", 0, s) : s \in TupleOf(elements, 1) \cup TupleOf(elements, 2)}
RcValues == RcLeaves \cup rcArrays(RcFew) \cup rcArrays(RcFew \cup rcArrays({rcValue("bulk", 1, <<>>)}))

\* The value of an int64_t computed as x, and of a uint64_t.
rcSigned(x) == ((x + RcHalf) % (2 * RcHalf)) - RcHalf
rcUnsigned(x) == x % (2 * RcHalf)

\* encodeInteger(): the digits of a negative number.
rcDigits(n) == IF n >= 0 THEN n ELSE rcUnsigned(rcUnsigned(rcSigned(rcSigned(n + 1) * (-1))) + 1)

\* Mutant: the smallest integer is not thought of.
rcNegate(digits) == IF digits >= RcHalf THEN 0 ELSE -digits

\* IntegerLF: a negative number from its digits.
rcNegative(digits) == rcSigned(rcSigned(rcSigned(rcUnsigned(digits - 1)) * (-1)) - 1)

rcToken(t, negative, n) == [t |-> t, negative |-> negative, n |-> n]
rcString(n) == [k \in 1..n |-> rcToken("byte", FALSE, 0)] \o <<rcToken("crlf", FALSE, 0)>>

\* EncoderImpl::encode()
rcEncode[v \in RcValues] ==
    CASE v.type = "array" -> <<rcToken("array", FALSE, Len(v.elems))>>
                             \o FlattenSeq([k \in DOMAIN v.elems |-> rcEncode[v.elems[k]]])
      [] v.type = "bulk" -> <<rcToken("bulk", FALSE, v.n)>> \o rcString(v.n)
      [] v.type \in {"simple", "error"} -> <<rcToken(v.type, FALSE, 0)>> \o rcString(v.n)
      [] v.type = "integer" -> <<rcToken("integer", v.n < 0, rcDigits(v.n))>>
      [] v.type = "null" -> <<rcToken("bulk", TRUE, 1)>>

----------------------------------------------------------------------------
\* DecoderImpl: state_, what is left of a bulk string (pending_integer_), the stack
\* (innermost first) with the length of each array, the values raised.
rcFirst(v, w) ==
    [sent |-> <<v, w>>, bytes |-> rcEncode[v] \o rcEncode[w], state |-> "ValueRootStart", left |-> 0,
     stack |-> <<>>, got |-> <<>>, parsed |-> 0]

RcInit == \E v \in RcValues, w \in RcFew : rc = rcFirst(v, w)

rcFresh == [value |-> rcValue("null", 0, <<>>), size |-> 0]
rcSetTop(p, value, size) == [p EXCEPT !.stack[1] = [value |-> value, size |-> size]]
rcTo(p, state) == [p EXCEPT !.state = state]

\* ValueStart to IntegerLF: a type character and the number after it.
rcStart(p, token) ==
    CASE token.t = "array" ->
           IF token.negative THEN rcTo(rcSetTop(p, rcValue("null", 0, <<>>), 0), "ValueComplete")
           ELSE IF token.n = 0 THEN rcTo(rcSetTop(p, rcValue("array", 0, <<>>), 0), "ValueComplete")
           ELSE LET q == rcSetTop(p, rcValue("array", 0, <<>>), token.n)
                IN  [q EXCEPT !.stack = <<rcFresh>> \o @, !.state = "ValueStart"]
      [] token.t = "integer" ->
           rcTo(rcSetTop(p, rcValue("integer", IF token.n = 0 \/ ~token.negative THEN token.n ELSE rcNegative(token.n), <<>>), 0),
                "ValueComplete")
      [] token.t = "bulk" ->
           IF token.negative THEN rcTo(rcSetTop(p, rcValue("null", 0, <<>>), 0), "ValueComplete")
           ELSE [rcSetTop(p, rcValue("bulk", 0, <<>>), 0) EXCEPT !.left = token.n,
                                                                 !.state = IF token.n = 0 THEN "CR" ELSE "BulkStringBody"]
      [] OTHER -> rcTo(rcSetTop(p, rcValue(token.t, 0, <<>>), 0), "SimpleString")

\* One token in each state.
rcParse(p, token) ==
    LET q == IF p.state = "ValueRootStart" THEN [p EXCEPT !.stack = <<rcFresh>>, !.state = "ValueStart"] ELSE p IN
    CASE q.state = "ValueStart" -> rcStart(q, token)
      [] q.state = "BulkStringBody" -> [q EXCEPT !.stack[1].value.n = @ + 1, !.left = @ - 1,
                                                 !.state = IF q.left = 1 THEN "CR" ELSE @]
      [] q.state = "CR" -> rcTo(q, "ValueComplete")
      [] q.state = "SimpleString" -> IF token.t = "crlf" THEN rcTo(q, "ValueComplete")
                                     ELSE [q EXCEPT !.stack[1].value.n = @ + 1]

\* ValueComplete: the value is raised, or its array goes on, or is complete too.
rcComplete(p) ==
    LET value == p.stack[1].value
        rest == Tail(p.stack)
        outer == Append(rest[1].value.elems, value)
        q == [p EXCEPT !.stack = [rest EXCEPT ![1].value.elems = outer]]
    IN  IF rest = <<>> THEN [p EXCEPT !.stack = <<>>, !.got = Append(@, value), !.state = "ValueRootStart"]
        ELSE IF Len(outer) < rest[1].size THEN [q EXCEPT !.stack = <<rcFresh>> \o @, !.state = "ValueStart"]
        ELSE q

\* Mutant: the loop ends with the bytes of the slice.
rcRunOnce(p) == IF p.state = "ValueComplete" /\ p.bytes # <<>> THEN rcComplete(p) ELSE p

\* The loop goes on without bytes while values are complete.
rcRun(p) ==
    LET run[n \in 0..3] == IF n = 0 THEN p ELSE LET q == run[n - 1] IN IF q.state = "ValueComplete" THEN rcComplete(q) ELSE q
    IN  run[3]

RcParse ==
    /\ rc.bytes # <<>>
    /\ LET p == IF rc.state = "ValueComplete" THEN rcComplete(rc) ELSE rc
       IN  rc' = rcRun([rcParse(p, Head(rc.bytes)) EXCEPT !.bytes = Tail(rc.bytes), !.parsed = @ + 1])

RcNext == RcParse

RcSpec == RcInit /\ [][RcNext]_rc

----------------------------------------------------------------------------
(***************************************************************************)
(* Properties.                                                             *)
(***************************************************************************)

\* Values come out as they went in, in order, whatever the nesting and the integer; and
\* a value is raised as soon as its last byte is there, for the peer may wait for the
\* answer before it sends another.
RcSound ==
    /\ IsPrefix(rc.got, rc.sent)
    /\ rc.parsed >= Len(rcEncode[rc.sent[1]]) => Len(rc.got) >= 1
    /\ rc.bytes = <<>> => rc.got = rc.sent

-----------------------------------------------------------------------------
(***************************************************************************)
(* The Redis proxy (redis/proxy_filter.cc, command_splitter_impl.cc,       *)
(* conn_pool_impl.cc): a downstream connection with pipelined commands,    *)
(* their split into requests of one key, and one pipelined upstream        *)
(* connection for each host.  A key's host (or none) is chosen where the   *)
(* code asks the load balancer.  A host answers in the order in which it   *)
(* was asked: wire is what it has still to answer.                         *)
(***************************************************************************)

CONSTANTS RpHosts,        \* upstream hosts
          RpMaxRequests   \* bound: commands on the downstream connection

VARIABLE rp

RpNoHost == "no host"
RpIds == 1..RpMaxRequests

\* simple: SimpleRequest and EvalRequest; mget; mset; sum: SplitKeysSumResultRequest;
\* invalid: refused by the splitter.
RpKinds == {"simple", "mget", "mset", "sum", "invalid"}
rpParts(kind) == IF kind = "simple" THEN 1..1 ELSE IF kind = "invalid" THEN {} ELSE 1..2

\* What an upstream answers: the type each command expects, null, an error, another type.
RpAnswers == {"right", "null", "error", "wrong"}

RpClient == [state |-> "none", pending |-> <<>>, wire |-> <<>>, timer |-> FALSE]
RpSplit == [kind |-> "none", handles |-> {}, left |-> 0, errors |-> 0, parts |-> <<>>]

\* pending: pending_requests_ of the filter; splits: SplitRequest of each command;
\* out: the responses written; clients: client_map_.
RpInit ==
    rp = [open |-> TRUE, used |-> 0, pending |-> <<>>, splits |-> [i \in RpIds |-> RpSplit], out |-> <<>>,
          clients |-> [h \in RpHosts |-> RpClient], asserts |-> TRUE]

rpAssert(p, a) == IF a THEN p ELSE [p EXCEPT !.asserts = FALSE]

----------------------------------------------------------------------------
\* The filter and the splitter.

\* ProxyFilter::onResponse(): out go the responses at the front.
rpFlush(p) ==
    LET ready == {n \in 0..Len(p.pending) : \A k \in 1..n : p.pending[k].response # <<>>}
        n == CHOOSE m \in ready : \A k \in ready : k <= m
    IN  [p EXCEPT !.pending = SubSeq(@, n + 1, Len(@)), !.out = @ \o SubSeq(p.pending, 1, n)]

rpOnResponse(p, id, response) ==
    LET q == rpAssert(p, p.pending # <<>> /\ p.splits[id].handles = {})
    IN  rpFlush([q EXCEPT !.pending = [k \in DOMAIN @ |-> IF @[k].id = id THEN [@[k] EXCEPT !.response = response] ELSE @[k]]])

\* What a child's answer counts as.
rpIsError(kind, value) ==
    IF kind = "mget" THEN value \in {"wrong", "error", "failure"} ELSE value # "right"

\* The answer to the whole command: mget answers part by part; mset and sum with one
\* value, or the number of errors.
rpWhole(split) ==
    CASE split.kind = "mget" -> split.parts
      [] split.kind = "simple" -> split.parts
      [] OTHER -> IF split.errors = 0 THEN <<"right">> ELSE <<"errors", split.errors>>

\* onChildResponse(), onResponse(), onFailure().
rpOnChild(p, id, part, value) ==
    LET s == p.splits[id]
        t == [s EXCEPT !.handles = @ \ {part}, !.left = @ - 1,
                       !.parts[part] = IF s.kind = "mget" /\ value = "wrong" THEN "error" ELSE value,
                       !.errors = IF rpIsError(s.kind, value) THEN @ + 1 ELSE @]
        q == rpAssert([p EXCEPT !.splits[id] = t], s.left > 0)
    IN  IF t.left = 0 THEN rpOnResponse(q, id, rpWhole(t)) ELSE q

----------------------------------------------------------------------------
\* The connection pool.

\* makeRequest(): a client for the host, connecting if it is new.
rpPoolRequest(p, id, part, host) ==
    LET c == p.clients[host]
        d == [c EXCEPT !.state = IF @ = "none" THEN "connecting" ELSE @,
                       !.pending = Append(@, [id |-> id, part |-> part, canceled |-> FALSE]),
                       !.wire = Append(@, <<id, part>>),
                       !.timer = @ \/ c.state = "none" \/ (c.state = "connected" /\ c.pending = <<>>)]
    IN  [p EXCEPT !.clients[host] = d, !.splits[id].handles = @ \cup {part}]

rpMakePart(p, id, part, host) ==
    IF host = RpNoHost THEN rpOnChild(p, id, part, "failure") ELSE rpPoolRequest(p, id, part, host)

\* onRespValue() of the filter, makeRequest() of the splitter and create().
RpRequest(kind, hosts) ==
    /\ rp.open /\ rp.used < RpMaxRequests
    /\ LET id == rp.used + 1
           split == [kind |-> kind, handles |-> {}, left |-> Cardinality(rpParts(kind)), errors |-> 0,
                     parts |-> [n \in rpParts(kind) |-> "none"]]
           p == [rp EXCEPT !.used = id, !.pending = Append(@, [id |-> id, response |-> <<>>]), !.splits[id] = split]
       IN  rp' = CASE kind = "invalid" -> rpOnResponse(p, id, <<"error">>)
                   [] kind = "simple" -> rpMakePart(p, id, 1, hosts[1])
                   [] OTHER -> rpMakePart(rpMakePart(p, id, 1, hosts[1]), id, 2, hosts[2])

\* ClientImpl::onRespValue(): the answer is taken for the first request's.  It has to be
\* the one the host answers.
RpAnswer(h, value) ==
    LET c == rp.clients[h]  r == Head(c.pending)  rest == Tail(c.pending) IN
    /\ c.state = "connected" /\ c.wire # <<>>
    /\ LET q == rpAssert(rp, c.pending # <<>> /\ <<r.id, r.part>> = Head(c.wire))
           p == IF r.canceled THEN q ELSE rpOnChild(q, r.id, r.part, value)
       IN  rp' = [p EXCEPT !.clients[h] = [@ EXCEPT !.pending = rest, !.wire = Tail(@), !.timer = rest # <<>>]]

\* onEvent(), a close: every request fails, in order; the client leaves the map.
rpFail(p, r) == IF r.canceled THEN p ELSE rpOnChild(p, r.id, r.part, "failure")
rpClose(p, h) ==
    LET pending == p.clients[h].pending
        after[n \in 0..Len(pending)] == IF n = 0 THEN p ELSE rpFail(after[n - 1], pending[n])
    IN  [after[Len(pending)] EXCEPT !.clients[h] = RpClient]

RpConnected(h) ==
    /\ rp.clients[h].state = "connecting"
    /\ rp' = rpAssert([rp EXCEPT !.clients[h] = [@ EXCEPT !.state = "connected", !.timer = TRUE]],
                      rp.clients[h].pending # <<>>)

\* The remote closes, answers what is no RESP, or the host leaves the cluster.
RpUpstreamClose(h) == rp.clients[h].state # "none" /\ rp' = rpClose(rp, h)

\* onConnectOrOpTimeout()
RpTimeout(h) == rp.clients[h].timer /\ rp' = rpClose(rp, h)

\* Mutant: a canceled request leaves the pipeline.
rpCancelRemoves(c, ids) == [c EXCEPT !.pending = SelectSeq(@, LAMBDA r : r.id \notin ids)]

\* PendingRequest::cancel(): the answer is dropped when it comes.
rpCancel(c, ids) ==
    [c EXCEPT !.pending = [k \in DOMAIN @ |-> IF @[k].id \in ids THEN [@[k] EXCEPT !.canceled = TRUE] ELSE @[k]]]

\* ProxyFilter::onEvent(), or a protocol error: what is pending is canceled.
RpDownstreamClose ==
    /\ rp.open
    /\ LET ids == {rp.pending[k].id : k \in DOMAIN rp.pending}
       IN  rp' = [rp EXCEPT !.open = FALSE, !.pending = <<>>,
                            !.splits = [i \in RpIds |-> IF i \in ids THEN [@[i] EXCEPT !.handles = {}] ELSE @[i]],
                            !.clients = [h \in RpHosts |-> rpCancel(@[h], ids)]]

RpNext ==
    \/ \E k \in RpKinds, hosts \in [1..2 -> RpHosts \cup {RpNoHost}] : RpRequest(k, hosts)
    \/ \E h \in RpHosts : RpConnected(h) \/ RpUpstreamClose(h) \/ RpTimeout(h) \/ \E v \in RpAnswers : RpAnswer(h, v)
    \/ RpDownstreamClose

RpSpec == RpInit /\ [][RpNext]_rp

----------------------------------------------------------------------------
(***************************************************************************)
(* Properties.                                                             *)
(***************************************************************************)

\* Responses are written in the order of the commands, each once.
RpInOrder == \A k \in DOMAIN rp.out : rp.out[k].id = k

\* A command still without a response waits for exactly the requests that its handles
\* say, each once in the pipeline of one client; none waits for nothing.
RpAccounted ==
    /\ \A i \in RpIds, part \in 1..2 :
         Cardinality({<<h, k>> \in RpHosts \X (1..(2 * RpMaxRequests)) :
                        /\ k <= Len(rp.clients[h].pending) /\ ~rp.clients[h].pending[k].canceled
                        /\ rp.clients[h].pending[k].id = i /\ rp.clients[h].pending[k].part = part})
         = IF part \in rp.splits[i].handles THEN 1 ELSE 0
    /\ \A k \in DOMAIN rp.pending : rp.pending[k].response = <<>> => rp.splits[rp.pending[k].id].handles # {}

\* A client with requests has a timer armed, so that they end; one without has none.
RpTimed == \A h \in RpHosts : LET c == rp.clients[h] IN c.state # "none" => (c.timer <=> c.state = "connecting" \/ c.pending # <<>>)

RpSound == RpInOrder /\ RpAccounted /\ RpTimed /\ rp.asserts
=============================================================================
