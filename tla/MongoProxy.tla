------------------------------ MODULE MongoProxy ----------------------------
(***************************************************************************)
(* The Mongo proxy in two parts: its wire codec (Bs), then the filter      *)
(* (Mg).                                                                   *)
(***************************************************************************)

(***************************************************************************)
(* The Mongo wire codec (mongo/bson_impl.cc, mongo/codec_impl.cc).  Every  *)
(* length in it is computed twice, once by byteSize() and the encoders'    *)
(* total_size, once by what is written; the decoder trusts the first to    *)
(* find the end of documents and messages.  Bytes are items of a kind and  *)
(* a size; values and keys are left out, strings have a length.            *)
(***************************************************************************)
EXTENDS Integers, Sequences, SequencesExt, Functions, FiniteSets

VARIABLE bs

bsItem(t, size, v) == [t |-> t, size |-> size, v |-> v, type |-> ""]
bsType(type) == [t |-> "type", size |-> 1, v |-> 0, type |-> type]
bsInt32(v) == bsItem("int32", 4, v)
bsInt64 == bsItem("fixed", 8, 0)
bsByte(v) == bsItem("byte", 1, v)
bsCString(n) == bsItem("cstring", n + 1, 0)
bsLength(data) == FoldFunction(LAMBDA item, sum : item.size + sum, 0, data)

\* The types of one size.
BsFixed == [DOUBLE |-> 8, DATETIME |-> 8, TIMESTAMP |-> 8, INT64 |-> 8, INT32 |-> 4,
            OBJECT_ID |-> 12, BOOLEAN |-> 1, NULL_VALUE |-> 0]
bsField(type, n, doc) == [type |-> type, n |-> n, doc |-> doc]
BsScalars == {bsField(t, 0, <<>>) : t \in DOMAIN BsFixed} \cup {bsField(t, n, <<>>) : t \in {"STRING", "BINARY", "REGEX"}, n \in 0..1}
BsFlat == {<<>>} \cup {<<f>> : f \in BsScalars}
BsNested == {<<bsField(t, 0, d)>> : t \in {"DOCUMENT", "ARRAY"}, d \in BsFlat}
            \cup {<<bsField("DOCUMENT", 0, d), bsField("BINARY", 1, <<>>)>> : d \in BsFlat}
BsDocuments == BsFlat \cup BsNested

\* Mutant: a binary's subtype is not counted.
bsFieldSizeShort(f, inner) ==
    2 + 1 + (CASE f.type \in DOMAIN BsFixed -> BsFixed[f.type]
               [] f.type = "STRING" -> 4 + f.n + 1
               [] f.type = "BINARY" -> 4 + f.n
               [] f.type = "REGEX" -> 2 * f.n + 2
               [] OTHER -> inner)

\* FieldImpl::byteSize(); inner: the size of a document in it.  Keys are one byte.
bsFieldSize(f, inner) ==
    1 + 1 + 1 + (CASE f.type \in DOMAIN BsFixed -> BsFixed[f.type]
                   [] f.type = "STRING" -> 4 + f.n + 1
                   [] f.type = "BINARY" -> 5 + f.n
                   [] f.type = "REGEX" -> 2 * f.n + 2
                   [] OTHER -> inner)

\* DocumentImpl::byteSize()
bsByteSize[d \in BsDocuments] ==
    FoldFunction(LAMBDA f, sum : bsFieldSize(f, IF f.type \in {"DOCUMENT", "ARRAY"} THEN bsByteSize[f.doc] ELSE 0) + sum, 5, d)

\* FieldImpl::encode(), the value; DocumentImpl::encode()
bsEncodeValue(f, inner) ==
    CASE f.type \in DOMAIN BsFixed -> IF BsFixed[f.type] = 0 THEN <<>>
                                      ELSE IF f.type = "INT32" THEN <<bsInt32(0)>>
                                      ELSE <<bsItem("fixed", BsFixed[f.type], 0)>>
      [] f.type = "STRING" -> <<bsInt32(f.n + 1), bsItem("bytes", f.n + 1, 0)>>
      [] f.type = "BINARY" -> <<bsInt32(f.n), bsByte(0)>> \o IF f.n = 0 THEN <<>> ELSE <<bsItem("bytes", f.n, 0)>>
      [] f.type = "REGEX" -> <<bsCString(f.n), bsCString(f.n)>>
      [] OTHER -> inner
bsEncode[d \in BsDocuments] ==
    <<bsInt32(bsByteSize[d])>>
    \o FlattenSeq([k \in DOMAIN d |-> <<bsType(d[k].type), bsCString(1)>>
                                      \o bsEncodeValue(d[k], IF d[k].type \in {"DOCUMENT", "ARRAY"} THEN bsEncode[d[k].doc] ELSE <<>>)])
    \o <<bsByte(0)>>

----------------------------------------------------------------------------
\* The decoder: a result is what was read, what is left of the data, and whether it
\* was all as expected.
bsRead(data, t, size) == data # <<>> /\ Head(data).t = t /\ Head(data).size = size
bsResult(value, data, ok) == [value |-> value, data |-> data, ok |-> ok]

\* The reads of DocumentImpl::fromBuffer() for one field but documents.
bsReadValue(type, data) ==
    CASE type \in DOMAIN BsFixed ->
           IF BsFixed[type] = 0 THEN bsResult(bsField(type, 0, <<>>), data, TRUE)
           ELSE bsResult(bsField(type, 0, <<>>), Tail(data), bsRead(data, IF type = "INT32" THEN "int32" ELSE "fixed", BsFixed[type]))
      [] type = "STRING" ->
           bsResult(bsField(type, data[1].v - 1, <<>>), SubSeq(data, 3, Len(data)), bsRead(Tail(data), "bytes", data[1].v))
      [] type = "BINARY" ->
           IF data[1].v = 0 THEN bsResult(bsField(type, 0, <<>>), SubSeq(data, 3, Len(data)), data[2].t = "byte")
           ELSE bsResult(bsField(type, data[1].v, <<>>), SubSeq(data, 4, Len(data)), bsRead(SubSeq(data, 3, Len(data)), "bytes", data[1].v))
      [] type = "REGEX" -> bsResult(bsField(type, data[1].size - 1, <<>>), SubSeq(data, 3, Len(data)), data[2].t = "cstring")

RECURSIVE bsFields(_, _, _)

\* A field that was read joins the ones before it, and reading goes on.
bsFieldRead(f, outer, fields) ==
    IF f.ok THEN bsFields(f.data, outer, Append(fields, f.value)) ELSE bsResult(fields, <<>>, FALSE)
bsNestedRead(type, d) == bsResult(bsField(type, 0, d.value), d.data, d.ok)

\* fromBuffer(): the fields until one byte of the document remains; outer: the bytes
\* after the document.
bsFields(data, outer, fields) ==
    LET remaining == bsLength(data) - outer
        type == data[1].type
        value == SubSeq(data, 3, Len(data))
    IN  IF remaining = 1 THEN bsResult(fields, Tail(data), bsRead(data, "byte", 1))
        ELSE IF remaining < 1 \/ data[1].t # "type" \/ data[2].t # "cstring" THEN bsResult(fields, <<>>, FALSE)
        ELSE bsFieldRead(IF type \in {"DOCUMENT", "ARRAY"}
                         THEN bsNestedRead(type, bsFields(Tail(value), bsLength(value) - value[1].v, <<>>))
                         ELSE bsReadValue(type, value), outer, fields)

\* DocumentImpl::create()
bsDocument(data) ==
    IF data = <<>> \/ Head(data).t # "int32" \/ Head(data).v > bsLength(data) THEN bsResult(<<>>, <<>>, FALSE)
    ELSE bsFields(Tail(data), bsLength(data) - Head(data).v, <<>>)

RECURSIVE bsDocuments(_, _, _, _)

\* Documents: as many as said, or (-1) until the message's end.
bsDocumentRead(d, outer, n, docs) ==
    IF d.ok THEN bsDocuments(d.data, outer, IF n < 0 THEN n ELSE n - 1, Append(docs, d.value)) ELSE bsResult(docs, <<>>, FALSE)
bsDocuments(data, outer, n, docs) ==
    IF n = 0 \/ (n < 0 /\ bsLength(data) - outer <= 0) THEN bsResult(docs, data, TRUE)
    ELSE bsDocumentRead(bsDocument(data), outer, n, docs)

----------------------------------------------------------------------------
\* Messages: an operation, its documents (a query's selector is the second), a number
\* of cursors.
bsMessage(op, docs, n) == [op |-> op, docs |-> docs, n |-> n]
BsSmall == {<<>>, <<bsField("BINARY", 1, <<>>)>>}
BsMessages ==
    {bsMessage("GET_MORE", <<>>, 1), bsMessage("REPLY", <<>>, 0)}
    \cup {bsMessage("KILL_CURSORS", <<>>, n) : n \in 1..2}
    \cup {bsMessage(op, <<d>>, 0) : op \in {"QUERY", "INSERT", "REPLY"}, d \in BsDocuments}
    \cup {bsMessage(op, <<d, e>>, 0) : op \in {"QUERY", "INSERT", "REPLY"}, d \in BsSmall, e \in BsSmall}

\* The fields before the documents, after the header; collection names are one byte.
bsFixedPart(m) ==
    CASE m.op = "GET_MORE" -> <<bsInt32(0), bsCString(1), bsInt32(0), bsInt64>>
      [] m.op = "INSERT" -> <<bsInt32(0), bsCString(1)>>
      [] m.op = "KILL_CURSORS" -> <<bsInt32(0), bsInt32(m.n)>> \o [k \in 1..m.n |-> bsInt64]
      [] m.op = "QUERY" -> <<bsInt32(0), bsCString(1), bsInt32(0), bsInt32(0)>>
      [] m.op = "REPLY" -> <<bsInt32(0), bsInt64, bsInt32(0), bsInt32(Len(m.docs))>>

\* total_size of each encoder
bsTotalSize(m) ==
    LET docs == FoldFunction(LAMBDA d, sum : bsByteSize[d] + sum, 0, m.docs)
    IN  CASE m.op = "GET_MORE" -> 16 + 16 + 1 + 1
          [] m.op = "INSERT" -> 16 + 4 + 1 + 1 + docs
          [] m.op = "KILL_CURSORS" -> 16 + 8 + m.n * 8
          [] m.op = "QUERY" -> 16 + 12 + 1 + 1 + docs
          [] m.op = "REPLY" -> 16 + 20 + docs

\* encodeCommonHeader() and the rest of the encoder; the op code is a type.
bsEncodeMessage(m) ==
    <<bsInt32(bsTotalSize(m)), bsInt32(0), bsInt32(0), [bsType(m.op) EXCEPT !.size = 4]>>
    \o bsFixedPart(m) \o FlattenSeq([k \in DOMAIN m.docs |-> bsEncode[m.docs[k]]])

\* fromBuffer() of each message, from its fixed part on; length: message_length.  A
\* query has a second document if there are bytes for it.
bsMessageOf(op, d) == bsResult(bsMessage(op, d.value, 0), d.data, d.ok)
bsSecond(q, outer) == IF q.ok /\ bsLength(q.data) - outer > 0 THEN bsDocuments(q.data, outer, 1, q.value) ELSE q
bsDecodeMessage(op, length, data) ==
    LET outer == bsLength(data) - length
        after(n) == SubSeq(data, n + 1, Len(data))
        cursors == data[2].v
    IN  CASE op = "GET_MORE" -> bsResult(bsMessage(op, <<>>, 1), after(4), bsRead(after(3), "fixed", 8))
          [] op = "KILL_CURSORS" -> bsResult(bsMessage(op, <<>>, cursors), after(2 + cursors), bsRead(after(1 + cursors), "fixed", 8))
          [] op = "QUERY" -> bsMessageOf(op, bsSecond(bsDocuments(after(4), outer, 1, <<>>), outer))
          [] op = "INSERT" -> bsMessageOf(op, bsDocuments(after(2), outer, -1, <<>>))
          [] op = "REPLY" -> bsMessageOf(op, bsDocuments(after(4), outer, data[4].v, <<>>))

bsFirst(m, n) ==
    [sent |-> <<m, n>>, wire |-> bsEncodeMessage(m) \o bsEncodeMessage(n), buffer |-> <<>>, got |-> <<>>, ok |-> TRUE]

BsInit ==
    \E m \in BsMessages, n \in {bsMessage("KILL_CURSORS", <<>>, 1), bsMessage("QUERY", <<<<>>, <<>>>>, 0)} :
        bs = bsFirst(m, n)

\* DecoderImpl::onData(): what is complete is decoded.
bsDecoded(p, r) == [p EXCEPT !.buffer = r.data, !.got = Append(@, r.value), !.ok = @ /\ r.ok]
bsDecode(p) ==
    IF p.buffer = <<>> \/ p.buffer[1].v > bsLength(p.buffer) THEN p
    ELSE bsDecoded(p, bsDecodeMessage(p.buffer[4].type, p.buffer[1].v - 16, SubSeq(p.buffer, 5, Len(p.buffer))))

BsData ==
    /\ bs.wire # <<>> /\ bs.ok
    /\ bs' = bsDecode([bs EXCEPT !.wire = Tail(@), !.buffer = Append(@, Head(bs.wire))])

BsNext == BsData

BsSpec == BsInit /\ [][BsNext]_bs

----------------------------------------------------------------------------
(***************************************************************************)
(* Properties.                                                             *)
(***************************************************************************)

\* Messages come out as they went in, each as soon as its last byte is there and with
\* none of the next one's bytes; nothing well-formed is refused.
BsSound ==
    /\ bs.ok /\ IsPrefix(bs.got, bs.sent)
    /\ bsLength(bs.wire) <= bsLength(bsEncodeMessage(bs.sent[2])) => Len(bs.got) >= 1
    /\ bs.wire = <<>> => bs.got = bs.sent /\ bs.buffer = <<>>

-----------------------------------------------------------------------------
(***************************************************************************)
(* The Mongo filter (mongo/proxy.cc) between a connection and the next     *)
(* network filter (network/filter_manager_impl.cc): it copies and decodes  *)
(* what passes, counts it, may delay it, and closes the connection when    *)
(* the server drains.  Data is whole messages.                             *)
(***************************************************************************)

CONSTANT MgMaxMessages   \* bound: messages of the client

VARIABLE mg

\* A query, which a reply answers, another operation, and bytes that are no message.
MgKinds == {"query", "other", "garbage"}
MgIds == 1..MgMaxMessages

\* unread: the connection's read buffer; taken: what the next filter got; active:
\* active_query_list_; counted: how often each message was decoded; late: data came
\* while a delay held other data.
MgInit ==
    mg = [used |-> 0, kind |-> [i \in MgIds |-> "none"], unread |-> <<>>, taken |-> <<>>, active |-> <<>>,
          counted |-> [i \in MgIds |-> 0], replied |-> {}, sniffing |-> TRUE, delay |-> FALSE, drainClose |-> FALSE,
          closed |-> FALSE, late |-> FALSE]

\* decodeQuery(), decodeInsert()...; what does not decode ends the sniffing.
mgDecode(p, id) ==
    IF ~p.sniffing THEN p
    ELSE IF p.kind[id] = "garbage" THEN [p EXCEPT !.sniffing = FALSE]
    ELSE [p EXCEPT !.counted[id] = @ + 1, !.active = IF p.kind[id] = "query" THEN Append(@, id) ELSE @]

\* doDecode() of all that is in the buffer.
mgDoDecode(p, data) ==
    LET after[n \in 0..Len(data)] == IF n = 0 THEN p ELSE mgDecode(after[n - 1], data[n]) IN after[Len(data)]

\* tryInjectDelay(): delays, if one of the messages that were decoded chose one.
mgDelays(p, q, delays) == p.delay \/ (delays /\ q.counted # p.counted)

\* The filters after this one take all that is in the read buffer.
mgNextFilter(p) == [p EXCEPT !.taken = @ \o p.unread, !.unread = <<>>]

\* ConnectionImpl::onRead() and FilterManagerImpl::onContinueReading(nullptr): the first
\* filter is given the whole read buffer, what it held back before as well.
MgData(kind, delays) ==
    /\ ~mg.closed /\ mg.used < MgMaxMessages
    /\ LET id == mg.used + 1
           p == [mg EXCEPT !.used = id, !.kind[id] = kind, !.unread = Append(@, id), !.late = @ \/ mg.unread # <<>>]
           q == mgDoDecode(p, p.unread)
           r == [q EXCEPT !.delay = mgDelays(p, q, delays)]
       IN  mg' = IF r.delay THEN r ELSE mgNextFilter(r)

\* Mutant: the end of the delay does not resume reading.
mgResumeNot(p) == p

\* continueReading(): from the filter after this one.
mgResume(p) == mgNextFilter(p)

\* delayInjectionTimerCallback()
MgDelayTimer == mg.delay /\ mg' = mgResume([mg EXCEPT !.delay = FALSE])

\* decodeReply(), on the way back: the first query of that id is done.
MgReply(id, draining) ==
    /\ ~mg.closed /\ mg.kind[id] = "query" /\ id \notin mg.replied /\ \E k \in DOMAIN mg.taken : mg.taken[k] = id
    /\ LET p == [mg EXCEPT !.replied = @ \cup {id}, !.active = ReplaceFirstSubSeq(<<>>, <<id>>, @)]
           q == [mg EXCEPT !.replied = @ \cup {id}]
           done == IF mg.sniffing THEN p ELSE q
       IN  mg' = [done EXCEPT !.drainClose = @ \/ (mg.sniffing /\ done.active = <<>> /\ draining)]

\* onEvent(), a close: no timer stays.
mgClose(p) == [p EXCEPT !.closed = TRUE, !.delay = FALSE, !.drainClose = FALSE]

MgDrainClose == mg.drainClose /\ mg' = mgClose(mg)
MgClose == ~mg.closed /\ mg' = mgClose(mg)

MgNext ==
    \/ \E k \in MgKinds, d \in BOOLEAN : MgData(k, d)
    \/ \E i \in MgIds, d \in BOOLEAN : MgReply(i, d)
    \/ MgDelayTimer \/ MgDrainClose \/ MgClose

MgSpec == MgInit /\ [][MgNext]_mg

----------------------------------------------------------------------------
(***************************************************************************)
(* Properties.                                                             *)
(***************************************************************************)

\* The filter is transparent: the next one gets every message, once and in order, and
\* waits for one only while a delay runs.
MgTransparent ==
    /\ \A k \in DOMAIN mg.taken : mg.taken[k] = k
    /\ ~mg.closed => (mg.unread # <<>> => mg.delay) /\ Len(mg.taken) + Len(mg.unread) = mg.used
    /\ mg.closed => ~mg.delay /\ ~mg.drainClose

\* While the filter sniffs, its active queries are exactly the unanswered ones (the
\* gauge op_query_active), unless data came on top of delayed data.
MgActiveExact ==
    mg.sniffing /\ ~mg.late =>
      /\ Cardinality({mg.active[k] : k \in DOMAIN mg.active}) = Len(mg.active)
      /\ {mg.active[k] : k \in DOMAIN mg.active} = {i \in MgIds : mg.kind[i] = "query"} \ mg.replied

MgSound == MgTransparent /\ MgActiveExact

\* Every message is decoded once at most.  The code departs from it: what arrives while
\* a delay holds data back makes the filter decode the held data again, and a query
\* counted twice stays active for ever.
MgCountedOnce == \A i \in MgIds : mg.counted[i] <= 1
=============================================================================
