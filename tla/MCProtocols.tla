------------------------------ MODULE MCProtocols -----------------------------
(***************************************************************************)
(* Downstream connections, protocols and filters: components that TLC      *)
(* checks one at a time, each on its own small instance, in one run.       *)
(* `component` says which one a behaviour is of; the others stay in their  *)
(* initial states.                                                         *)
(***************************************************************************)
EXTENDS ConnectionManager, FilterChain, HttpCodecs, RedisProxy, MongoProxy, TcpConnections, Routes,
        Configuration, AccessLogFile, AsyncClient, RuntimeLoader, FaultFilter, FlowControl,
        DnsResolver

VARIABLE component

all == <<component, cm, fc, ho, hh, rp, rc, mg, bs, tp, li, ro, rd, ct, al, ac, mx, rn, ff, tl, jl,
         fw, dn, rq, zk, lr>>

TpRoutesMC == <<[ports |-> {1}, cluster |-> "one"]>>

\* What route tables are made of: hosts, domains, routes, paths, rate limit policies.
RoHostsMC == {<<"a">>, <<"b">>, <<"a", "b">>, <<"b", "b">>, <<"a", "a", "b">>, <<"b", "a", "b">>}
RoDomainsMC == {RoStar, [wild |-> TRUE, s |-> <<"b">>], [wild |-> TRUE, s |-> <<"a", "b">>],
    [wild |-> FALSE, s |-> <<"a", "b">>], [wild |-> FALSE, s |-> <<"b", "a", "b">>]}
RoRouteMC(kind, path, paths, case, headers, runtime, rewrite) ==
    [kind |-> kind, path |-> path, paths |-> paths, caseSensitive |-> case, headers |-> headers,
     runtime |-> runtime, rewrite |-> rewrite]
RoRoutesMC ==
    {RoRouteMC("prefix", <<"/", "x">>, {}, FALSE, {[name |-> "h", value |-> ""]}, "none", <<"/", "y">>),
     RoRouteMC("prefix", <<"/">>, {}, TRUE, {}, "key", <<>>),
     RoRouteMC("path", <<"/", "x">>, {}, TRUE, {[name |-> "h", value |-> "2"]}, "none", <<"/">>),
     RoRouteMC("path", <<"/", "x">>, {}, FALSE, {}, "none", <<"/", "y">>),
     RoRouteMC("regex", <<>>, {<<"/", "x">>, <<"/", "x", "y">>}, TRUE, {[name |-> "h2", value |-> "1"]}, "none", <<"/", "z">>)}
RoPathsMC == {<<"/">>, <<"/", "x">>, <<"/", "X">>, <<"/", "x", "y">>, <<"/", "x", "?", "x">>, <<"/", "X", "y", "?", "x">>}
RoActionMC(kind, value, header, headers, expect) ==
    [kind |-> kind, value |-> value, header |-> header, headers |-> headers, expect |-> expect]
RoPoliciesMC ==
    {<<>>,
     <<<<RoActionMC("generic_key", "k", "", {}, TRUE), RoActionMC("request_headers", "d", "h", {}, TRUE)>>,
       <<RoActionMC("remote_address", "", "", {}, TRUE)>>>>,
     <<<<RoActionMC("header_value_match", "m", "", {[name |-> "h", value |-> "1"]}, FALSE),
         RoActionMC("destination_cluster", "", "", {}, TRUE), RoActionMC("source_cluster", "", "", {}, TRUE)>>>>}

\* The type of each watch, the trees of the runtime, and what the fault filter may find.
MxTypesMC == ("w1" :> "c") @@ ("w2" :> "e") @@ ("w3" :> "e")

RnTreesMC ==
    {[base |-> ("a" :> 1) @@ ("b" :> 2), override |-> ("a" :> 0)],
     [base |-> ("a" :> -1) @@ ("b" :> 9), override |-> ("a" :> 3) @@ ("b" :> -2)],
     [base |-> ("a" :> -2) @@ ("b" :> -1), override |-> RnEmpty]}

FfSnapshotsMC ==
    {RnEmpty, ("own abort" :> 2), ("abort" :> 0) @@ ("delay" :> 2) @@ ("duration" :> 5),
     ("status" :> 7) @@ ("own status" :> 8) @@ ("own duration" :> 0)}

FfConfigsMC ==
    {[hasAbort |-> TRUE, hasDelay |-> FALSE, abortPercent |-> 1, status |-> 5, delayPercent |-> 0, duration |-> 0,
      upstream |-> "any", nodes |-> {}],
     [hasAbort |-> FALSE, hasDelay |-> TRUE, abortPercent |-> 0, status |-> 0, delayPercent |-> 1, duration |-> 1,
      upstream |-> "u", nodes |-> {}],
     [hasAbort |-> TRUE, hasDelay |-> TRUE, abortPercent |-> 3, status |-> 5, delayPercent |-> 3, duration |-> 1,
      upstream |-> "any", nodes |-> {"n"}]}

\* A string, an integer, and one an int64_t cannot hold.
JlScalarsMC == {[t |-> "string", v |-> "s"], [t |-> "integer", v |-> 1], [t |-> "integer", v |-> 9]}

Init ==
    /\ component \in {"connection manager", "filter chain", "http1 codec", "http2 codec",
                    "redis proxy", "resp codec", "mongo proxy", "bson codec", "tcp proxy",
                    "listening", "route table", "route discovery",
                    "configuration translation", "access log file", "async client",
                    "gRPC mux", "runtime loader", "fault filter", "TLS connection",
                    "JSON loader", "flow control", "DNS resolver", "request headers",
                    "zipkin", "load reports"}
    /\ CmInit /\ (component # "connection manager" => cm.idleTimeout)
    /\ FcInit
    /\ HoInit
    /\ HhInit
    /\ RpInit
    /\ IF component = "resp codec" THEN RcInit
       ELSE rc = rcFirst(rcValue("null", 0, <<>>), rcValue("null", 0, <<>>))
    /\ MgInit
    /\ IF component = "bson codec" THEN BsInit
       ELSE bs = bsFirst(bsMessage("GET_MORE", <<>>, 1), bsMessage("KILL_CURSORS", <<>>, 1))
    /\ TpInit
    /\ LiInit
    /\ RoInit
    /\ RdInit
    /\ CtInit
    /\ AlInit
    /\ AcInit
    /\ MxInit
    /\ IF component = "runtime loader" THEN RnInit
       ELSE rn = rnFirst(CHOOSE tree \in RnTrees : TRUE)
    /\ IF component = "fault filter" THEN FfInit
       ELSE ff = ffFirst(CHOOSE c \in FfConfigs : ffConfigured(c), [cluster |-> FALSE, node |-> "none", headers |-> FALSE, route |-> "none"])
    /\ TlInit /\ (component # "TLS connection" => ~tl.connecting)
    /\ IF component = "JSON loader" THEN JlInit
       ELSE jl = jlFirst([t |-> "string", v |-> "s"])
    /\ FwInit /\ (component # "flow control" => fw.down = "Http1" /\ fw.up = "Http1")
    /\ DnInit
    /\ IF component = "request headers" THEN RqInit
       ELSE rq = rqFirst("certificates", CHOOSE h \in rqClients : TRUE)
    /\ IF component = "zipkin" THEN ZkInit
       ELSE zk = zkFirst(ZkNothing, ZkNothing, 0)
    /\ IF component = "load reports" THEN LrInit
       ELSE lr = lrEstablishNewStream(lrFirst, "up")

ConnectionManagerStep == component = "connection manager" /\ CmNext /\ UNCHANGED <<component, fc,
    ho, hh, rp, rc, mg, bs, tp, li, ro, rd, ct, al, ac, mx, rn, ff, tl, jl, fw, dn, rq, zk, lr>>

FilterChainStep == component = "filter chain" /\ FcNext /\ UNCHANGED <<component, cm, ho, hh, rp,
    rc, mg, bs, tp, li, ro, rd, ct, al, ac, mx, rn, ff, tl, jl, fw, dn, rq, zk, lr>>

Http1CodecStep == component = "http1 codec" /\ HoNext /\ UNCHANGED <<component, cm, fc, hh, rp, rc,
    mg, bs, tp, li, ro, rd, ct, al, ac, mx, rn, ff, tl, jl, fw, dn, rq, zk, lr>>

Http2CodecStep == component = "http2 codec" /\ HhNext /\ UNCHANGED <<component, cm, fc, ho, rp, rc,
    mg, bs, tp, li, ro, rd, ct, al, ac, mx, rn, ff, tl, jl, fw, dn, rq, zk, lr>>

RedisProxyStep == component = "redis proxy" /\ RpNext /\ UNCHANGED <<component, cm, fc, ho, hh, rc,
    mg, bs, tp, li, ro, rd, ct, al, ac, mx, rn, ff, tl, jl, fw, dn, rq, zk, lr>>

RespCodecStep == component = "resp codec" /\ RcNext /\ UNCHANGED <<component, cm, fc, ho, hh, rp,
    mg, bs, tp, li, ro, rd, ct, al, ac, mx, rn, ff, tl, jl, fw, dn, rq, zk, lr>>

MongoProxyStep == component = "mongo proxy" /\ MgNext /\ UNCHANGED <<component, cm, fc, ho, hh, rp,
    rc, bs, tp, li, ro, rd, ct, al, ac, mx, rn, ff, tl, jl, fw, dn, rq, zk, lr>>

BsonCodecStep == component = "bson codec" /\ BsNext /\ UNCHANGED <<component, cm, fc, ho, hh, rp,
    rc, mg, tp, li, ro, rd, ct, al, ac, mx, rn, ff, tl, jl, fw, dn, rq, zk, lr>>

TcpProxyStep == component = "tcp proxy" /\ TpNext /\ UNCHANGED <<component, cm, fc, ho, hh, rp, rc,
    mg, bs, li, ro, rd, ct, al, ac, mx, rn, ff, tl, jl, fw, dn, rq, zk, lr>>

ListeningStep == component = "listening" /\ LiNext /\ UNCHANGED <<component, cm, fc, ho, hh, rp, rc,
    mg, bs, tp, ro, rd, ct, al, ac, mx, rn, ff, tl, jl, fw, dn, rq, zk, lr>>

RouteTableStep == component = "route table" /\ RoNext /\ UNCHANGED <<component, cm, fc, ho, hh, rp,
    rc, mg, bs, tp, li, rd, ct, al, ac, mx, rn, ff, tl, jl, fw, dn, rq, zk, lr>>

RouteDiscoveryStep == component = "route discovery" /\ RdNext /\ UNCHANGED <<component, cm, fc, ho,
    hh, rp, rc, mg, bs, tp, li, ro, ct, al, ac, mx, rn, ff, tl, jl, fw, dn, rq, zk, lr>>

ConfigTranslationStep == component = "configuration translation" /\ CtNext /\ UNCHANGED <<component,
    cm, fc, ho, hh, rp, rc, mg, bs, tp, li, ro, rd, al, ac, mx, rn, ff, tl, jl, fw, dn, rq, zk, lr>>

AccessLogFileStep == component = "access log file" /\ AlNext /\ UNCHANGED <<component, cm, fc, ho,
    hh, rp, rc, mg, bs, tp, li, ro, rd, ct, ac, mx, rn, ff, tl, jl, fw, dn, rq, zk, lr>>

AsyncClientStep == component = "async client" /\ AcNext /\ UNCHANGED <<component, cm, fc, ho, hh,
    rp, rc, mg, bs, tp, li, ro, rd, ct, al, mx, rn, ff, tl, jl, fw, dn, rq, zk, lr>>

GrpcMuxStep == component = "gRPC mux" /\ MxNext /\ UNCHANGED <<component, cm, fc, ho, hh, rp, rc,
    mg, bs, tp, li, ro, rd, ct, al, ac, rn, ff, tl, jl, fw, dn, rq, zk, lr>>

RuntimeLoaderStep == component = "runtime loader" /\ RnNext /\ UNCHANGED <<component, cm, fc, ho,
    hh, rp, rc, mg, bs, tp, li, ro, rd, ct, al, ac, mx, ff, tl, jl, fw, dn, rq, zk, lr>>

FaultFilterStep == component = "fault filter" /\ FfNext /\ UNCHANGED <<component, cm, fc, ho, hh,
    rp, rc, mg, bs, tp, li, ro, rd, ct, al, ac, mx, rn, tl, jl, fw, dn, rq, zk, lr>>

TlsConnectionStep == component = "TLS connection" /\ TlNext /\ UNCHANGED <<component, cm, fc, ho,
    hh, rp, rc, mg, bs, tp, li, ro, rd, ct, al, ac, mx, rn, ff, jl, fw, dn, rq, zk, lr>>

JsonLoaderStep == component = "JSON loader" /\ JlNext /\ UNCHANGED <<component, cm, fc, ho, hh, rp,
    rc, mg, bs, tp, li, ro, rd, ct, al, ac, mx, rn, ff, tl, fw, dn, rq, zk, lr>>

FlowControlStep == component = "flow control" /\ FwNext /\ UNCHANGED <<component, cm, fc, ho, hh,
    rp, rc, mg, bs, tp, li, ro, rd, ct, al, ac, mx, rn, ff, tl, jl, dn, rq, zk, lr>>

DnsResolverStep == component = "DNS resolver" /\ DnNext /\ UNCHANGED <<component, cm, fc, ho, hh,
    rp, rc, mg, bs, tp, li, ro, rd, ct, al, ac, mx, rn, ff, tl, jl, fw, rq, zk, lr>>

RequestHeadersStep == component = "request headers" /\ RqNext /\ UNCHANGED <<component, cm, fc, ho,
    hh, rp, rc, mg, bs, tp, li, ro, rd, ct, al, ac, mx, rn, ff, tl, jl, fw, dn, zk, lr>>

ZipkinTracerStep == component = "zipkin" /\ ZkNext /\ UNCHANGED <<component, cm, fc, ho, hh, rp, rc,
    mg, bs, tp, li, ro, rd, ct, al, ac, mx, rn, ff, tl, jl, fw, dn, rq, lr>>

LoadReportsStep == component = "load reports" /\ LrNext /\ UNCHANGED <<component, cm, fc, ho, hh,
    rp, rc, mg, bs, tp, li, ro, rd, ct, al, ac, mx, rn, ff, tl, jl, fw, dn, rq, zk>>

Next == ConnectionManagerStep \/ FilterChainStep \/ Http1CodecStep \/ Http2CodecStep \/ RedisProxyStep \/ RespCodecStep \/ MongoProxyStep \/ BsonCodecStep \/ TcpProxyStep \/ ListeningStep \/ RouteTableStep \/ RouteDiscoveryStep \/ ConfigTranslationStep \/ AccessLogFileStep \/ AsyncClientStep \/ GrpcMuxStep \/ RuntimeLoaderStep \/ FaultFilterStep \/ TlsConnectionStep \/ JsonLoaderStep \/ FlowControlStep \/ DnsResolverStep \/ RequestHeadersStep \/ ZipkinTracerStep \/ LoadReportsStep

Spec == Init /\ [][Next]_all



=============================================================================
