---------------------------- MODULE FaultFilter ----------------------------
(* common/http/filter/fault_filter.cc: a request that matches is delayed,   *)
(* aborted, or delayed and then aborted.  Percentages, the delay and the    *)
(* status come from the runtime, whose snapshot may be another one when the *)
(* delay ends.  What the connection manager does with what the filter holds *)
(* back is ConnectionManager's and FilterChain's business: here it is kept  *)
(* until continueDecoding() and dropped once there is a reply.              *)
EXTENDS RuntimeLoader, Sequences, FiniteSets

CONSTANTS FfSnapshots,  \* snapshots the runtime may have
          FfConfigs,    \* configurations: percentages, delay, status, what they are restricted to
          FfMaxData     \* bound: pieces of body

ASSUME FfConstants == FfMaxData \in Nat

VARIABLE ff

\* FaultFilterConfig: "any" restricts nothing.
ffConfigured(c) == c.hasAbort \/ c.hasDelay

\* The headers and the route of a request.
FfRequests ==
    [cluster : BOOLEAN,             \* x-envoy-downstream-service-cluster is given
     node : {"none", "n", "m"},     \* x-envoy-downstream-service-node
     headers : BOOLEAN,             \* matchHeaders() of the configured headers
     route : {"none", "u", "v"}]    \* the cluster of the route, if there is a route entry

ffMatchesTargetUpstreamCluster(c, q) == c.upstream = "any" \/ q.route = c.upstream
ffMatchesDownstreamNodes(c, q) == c.nodes = {} \/ q.node \in c.nodes
ffMatches(c, q) ==
    ffMatchesTargetUpstreamCluster(c, q) /\ ffMatchesDownstreamNodes(c, q) /\ q.headers

\* isDelayEnabled() and isAbortEnabled(): a draw for the general key and one
\* for the cluster's own key, whose default is the configuration's.
ffEnabled(s, q, key, own, default, draw, ownDraw) ==
    rnFeatureEnabled(s, key, default, draw) \/ (q.cluster /\ rnFeatureEnabled(s, own, default, ownDraw))
ffIsDelayEnabled(s, c, q, draw, ownDraw) == ffEnabled(s, q, "delay", "own delay", c.delayPercent, draw, ownDraw)
ffIsAbortEnabled(s, c, q, draw, ownDraw) == ffEnabled(s, q, "abort", "own abort", c.abortPercent, draw, ownDraw)

\* Mutant: the cluster's own setting is looked up first.
ffSettingOwnFirst(s, q, key, own, default) == rnGetInteger(s, key, IF q.cluster THEN rnGetInteger(s, own, default) ELSE default)

\* delayDuration() and abortHttpStatus()
ffSetting(s, q, key, own, default) ==
    LET general == rnGetInteger(s, key, default)
    IN IF q.cluster THEN rnGetInteger(s, own, general) ELSE general
ffDelayDuration(s, c, q) == ffSetting(s, q, "duration", "own duration", c.duration)
ffAbortHttpStatus(s, c, q) == ffSetting(s, q, "status", "own status", c.status)

\* recordDelaysInjectedStats() and recordAbortsInjectedStats()
ffCount(counter, q) == [all |-> counter.all + 1, own |-> counter.own + (IF q.cluster THEN 1 ELSE 0)]

\* abortWithHTTPStatus(): the reply goes out before the counters are touched.
ffAbort(p, s) ==
    [p EXCEPT !.replies = Append(@, ffAbortHttpStatus(s, p.config, p.request)),
              !.aborts = ffCount(@, p.request), !.flags = @ \cup {"FaultInjected"},
              !.by = s]

\* continueDecoding(): what was held goes on, in order.
ffContinue(p) == [p EXCEPT !.passed = @ \o p.held, !.held = << >>]

ffFirst(c, q) ==
    [config |-> c, request |-> q, started |-> FALSE, timer |-> FALSE, destroyed |-> FALSE, fed |-> 0,
     held |-> << >>, passed |-> << >>, replies |-> << >>, flags |-> {}, by |-> RnEmpty,
     delays |-> [all |-> 0, own |-> 0], aborts |-> [all |-> 0, own |-> 0]]

FfInit == \E c \in {d \in FfConfigs : ffConfigured(d)}, q \in FfRequests : ff = ffFirst(c, q)

FfDraws == 0..(RnBuckets - 1)

\* decodeHeaders()
FfDecodeHeaders ==
    /\ ~ff.started /\ ~ff.destroyed
    /\ \E s \in FfSnapshots, d \in FfDraws, e \in FfDraws, a \in FfDraws, b \in FfDraws :
          LET p == [ff EXCEPT !.started = TRUE, !.held = <<0>>]
              delayed == ffIsDelayEnabled(s, p.config, p.request, d, e) /\ ffDelayDuration(s, p.config, p.request) > 0
          IN ff' = IF ~ffMatches(p.config, p.request) THEN ffContinue(p)
                   ELSE IF delayed
                        THEN [p EXCEPT !.timer = TRUE, !.delays = ffCount(@, p.request), !.flags = {"DelayInjected"}]
                   ELSE IF ffIsAbortEnabled(s, p.config, p.request, a, b) THEN ffAbort(p, s)
                   ELSE ffContinue(p)

\* Mutant: the headers are held and the body is not.
ffHoldsNothing(p) == FALSE

\* decodeData() and decodeTrailers(): held while the delay lasts.
ffHolds(p) == p.timer

\* A piece of the body or the trailers; the connection manager drops them once
\* the reply is complete.
FfDecodeData ==
    /\ ff.started /\ ~ff.destroyed /\ ff.fed < FfMaxData
    /\ LET p == [ff EXCEPT !.fed = @ + 1]
       IN ff' = IF p.replies # << >> THEN p
                ELSE IF ffHolds(p) THEN [p EXCEPT !.held = Append(@, p.fed)]
                ELSE [p EXCEPT !.passed = Append(@, p.fed)]

\* Mutant: the delayed request goes on whatever the draw.
ffPostDelayGoesOn(p, s, aborts) == ffContinue([p EXCEPT !.timer = FALSE])

\* postDelayInjection()
ffPostDelay(p, s, aborts) ==
    LET q == [p EXCEPT !.timer = FALSE] IN IF aborts THEN ffAbort(q, s) ELSE ffContinue(q)

FfPostDelayInjection ==
    /\ ff.timer
    /\ \E s \in FfSnapshots, a \in FfDraws, b \in FfDraws :
          ff' = ffPostDelay(ff, s, ffIsAbortEnabled(s, ff.config, ff.request, a, b))

\* Mutant: the timer is left to fire.
ffOnDestroyArmed(p) == [p EXCEPT !.destroyed = TRUE]

\* onDestroy(), at any time: the client has gone, or the response is complete.
ffOnDestroy(p) == [p EXCEPT !.timer = FALSE, !.destroyed = TRUE]
FfOnDestroy == ~ff.destroyed /\ ff' = ffOnDestroy(ff)

FfNext == FfDecodeHeaders \/ FfDecodeData \/ FfPostDelayInjection \/ FfOnDestroy

FfSpec == FfInit /\ [][FfNext]_ff

(***************************************************************************)
(* Properties                                                              *)
(***************************************************************************)
ffIs(p, flag) == flag \in p.flags

\* What a reply's status is to be: the cluster's own setting before the general
\* one, that before the configuration's.
ffExpectedStatus(p) ==
    LET keys == <<"own status", "status">>
        given == {i \in 1..2 : (i = 2 \/ p.request.cluster) /\ keys[i] \in DOMAIN p.by
                                /\ p.by[keys[i]] \in Nat}
    IN IF 1 \in given THEN p.by[keys[1]] ELSE IF 2 \in given THEN p.by[keys[2]] ELSE p.config.status

\* A request is answered here or goes on, never both and at most once; it is
\* held exactly while its delay lasts, and what goes on is all that came, in
\* order; a request that does not match is left alone; no timer outlives the
\* stream (the destructor asserts it); every counter is the number of requests
\* flagged; a request that can only be aborted is.
FfSound ==
    /\ Len(ff.replies) <= 1
    /\ ff.replies # << >> => ff.passed = << >>
    /\ ff.timer => ff.passed = << >> /\ ff.replies = << >> /\ Len(ff.held) = ff.fed + 1 /\ ~ff.destroyed
    /\ ff.passed # << >> => ff.held = << >> /\ ff.passed = [i \in 1..(ff.fed + 1) |-> i - 1]
    /\ ~ffMatches(ff.config, ff.request) => ff.flags = {} /\ ff.replies = << >>
    /\ ff.delays.all = (IF ffIs(ff, "DelayInjected") THEN 1 ELSE 0)
    /\ ff.aborts.all = (IF ffIs(ff, "FaultInjected") THEN 1 ELSE 0)
    /\ ff.aborts.all = Len(ff.replies)
    /\ ff.delays.own = (IF ff.request.cluster THEN ff.delays.all ELSE 0)
    /\ ff.aborts.own = (IF ff.request.cluster THEN ff.aborts.all ELSE 0)
    /\ ff.replies # << >> => ff.replies[1] = ffExpectedStatus(ff)
    /\ (\A s \in FfSnapshots, d \in FfDraws : ffIsAbortEnabled(s, ff.config, ff.request, d, d))
          /\ ffMatches(ff.config, ff.request) => ff.passed = << >>

\* The draws that abort a request are the share its percentage says: the
\* cluster's own in the runtime, or else the general one there, or else the
\* configured one.
FfPercentExact ==
    \A s \in FfSnapshots :
        LET percent == ffSetting(s, ff.request, "abort", "own abort", ff.config.abortPercent)
            draws == {w \in FfDraws \X FfDraws : ffIsAbortEnabled(s, ff.config, ff.request, w[1], w[2])}
        IN Cardinality(draws) = RnBuckets * rnMin(percent, RnBuckets)

\* A reply has a status.
FfStatusValid == \A i \in DOMAIN ff.replies : ff.replies[i] > 0
=============================================================================
