------------------------ MODULE MCRateLimitService ------------------------
(***************************************************************************)
(* Small instances of RateLimitService for TLC, and the property of its    *)
(* statistics, which needs sums.                                           *)
(***************************************************************************)
EXTENDS RateLimitService, FiniteSetsExt, TLC

CONSTANTS d1, d2, i1, i2

\* A request of the filter (one hit of one descriptor) and a larger one.
SmallRequests ==
    {[descs |-> <<d1>>, hits |-> 0], [descs |-> <<d1, d2>>, hits |-> 3]}

\* A reload may change the unit of d1, and whether d2 has a limit at all.
ThreePer2 == (d1 :> [rpu |-> 3, unit |-> 2]) @@ (d2 :> NoLimit)
ThreePer1 == (d1 :> [rpu |-> 3, unit |-> 1]) @@ (d2 :> [rpu |-> 4, unit |-> 2])
OnePer2 == (d1 :> [rpu |-> 1, unit |-> 2]) @@ (d2 :> NoLimit)
OneUnit == {OnePer2}
TwoUnits == {ThreePer2, ThreePer1}

\* The clocks agree, or that of i2 is ahead.
NoSkew == [i \in Instances |-> 0]
OneAhead == (i1 :> 0) @@ (i2 :> 1)

\* Calls are alike.
Symmetry == Permutations(Calls)

----------------------------------------------------------------------------
Increments(d) ==
    UNION {{<<c, i>> : i \in {j \in Limited(c) : req[c].descs[j] = d}} : c \in {e \in Calls : pc[e] # "new"}}

Above(a, b) == IF a > b THEN a - b ELSE 0

\* Ratelimit README.md:295-297: once no call is under way (and none failed),
\* total_hits is the number of hits, over_limit the number of those beyond the
\* limit of their counter, near_limit that of those beyond 80% of the limit but
\* not beyond it, even when one call's hits straddle a threshold.
StatsExact ==
    (\A c \in Calls : pc[c] \in {"new", "OK", "OVER_LIMIT"}) =>
    \A d \in Descriptors :
        LET incs == Increments(d)
            lives == {by[x[1]][x[2]] : x \in incs}
            total(b) == MapThenSumSet(LAMBDA x : HitsAddend(x[1]),
                            {x \in incs : by[x[1]][x[2]] = b})
            over(b) == Above(total(b), OverLimitThreshold(b[1], b[2]))
            near(b) == Above(total(b), NearLimitThreshold(b[1], b[2])) - over(b)
        IN  /\ totalHits[d] = MapThenSumSet(total, lives)
            /\ overLimit[d] = MapThenSumSet(over, lives)
            /\ nearLimit[d] = MapThenSumSet(near, lives)
=============================================================================
