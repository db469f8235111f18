-------------------------- MODULE RateLimitService --------------------------
(***************************************************************************)
(* The rate limit service (ratelimit/ratelimit/src: service/ratelimit.go   *)
(* and redis/cache_impl.go): several instances answer ShouldRateLimit      *)
(* calls concurrently and share one Redis, where a counter for every       *)
(* descriptor and window is incremented with INCRBY and given a lifetime   *)
(* with EXPIRE, two separate commands of one pipeline.                     *)
(*                                                                         *)
(* A call is one goroutine and is used once, so what it read and was told  *)
(* stays on record and a window's grants can be counted.  A descriptor     *)
(* (with its domain) is an opaque value: which limit it has is the         *)
(* business of config/config_impl.go.  An instance may read its clock      *)
(* ahead of the others' by Skew seconds, and Redis may execute a command   *)
(* up to MaxDelay seconds after the call looked at the clock.              *)
(***************************************************************************)
EXTENDS Integers, FiniteSets, Sequences

CONSTANTS
    Calls,        \* the calls that may be made
    Instances,    \* the processes that run the service
    Descriptors,  \* the descriptors of interest
    Requests,     \* the requests: [descs: Seq(Descriptors), hits: Nat]
    Configs,      \* the configurations that can be loaded: descriptor -> limit
    NoLimit,      \* GetLimit's nil
    NoConfig,     \* no configuration has been loaded yet
    Skew,         \* per instance: how far its clock is ahead
    MaxJitter,    \* expirationJitterMaxSeconds
    UintRange,    \* 2^32: the counters are cut to uint32
    MaxTime,      \* bound: the last second
    MaxDelay,     \* bound: seconds between UnixNow() and the INCRBY
    MaxCount      \* bound: no counter exceeds this

Limits == [rpu: Nat, unit: Nat \ {0}]  \* requests_per_unit, unitToDivider(unit)

ASSUME ConstantsAssumption ==
    /\ Requests \subseteq [descs: Seq(Descriptors), hits: Nat]
    /\ Configs \subseteq [Descriptors -> Limits \cup {NoLimit}]
    /\ NoLimit \notin Limits /\ NoConfig \notin Configs
    /\ Instances # {} /\ Skew \in [Instances -> Nat]
    /\ MaxJitter \in Nat /\ MaxTime \in Nat /\ MaxDelay \in Nat /\ MaxCount \in Nat
    /\ UintRange \in Nat \ {0}

VARIABLES
    time,      \* seconds of real time, as Redis sees it
    config,    \* per instance: service.config
    redis,     \* the live counters: key -> [count, expireAt, by]
    pc,        \* per call: where it is, or how it ended
    inst,      \* per call: the instance that serves it
    req,       \* per call: the request
    limits,    \* per call: limitsToCheck
    now,       \* per call: what UnixNow() returned
    readAt,    \* per call: the real time of that
    val,       \* per call and descriptor: the reply to INCRBY, 0 before it is executed
    by,        \* per call and descriptor: which increment created that counter
    incrAt,    \* per call and descriptor: the time at which INCRBY was executed
    expired,   \* per call and descriptor: EXPIRE has been executed
    next,      \* per call: the descriptor whose replies are read next
    totalHits, overLimit, nearLimit  \* per descriptor: the statistics of all instances

clock == <<time, config>>
request == <<inst, req, limits, now, readAt>>
replies == <<val, by, incrAt, expired>>
stats == <<totalHits, overLimit, nearLimit>>
vars == <<clock, redis, pc, request, replies, next, stats>>

NoExpiry == -1
NoHits == [d \in Descriptors |-> 0]

----------------------------------------------------------------------------
\* What a call knows.

Indices(c) == DOMAIN req[c].descs
Limited(c) == {i \in Indices(c) : limits[c][i] # NoLimit}

\* hitsAddend: 0 in the request stands for 1.
HitsAddend(c) == IF req[c].hits > 1 THEN req[c].hits ELSE 1

\* The start of the window that t falls into.
Window(t, unit) == (t \div unit) * unit

\* generateCacheKey: the descriptor and the start of the window (not the unit).
CacheKey(c, i) == <<req[c].descs[i], Window(now[c], limits[c][i].unit)>>

\* uint32 arithmetic of DoLimit.
Uint(n) == n % UintRange
LimitAfterIncrease(c, i) == Uint(val[c][i])
LimitBeforeIncrease(c, i) == Uint(LimitAfterIncrease(c, i) - HitsAddend(c))

OverLimitThreshold(c, i) == limits[c][i].rpu

\* NearLimitRatio is 0.8; the product is rounded down.
NearLimitThreshold(c, i) == (OverLimitThreshold(c, i) * 8) \div 10

\* Mutant: the count before the increase is compared.
IsOverLimitBefore(c, i) == LimitBeforeIncrease(c, i) > OverLimitThreshold(c, i)

IsOverLimit(c, i) == LimitAfterIncrease(c, i) > OverLimitThreshold(c, i)

Larger(a, b) == IF a > b THEN a ELSE b

\* What one descriptor of a call adds to OverLimit.
OverLimitHits(c, i) ==
    IF ~IsOverLimit(c, i) THEN 0
    ELSE IF LimitBeforeIncrease(c, i) >= OverLimitThreshold(c, i) THEN HitsAddend(c)
    ELSE Uint(LimitAfterIncrease(c, i) - OverLimitThreshold(c, i))

\* Mutant: a call that crosses the limit does not count its hits below it.
NearLimitHitsNotOver(c, i) ==
    IF IsOverLimit(c, i) \/ LimitAfterIncrease(c, i) <= NearLimitThreshold(c, i) THEN 0
    ELSE IF LimitBeforeIncrease(c, i) >= NearLimitThreshold(c, i) THEN HitsAddend(c)
    ELSE Uint(LimitAfterIncrease(c, i) - NearLimitThreshold(c, i))

\* What one descriptor of a call adds to NearLimit.
NearLimitHits(c, i) ==
    IF IsOverLimit(c, i)
    THEN IF LimitBeforeIncrease(c, i) >= OverLimitThreshold(c, i) THEN 0
         ELSE Uint(OverLimitThreshold(c, i)
                     - Larger(NearLimitThreshold(c, i), LimitBeforeIncrease(c, i)))
    ELSE IF LimitAfterIncrease(c, i) <= NearLimitThreshold(c, i) THEN 0
    ELSE IF LimitBeforeIncrease(c, i) >= NearLimitThreshold(c, i) THEN HitsAddend(c)
    ELSE Uint(LimitAfterIncrease(c, i) - NearLimitThreshold(c, i))

----------------------------------------------------------------------------
\* NewService: the first reloadConfig may fail, and leaves no configuration.
Init ==
    /\ time = 0
    /\ config \in [Instances -> Configs \cup {NoConfig}]
    /\ redis = [k \in {} |-> 0]
    /\ pc = [c \in Calls |-> "new"]
    /\ inst = [c \in Calls |-> CHOOSE i \in Instances : TRUE]
    /\ req = [c \in Calls |-> [descs |-> <<>>, hits |-> 0]]
    /\ limits = [c \in Calls |-> <<>>]
    /\ now = [c \in Calls |-> 0] /\ readAt = [c \in Calls |-> 0]
    /\ val = [c \in Calls |-> <<>>]
    /\ by = [c \in Calls |-> <<>>]
    /\ incrAt = [c \in Calls |-> <<>>]
    /\ expired = [c \in Calls |-> <<>>]
    /\ next = [c \in Calls |-> 1]
    /\ totalHits = NoHits /\ overLimit = NoHits /\ nearLimit = NoHits

\* reloadConfig on a runtime update: a configuration that does not load leaves
\* the current one in place, which is a stuttering step.
ReloadConfig(i, new) ==
    /\ config' = [config EXCEPT ![i] = new]
    /\ UNCHANGED <<time, redis, pc, request, replies, next, stats>>

\* shouldRateLimitWorker up to DoLimit, for a request r that reaches instance
\* i: the checks, and every limit from one snapshot of the configuration.  A
\* failed check is a service error.
ShouldRateLimit(c, i, r) ==
    /\ pc[c] = "new"
    /\ IF r.descs = <<>> \/ config[i] = NoConfig
       THEN pc' = [pc EXCEPT ![c] = "error"] /\ UNCHANGED <<inst, req, limits, replies>>
       ELSE /\ pc' = [pc EXCEPT ![c] = "snapped"]
            /\ inst' = [inst EXCEPT ![c] = i]
            /\ req' = [req EXCEPT ![c] = r]
            /\ limits' = [limits EXCEPT ![c] = [n \in DOMAIN r.descs |-> config[i][r.descs[n]]]]
            /\ val' = [val EXCEPT ![c] = [n \in DOMAIN r.descs |-> 0]]
            /\ by' = [by EXCEPT ![c] = [n \in DOMAIN r.descs |-> <<c, n>>]]
            /\ incrAt' = [incrAt EXCEPT ![c] = [n \in DOMAIN r.descs |-> 0]]
            /\ expired' = [expired EXCEPT ![c] = [n \in DOMAIN r.descs |-> FALSE]]
    /\ UNCHANGED <<clock, redis, now, readAt, next, stats>>

\* DoLimit up to the pipeline: take a connection, look at the clock, count the
\* hits and queue the commands.
DoLimit(c) ==
    /\ pc[c] = "snapped"
    /\ pc' = [pc EXCEPT ![c] = "sent"]
    /\ now' = [now EXCEPT ![c] = time + Skew[inst[c]]]
    /\ readAt' = [readAt EXCEPT ![c] = time]
    /\ totalHits' = [d \in Descriptors |-> totalHits[d]
            + HitsAddend(c) * Cardinality({i \in Limited(c) : req[c].descs[i] = d})]
    /\ UNCHANGED <<clock, redis, inst, req, limits, replies, next, overLimit, nearLimit>>

\* pool.Get() fails: a Redis error.
NoConnection(c) ==
    /\ pc[c] = "snapped"
    /\ pc' = [pc EXCEPT ![c] = "error"]
    /\ UNCHANGED <<clock, redis, request, replies, next, stats>>

\* The pipeline is executed in the order of the descriptors.  What was sent
\* before a connection broke may still be executed.
Reached(c, i) ==
    /\ pc[c] \in {"sent", "lost"} /\ i \in Limited(c)
    /\ \A j \in Limited(c) : j < i => expired[c][j]

\* Redis executes INCRBY.
RedisIncrBy(c, i) ==
    /\ Reached(c, i) /\ val[c][i] = 0
    /\ LET k   == CacheKey(c, i)
           old == IF k \in DOMAIN redis THEN redis[k]
                  ELSE [count |-> 0, expireAt |-> NoExpiry, by |-> <<c, i>>]
           new == old.count + HitsAddend(c)
       IN  /\ new <= MaxCount
           /\ redis' = [x \in DOMAIN redis \cup {k} |->
                  IF x = k THEN [old EXCEPT !.count = new] ELSE redis[x]]
           /\ val' = [val EXCEPT ![c] = [@ EXCEPT ![i] = new]]
           /\ by' = [by EXCEPT ![c] = [@ EXCEPT ![i] = old.by]]
           /\ incrAt' = [incrAt EXCEPT ![c] = [@ EXCEPT ![i] = time]]
    /\ UNCHANGED <<clock, pc, request, expired, next, stats>>

\* expirationSeconds: the unit and the jitter, which is below its maximum.
Jitters == IF MaxJitter > 0 THEN 0..(MaxJitter - 1) ELSE {0}

\* Mutant: the lifetime forgets the unit and is a second and the jitter.
ExpirationSecondsOne(c, i, j) == 1 + j

ExpirationSeconds(c, i, j) == limits[c][i].unit + j

\* Mutant: EXPIRE is queued before INCRBY, when there is no key to expire yet.
LifetimeTooEarly(c, i, j) == redis[CacheKey(c, i)].expireAt

\* When the key goes after EXPIRE.
Lifetime(c, i, j) == time + ExpirationSeconds(c, i, j)

\* Redis executes EXPIRE, which does nothing to a key that is gone.
RedisExpire(c, i, j) ==
    /\ Reached(c, i) /\ val[c][i] # 0 /\ ~expired[c][i]
    /\ expired' = [expired EXCEPT ![c] = [@ EXCEPT ![i] = TRUE]]
    /\ redis' = [k \in DOMAIN redis |->
          IF k = CacheKey(c, i)
          THEN [redis[k] EXCEPT !.expireAt = Lifetime(c, i, j)]
          ELSE redis[k]]
    /\ UNCHANGED <<clock, pc, request, val, by, incrAt, next, stats>>

\* One turn of DoLimit's last loop: read the two replies of a descriptor and
\* count the hits near and over the limit.  A descriptor without limit is OK.
PipeResponse(c) ==
    LET i == next[c] IN
    /\ pc[c] = "sent" /\ i \in Indices(c)
    /\ i \in Limited(c) => expired[c][i]
    /\ next' = [next EXCEPT ![c] = i + 1]
    /\ IF i \in Limited(c)
       THEN LET d == req[c].descs[i] IN
            /\ overLimit' = [overLimit EXCEPT ![d] = @ + OverLimitHits(c, i)]
            /\ nearLimit' = [nearLimit EXCEPT ![d] = @ + NearLimitHits(c, i)]
       ELSE UNCHANGED <<overLimit, nearLimit>>
    /\ UNCHANGED <<clock, redis, pc, request, replies, totalHits>>

\* The overall code is OVER_LIMIT if that of one descriptor is.
OverallCode(c) ==
    IF \E i \in Limited(c) : IsOverLimit(c, i) THEN "OVER_LIMIT" ELSE "OK"

Return(c) ==
    /\ pc[c] = "sent" /\ next[c] > Len(req[c].descs)
    /\ pc' = [pc EXCEPT ![c] = OverallCode(c)]
    /\ UNCHANGED <<clock, redis, request, replies, next, stats>>

\* A reply is an error: DoLimit panics and the call ends with a Redis error.
RedisError(c) ==
    /\ pc[c] = "sent" /\ next[c] \in Limited(c)
    /\ pc' = [pc EXCEPT ![c] = "lost"]
    /\ UNCHANGED <<clock, redis, request, replies, next, stats>>

\* A counter is gone the moment it expires.
Tick ==
    /\ time < MaxTime
    /\ \A c \in Calls : pc[c] = "sent" /\ (\E i \in Limited(c) : val[c][i] = 0)
            => time < readAt[c] + MaxDelay
    /\ time' = time + 1
    /\ redis' = [k \in {x \in DOMAIN redis : redis[x].expireAt \notin 0..time'} |-> redis[k]]
    /\ UNCHANGED <<config, pc, request, replies, next, stats>>

Handler(c) ==
    \/ \E i \in Instances, r \in Requests : ShouldRateLimit(c, i, r)
    \/ DoLimit(c) \/ NoConnection(c)
    \/ PipeResponse(c) \/ Return(c) \/ RedisError(c)

Redis(c) ==
    \E i \in Indices(c) : RedisIncrBy(c, i) \/ \E j \in Jitters : RedisExpire(c, i, j)

Next ==
    \/ Tick
    \/ \E i \in Instances, new \in Configs : ReloadConfig(i, new)
    \/ \E c \in Calls : Handler(c) \/ Redis(c)

Spec == Init /\ [][Next]_vars

----------------------------------------------------------------------------
(***************************************************************************)
(* Properties.                                                             *)
(***************************************************************************)

Counters == [count: Nat, expireAt: Int, by: Calls \X Nat]

TypeOK ==
    /\ time \in Nat
    /\ config \in [Instances -> Configs \cup {NoConfig}]
    /\ \A k \in DOMAIN redis : redis[k] \in Counters
    /\ pc \in [Calls -> {"new", "snapped", "sent", "lost", "error", "OK", "OVER_LIMIT"}]
    /\ inst \in [Calls -> Instances]
    /\ req \in [Calls -> [descs: Seq(Descriptors), hits: Nat]]
    /\ now \in [Calls -> Nat] /\ readAt \in [Calls -> Nat]
    /\ DOMAIN limits = Calls /\ DOMAIN val = Calls
    /\ DOMAIN by = Calls /\ DOMAIN incrAt = Calls /\ DOMAIN expired = Calls
    /\ \A c \in Calls :
          /\ limits[c] \in [Indices(c) -> Limits \cup {NoLimit}]
          /\ val[c] \in [Indices(c) -> Nat]
          /\ by[c] \in [Indices(c) -> Calls \X Nat]
          /\ incrAt[c] \in [Indices(c) -> Nat]
          /\ expired[c] \in [Indices(c) -> BOOLEAN]
    /\ next \in [Calls -> Nat]
    /\ totalHits \in [Descriptors -> Nat]
    /\ overLimit \in [Descriptors -> Nat] /\ nearLimit \in [Descriptors -> Nat]

\* The descriptors that were told OK after an increase.
Granted(c, i) == pc[c] \in {"OK", "OVER_LIMIT"} /\ i \in Limited(c) /\ ~IsOverLimit(c, i)

\* The hits of a call are the ordinals by which its INCRBY moved the counter.
Hits(c, i) == (val[c][i] - HitsAddend(c) + 1)..val[c][i]

\* The hits granted from one counter are different numbers between 1 and the
\* requests_per_unit of the call, so no more are granted than the limit says,
\* whichever instances serve the calls and in whatever order Redis and they act.
CounterLimit ==
    \A c \in Calls : \A i \in Indices(c) : Granted(c, i) =>
        /\ Hits(c, i) \subseteq 1..OverLimitThreshold(c, i)
        /\ \A e \in Calls : \A j \in Indices(e) :
              Granted(e, j) /\ by[e][j] = by[c][i] /\ <<e, j>> # <<c, i>>
                => Hits(c, i) \cap Hits(e, j) = {}

\* Redis has executed the increment of a descriptor.
Executed(c, i) == i \in Limited(c) /\ val[c][i] # 0

\* It did so within the window that the key names.  It need not: a call reads
\* its instance's clock first, and INCRBY is executed when Redis gets to it.
OnTime(c, i) ==
    /\ CacheKey(c, i)[2] <= incrAt[c][i]
    /\ incrAt[c][i] < CacheKey(c, i)[2] + limits[c][i].unit

\* No call has used the key before its window began (a clock that is ahead
\* does) or under a limit of another unit (before or after a reload: the key
\* does not tell the units apart).
Steady(k, unit) ==
    \A c \in Calls : \A i \in Indices(c) :
        Executed(c, i) /\ CacheKey(c, i) = k => limits[c][i].unit = unit /\ k[2] <= incrAt[c][i]

\* The calls of a window that were not late are limited together, whichever
\* instances serve them, however late others are and whatever connections
\* break: the counter does not expire and start again from 0 before the window
\* is over.  Only a clock that is ahead or a change of unit can cut it short.
WindowLimit ==
    \A c, e \in Calls : \A i \in Indices(c), j \in Indices(e) :
        (/\ Granted(c, i) /\ Granted(e, j) /\ <<e, j>> # <<c, i>>
         /\ CacheKey(e, j) = CacheKey(c, i) /\ Steady(CacheKey(c, i), limits[c][i].unit)
         /\ OnTime(c, i) /\ OnTime(e, j))
            => Hits(c, i) \cap Hits(e, j) = {}

\* README.md:77, hosts without number and yet a precise limit: calls that name
\* the same window, by whatever clock and however late, are limited together.
\* The code does not keep this.  A call that reads the clock in the last second
\* of a window and whose INCRBY is executed after the counter has expired
\* starts a new one.
NamedWindowLimit ==
    \A c, e \in Calls : \A i \in Indices(c), j \in Indices(e) :
        Granted(c, i) /\ Granted(e, j) /\ CacheKey(e, j) = CacheKey(c, i) /\ <<e, j>> # <<c, i>>
            => Hits(c, i) \cap Hits(e, j) = {}

\* A counter without a lifetime is one whose EXPIRE is still to come (or was
\* lost with its connection): Redis does not fill up with dead windows.
CountersExpire ==
    \A k \in DOMAIN redis : redis[k].expireAt = NoExpiry =>
        \E c \in Calls : \E i \in Limited(c) :
            CacheKey(c, i) = k /\ val[c][i] # 0 /\ ~expired[c][i]
=============================================================================
