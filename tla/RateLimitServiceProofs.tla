----------------------- MODULE RateLimitServiceProofs -----------------------
(***************************************************************************)
(* Proofs about RateLimitService, for any number of calls, instances,      *)
(* descriptors and configurations.                                         *)
(***************************************************************************)
EXTENDS RateLimitService, FiniteSetTheorems, TLAPS

----------------------------------------------------------------------------
(***************************************************************************)
(* Arithmetic of the model's helpers.                                      *)
(***************************************************************************)

\* uint32 conversion yields a natural number.
LEMMA UintNat == ASSUME NEW n \in Int PROVE Uint(n) \in Nat
BY ConstantsAssumption DEF Uint

\* It changes nothing below 2^32.
LEMMA UintSmall == ASSUME NEW n \in Nat, n < UintRange PROVE Uint(n) = n
BY ConstantsAssumption DEF Uint

\* t lies in its window.
LEMMA WindowBounds ==
    ASSUME NEW t \in Nat, NEW unit \in Nat \ {0}
    PROVE  /\ Window(t, unit) \in Nat
           /\ Window(t, unit) <= t
           /\ t < Window(t, unit) + unit
BY DEF Window

----------------------------------------------------------------------------
(***************************************************************************)
(* Type correctness.                                                       *)
(***************************************************************************)

\* Positions in a request's list are natural numbers.
LEMMA IndicesNat ==
    ASSUME TypeOK, NEW c \in Calls
    PROVE  /\ Indices(c) = 1..Len(req[c].descs)
           /\ Indices(c) \subseteq Nat /\ IsFiniteSet(Indices(c))
           /\ \A i \in Indices(c) : req[c].descs[i] \in Descriptors
<1>1. req[c].descs \in Seq(Descriptors)
  BY DEF TypeOK
<1>2. Len(req[c].descs) \in Nat /\ Indices(c) = 1..Len(req[c].descs)
  BY <1>1 DEF Indices
<1>3. IsFiniteSet(1..Len(req[c].descs))
  BY <1>2, FS_Interval
<1> QED
  BY <1>1, <1>2, <1>3

\* The hits of a call and what they add to the statistics are natural numbers.
LEMMA HitsNat ==
    ASSUME TypeOK, NEW c \in Calls
    PROVE  HitsAddend(c) \in Nat \ {0}
BY DEF TypeOK, HitsAddend

LEMMA StatHitsNat ==
    ASSUME TypeOK, NEW c \in Calls, NEW i \in Limited(c)
    PROVE  OverLimitHits(c, i) \in Nat /\ NearLimitHits(c, i) \in Nat
<1>1. HitsAddend(c) \in Nat
  BY HitsNat
<1>2. val[c][i] \in Nat /\ limits[c][i] \in Limits
  BY DEF TypeOK, Limited
<1>3. OverLimitThreshold(c, i) \in Nat /\ NearLimitThreshold(c, i) \in Nat
  BY <1>2 DEF OverLimitThreshold, NearLimitThreshold, Limits
<1>4. LimitAfterIncrease(c, i) \in Nat
  BY <1>2, UintNat DEF LimitAfterIncrease
<1>5. LimitBeforeIncrease(c, i) \in Nat
  BY <1>1, <1>4, UintNat DEF LimitBeforeIncrease
<1>6. OverLimitHits(c, i) \in Nat
  BY <1>1, <1>3, <1>4, <1>5, UintNat DEF OverLimitHits
<1>7. Larger(NearLimitThreshold(c, i), LimitBeforeIncrease(c, i)) \in Nat
  BY <1>3, <1>5 DEF Larger
<1>8. NearLimitHits(c, i) \in Nat
  BY <1>1, <1>3, <1>4, <1>5, <1>7, UintNat DEF NearLimitHits
<1> QED
  BY <1>6, <1>8

\* Every variable keeps its type in every step of the service.
THEOREM TypeCorrect == Spec => []TypeOK
<1>1. Init => TypeOK
  BY ConstantsAssumption DEF Init, TypeOK, Indices, NoHits
<1>2. TypeOK /\ [Next]_vars => TypeOK'
  <2> SUFFICES ASSUME TypeOK, [Next]_vars PROVE TypeOK'
    OBVIOUS
  <2>1. CASE Tick
    BY <2>1 DEF Tick, TypeOK, request, replies, stats, Counters, Indices
  <2>2. ASSUME NEW i \in Instances, NEW new \in Configs, ReloadConfig(i, new)
        PROVE  TypeOK'
    BY <2>2 DEF ReloadConfig, TypeOK, request, replies, stats, Indices
  <2>3. ASSUME NEW c \in Calls, NEW i \in Instances, NEW r \in Requests,
               ShouldRateLimit(c, i, r)
        PROVE  TypeOK'
    <3>1. CASE r.descs = <<>> \/ config[i] = NoConfig
      BY <2>3, <3>1 DEF ShouldRateLimit, TypeOK, clock, replies, stats, Indices
    <3>2. CASE ~(r.descs = <<>> \/ config[i] = NoConfig)
      <4>1. config[i] \in [Descriptors -> Limits \cup {NoLimit}]
        BY <3>2, ConstantsAssumption DEF TypeOK
      <4>2. r.descs \in Seq(Descriptors) /\ DOMAIN r.descs = 1..Len(r.descs)
            /\ Len(r.descs) \in Nat
        BY ConstantsAssumption
      <4>3. \A n \in DOMAIN r.descs : r.descs[n] \in Descriptors
        BY <4>2
      <4>4. req' \in [Calls -> [descs: Seq(Descriptors), hits: Nat]]
        <5>1. r \in [descs: Seq(Descriptors), hits: Nat]
          BY ConstantsAssumption
        <5> QED BY <2>3, <3>2, <5>1 DEF ShouldRateLimit, TypeOK
      <4>7. inst' \in [Calls -> Instances]
        <5>1. inst \in [Calls -> Instances]
          BY DEF TypeOK
        <5> QED BY <2>3, <3>2, <5>1 DEF ShouldRateLimit
      <4>8. pc' \in [Calls -> {"new", "snapped", "sent", "lost", "error", "OK", "OVER_LIMIT"}]
        <5>1. pc \in [Calls -> {"new", "snapped", "sent", "lost", "error", "OK", "OVER_LIMIT"}]
          BY DEF TypeOK
        <5> QED BY <2>3, <3>2, <5>1 DEF ShouldRateLimit
      <4>5. ASSUME NEW e \in Calls
            PROVE  /\ limits'[e] \in [Indices(e)' -> Limits \cup {NoLimit}]
                   /\ val'[e] \in [Indices(e)' -> Nat]
                   /\ by'[e] \in [Indices(e)' -> Calls \X Nat]
                   /\ incrAt'[e] \in [Indices(e)' -> Nat]
                   /\ expired'[e] \in [Indices(e)' -> BOOLEAN]
        <5>1. CASE e = c
          <6>1. Indices(e)' = DOMAIN r.descs
            BY <2>3, <3>2, <5>1 DEF ShouldRateLimit, TypeOK, Indices
          <6>2. limits'[e] = [n \in DOMAIN r.descs |-> config[i][r.descs[n]]]
            BY <2>3, <3>2, <5>1 DEF ShouldRateLimit, TypeOK
          <6>3. /\ val'[e] = [n \in DOMAIN r.descs |-> 0]
                /\ by'[e] = [n \in DOMAIN r.descs |-> <<c, n>>]
                /\ incrAt'[e] = [n \in DOMAIN r.descs |-> 0]
                /\ expired'[e] = [n \in DOMAIN r.descs |-> FALSE]
            BY <2>3, <3>2, <5>1 DEF ShouldRateLimit, TypeOK
          <6> QED BY <4>1, <4>2, <4>3, <6>1, <6>2, <6>3
        <5>2. CASE e # c
          <6>1. /\ req'[e] = req[e] /\ limits'[e] = limits[e] /\ val'[e] = val[e]
                /\ by'[e] = by[e] /\ incrAt'[e] = incrAt[e] /\ expired'[e] = expired[e]
            BY <2>3, <3>2, <5>2 DEF ShouldRateLimit, TypeOK
          <6> QED BY <6>1 DEF TypeOK, Indices
        <5> QED BY <5>1, <5>2
      <4>6. /\ DOMAIN limits' = Calls /\ DOMAIN val' = Calls
            /\ DOMAIN by' = Calls /\ DOMAIN incrAt' = Calls /\ DOMAIN expired' = Calls
        BY <2>3, <3>2 DEF ShouldRateLimit, TypeOK
      <4> QED
        BY <2>3, <4>4, <4>5, <4>6, <4>7, <4>8 DEF ShouldRateLimit, TypeOK, clock, stats
    <3> QED BY <3>1, <3>2
  <2>4. ASSUME NEW c \in Calls, DoLimit(c) PROVE TypeOK'
    <3>1. \A d \in Descriptors :
            Cardinality({i \in Limited(c) : req[c].descs[i] = d}) \in Nat
      <4> TAKE d \in Descriptors
      <4>1. {i \in Limited(c) : req[c].descs[i] = d} \subseteq Indices(c)
        BY DEF Limited
      <4>2. IsFiniteSet({i \in Limited(c) : req[c].descs[i] = d})
        BY <4>1, IndicesNat, FS_Subset
      <4> QED BY <4>2, FS_CardinalityType
    <3>2. HitsAddend(c) \in Nat
      BY HitsNat
    <3>3. totalHits' \in [Descriptors -> Nat]
      <4>1. ASSUME NEW d \in Descriptors
            PROVE  totalHits[d] + HitsAddend(c) *
                       Cardinality({i \in Limited(c) : req[c].descs[i] = d}) \in Nat
        <5>1. totalHits[d] \in Nat
          BY DEF TypeOK
        <5> DEFINE n == Cardinality({i \in Limited(c) : req[c].descs[i] = d})
        <5>2. n \in Nat
          BY <3>1
        <5> HIDE DEF n
        <5>3. totalHits[d] + HitsAddend(c) * n \in Nat
          BY <3>2, <5>1, <5>2
        <5> QED BY <5>3 DEF n
      <4> QED BY <2>4, <4>1 DEF DoLimit
    <3>4. now' \in [Calls -> Nat] /\ readAt' \in [Calls -> Nat]
      BY <2>4, ConstantsAssumption DEF DoLimit, TypeOK
    <3> QED
      BY <2>4, <3>3, <3>4 DEF DoLimit, TypeOK, clock, replies, stats, Indices
  <2>5. ASSUME NEW c \in Calls, NoConnection(c) \/ RedisError(c) \/ Return(c)
        PROVE  TypeOK'
    BY <2>5 DEF OverallCode, NoConnection, RedisError, Return, TypeOK, clock, request, replies, stats, Indices
  <2>6. ASSUME NEW c \in Calls, PipeResponse(c) PROVE TypeOK'
    <3>1. next[c] \in Nat
      BY DEF TypeOK
    <3>2. next' \in [Calls -> Nat]
      <4>1. next \in [Calls -> Nat]
        BY DEF TypeOK
      <4>2. next' = [next EXCEPT ![c] = next[c] + 1]
        BY <2>6 DEF PipeResponse
      <4> QED BY <3>1, <4>1, <4>2
    <3>3. overLimit' \in [Descriptors -> Nat] /\ nearLimit' \in [Descriptors -> Nat]
      <4>1. CASE next[c] \in Limited(c)
        <5>1. /\ req[c].descs[next[c]] \in Descriptors
              /\ OverLimitHits(c, next[c]) \in Nat /\ NearLimitHits(c, next[c]) \in Nat
          BY <4>1, StatHitsNat, IndicesNat DEF Limited
        <5>2. overLimit \in [Descriptors -> Nat] /\ nearLimit \in [Descriptors -> Nat]
          BY DEF TypeOK
        <5>3. /\ overLimit' = [overLimit EXCEPT ![req[c].descs[next[c]]] = @ + OverLimitHits(c, next[c])]
              /\ nearLimit' = [nearLimit EXCEPT ![req[c].descs[next[c]]] = @ + NearLimitHits(c, next[c])]
          BY <2>6, <4>1 DEF PipeResponse
        <5> QED BY <5>1, <5>2, <5>3
      <4>2. CASE next[c] \notin Limited(c)
        BY <2>6, <4>2 DEF PipeResponse, TypeOK
      <4> QED BY <4>1, <4>2
    <3> QED
      BY <2>6, <3>2, <3>3 DEF PipeResponse, TypeOK, clock, request, replies, stats, Indices
  <2>7. ASSUME NEW c \in Calls, NEW i \in Indices(c), RedisIncrBy(c, i) PROVE TypeOK'
    <3>1. i \in Nat /\ HitsAddend(c) \in Nat
      BY IndicesNat, HitsNat
    <3> DEFINE k == CacheKey(c, i)
               old == IF k \in DOMAIN redis THEN redis[k]
                      ELSE [count |-> 0, expireAt |-> NoExpiry, by |-> <<c, i>>]
               new == old.count + HitsAddend(c)
    <3>2. old \in Counters
      BY <3>1 DEF TypeOK, Counters, NoExpiry
    <3>3. /\ redis' = [x \in DOMAIN redis \cup {k} |->
                 IF x = k THEN [old EXCEPT !.count = new] ELSE redis[x]]
          /\ val' = [val EXCEPT ![c] = [@ EXCEPT ![i] = new]]
          /\ by' = [by EXCEPT ![c] = [@ EXCEPT ![i] = old.by]]
          /\ incrAt' = [incrAt EXCEPT ![c] = [@ EXCEPT ![i] = time]]
      BY <2>7 DEF RedisIncrBy
    <3> HIDE DEF k, old
    <3>4. new \in Nat /\ old.by \in Calls \X Nat /\ [old EXCEPT !.count = new] \in Counters
      BY <3>1, <3>2 DEF Counters
    <3> HIDE DEF new
    <3>5. \A x \in DOMAIN redis' : redis'[x] \in Counters
      BY <3>3, <3>4 DEF TypeOK
    <3>6. /\ DOMAIN val' = Calls /\ DOMAIN by' = Calls /\ DOMAIN incrAt' = Calls
          /\ \A e \in Calls : /\ val'[e] \in [Indices(e) -> Nat]
                              /\ by'[e] \in [Indices(e) -> Calls \X Nat]
                              /\ incrAt'[e] \in [Indices(e) -> Nat]
      BY <3>3, <3>4 DEF TypeOK
    <3> QED
      BY <2>7, <3>5, <3>6 DEF RedisIncrBy, TypeOK, clock, request, stats, Indices
  <2>8. ASSUME NEW c \in Calls, NEW i \in Indices(c), NEW j \in Jitters, RedisExpire(c, i, j)
        PROVE  TypeOK'
    <3>1. time + ExpirationSeconds(c, i, j) \in Int
      <4>1. limits[c][i] \in Limits
        BY <2>8 DEF RedisExpire, Reached, Limited, TypeOK
      <4>2. j \in Int
        BY ConstantsAssumption DEF Jitters
      <4>3. limits[c][i].unit \in Int
        BY <4>1 DEF Limits
      <4>4. time \in Int
        BY DEF TypeOK
      <4> QED BY <4>2, <4>3, <4>4 DEF ExpirationSeconds
    <3>2. \A k \in DOMAIN redis' : redis'[k] \in Counters
      BY <2>8, <3>1 DEF Lifetime, RedisExpire, TypeOK, Counters
    <3>3. DOMAIN expired' = Calls /\ \A e \in Calls : expired'[e] \in [Indices(e) -> BOOLEAN]
      BY <2>8 DEF RedisExpire, TypeOK
    <3> QED
      BY <2>8, <3>2, <3>3 DEF RedisExpire, TypeOK, clock, request, stats, Indices
  <2>9. CASE UNCHANGED vars
    BY <2>9 DEF vars, TypeOK, clock, request, replies, stats, Indices
  <2> QED
    BY <2>1, <2>2, <2>3, <2>4, <2>5, <2>6, <2>7, <2>8, <2>9 DEF Next, Handler, Redis
<1> QED
  BY <1>1, <1>2, PTL DEF Spec

----------------------------------------------------------------------------
(***************************************************************************)
(* What every step leaves alone.  An increment that Redis has executed     *)
(* never changes any more; only RedisIncrBy adds one.                      *)
(***************************************************************************)

\* How far a call can be, given what Redis has executed of it.
Progress ==
    \A c \in Calls :
        /\ pc[c] \in {"new", "snapped", "error"} => \A i \in Indices(c) : val[c][i] = 0
        /\ pc[c] \in {"new", "snapped"} => next[c] = 1
        /\ \A i \in Indices(c) : expired[c][i] => val[c][i] # 0
        /\ \A i \in Limited(c) : i < next[c] => expired[c][i]
        /\ pc[c] \in {"OK", "OVER_LIMIT"} => \A i \in Limited(c) : val[c][i] # 0

\* Once the clock has been read, the request of a call is fixed.
LEMMA Frozen ==
    ASSUME TypeOK, [Next]_vars, NEW c \in Calls, pc[c] \notin {"new", "snapped"}
    PROVE  req'[c] = req[c] /\ limits'[c] = limits[c] /\ now'[c] = now[c] /\ readAt'[c] = readAt[c]
<1>1. ASSUME NEW e \in Calls, Handler(e) \/ Redis(e)
      PROVE  req'[c] = req[c] /\ limits'[c] = limits[c] /\ now'[c] = now[c] /\ readAt'[c] = readAt[c]
  <2>1. ASSUME NEW i \in Instances, NEW r \in Requests, ShouldRateLimit(e, i, r)
        PROVE  req'[c] = req[c] /\ limits'[c] = limits[c] /\ now'[c] = now[c] /\ readAt'[c] = readAt[c]
    <3>1. e # c
      BY <2>1 DEF ShouldRateLimit
    <3> QED BY <2>1, <3>1 DEF ShouldRateLimit, TypeOK, replies
  <2>2. CASE DoLimit(e)
    <3>1. e # c
      BY <2>2 DEF DoLimit
    <3> QED BY <2>2, <3>1 DEF DoLimit, TypeOK
  <2>3. CASE NoConnection(e) \/ PipeResponse(e) \/ Return(e) \/ RedisError(e) \/ Redis(e)
    BY <2>3 DEF NoConnection, PipeResponse, Return, RedisError, Redis, RedisIncrBy, RedisExpire, request
  <2> QED BY <1>1, <2>1, <2>2, <2>3 DEF Handler
<1>2. CASE Tick \/ (\E i \in Instances, new \in Configs : ReloadConfig(i, new)) \/ UNCHANGED vars
  BY <1>2 DEF Tick, ReloadConfig, vars, request
<1> QED BY <1>1, <1>2 DEF Next

\* Only RedisIncrBy changes a reply of a call that has been sent.
LEMMA RepliesKept ==
    ASSUME TypeOK, [Next]_vars, NEW c \in Calls, NEW i \in Indices(c),
           pc[c] \notin {"new", "snapped"}, ~RedisIncrBy(c, i)
    PROVE  UNCHANGED <<val[c][i], by[c][i], incrAt[c][i]>>
<1>1. ASSUME NEW e \in Calls, NEW j \in Instances, NEW r \in Requests, ShouldRateLimit(e, j, r)
      PROVE  UNCHANGED <<val[c][i], by[c][i], incrAt[c][i]>>
  <2>1. e # c
    BY <1>1 DEF ShouldRateLimit
  <2> QED BY <1>1, <2>1 DEF ShouldRateLimit, TypeOK, replies
<1>2. ASSUME NEW e \in Calls, NEW j \in Indices(e), RedisIncrBy(e, j)
      PROVE  UNCHANGED <<val[c][i], by[c][i], incrAt[c][i]>>
  <2>1. CASE e # c
    BY <1>2, <2>1 DEF RedisIncrBy, TypeOK
  <2>2. CASE e = c
    <3>1. j # i
      BY <1>2, <2>2
    <3>2. /\ DOMAIN val = Calls /\ DOMAIN by = Calls /\ DOMAIN incrAt = Calls
          /\ DOMAIN val[c] = Indices(c) /\ DOMAIN by[c] = Indices(c)
          /\ DOMAIN incrAt[c] = Indices(c)
      BY DEF TypeOK
    <3> QED BY <1>2, <2>2, <3>1, <3>2 DEF RedisIncrBy
  <2> QED BY <2>1, <2>2
<1>3. ASSUME NEW e \in Calls,
             \/ DoLimit(e) \/ NoConnection(e) \/ PipeResponse(e) \/ Return(e) \/ RedisError(e)
             \/ \E j \in Indices(e), n \in Jitters : RedisExpire(e, j, n)
      PROVE  UNCHANGED <<val[c][i], by[c][i], incrAt[c][i]>>
  BY <1>3 DEF DoLimit, NoConnection, PipeResponse, Return, RedisError, RedisExpire, replies
<1>4. CASE Tick \/ (\E j \in Instances, new \in Configs : ReloadConfig(j, new)) \/ UNCHANGED vars
  BY <1>4 DEF Tick, ReloadConfig, vars, replies
<1> QED BY <1>1, <1>2, <1>3, <1>4 DEF Next, Handler, Redis

\* An executed increment keeps its key, its hits and its replies.
LEMMA ExecutedKept ==
    ASSUME TypeOK, Progress, [Next]_vars, NEW c \in Calls, NEW i \in Limited(c), Executed(c, i)
    PROVE  /\ i \in Limited(c)' /\ Executed(c, i)'
           /\ val'[c][i] = val[c][i] /\ by'[c][i] = by[c][i]
           /\ limits'[c][i] = limits[c][i] /\ incrAt'[c][i] = incrAt[c][i]
           /\ CacheKey(c, i)' = CacheKey(c, i) /\ HitsAddend(c)' = HitsAddend(c)
<1>1. i \in Indices(c)
  BY DEF Limited
<1>2. pc[c] \notin {"new", "snapped"}
  BY <1>1 DEF Progress, Executed
<1>3. req'[c] = req[c] /\ limits'[c] = limits[c] /\ now'[c] = now[c]
  BY <1>2, Frozen
<1>4. ~RedisIncrBy(c, i)
  BY DEF RedisIncrBy, Executed
<1>5. val'[c][i] = val[c][i] /\ by'[c][i] = by[c][i] /\ incrAt'[c][i] = incrAt[c][i]
  BY <1>1, <1>2, <1>4, RepliesKept
<1> QED BY <1>3, <1>5 DEF Executed, Limited, Indices, CacheKey, HitsAddend

\* A newly executed increment is a RedisIncrBy step of that very call.
LEMMA ExecutedNew ==
    ASSUME TypeOK, Progress, [Next]_vars, NEW c \in Calls, NEW i \in Limited(c)',
           Executed(c, i)', ~Executed(c, i)
    PROVE  i \in Indices(c) /\ RedisIncrBy(c, i)
<1>1. CASE pc[c] \in {"new", "snapped"}
  <2>1. \A j \in Indices(c) : val[c][j] = 0
    BY <1>1 DEF Progress
  <2>2. \A j \in Indices(c)' : val'[c][j] = 0
    <3>1. ASSUME NEW e \in Calls, NEW k \in Instances, NEW r \in Requests, ShouldRateLimit(e, k, r)
          PROVE  \A j \in Indices(c)' : val'[c][j] = 0
      <4>0. DOMAIN val = Calls /\ DOMAIN req = Calls
        BY DEF TypeOK
      <4>1. CASE e # c \/ r.descs = <<>> \/ config[k] = NoConfig
        <5>1. val'[c] = val[c] /\ req'[c] = req[c]
          BY <3>1, <4>0, <4>1 DEF ShouldRateLimit, replies
        <5> QED BY <2>1, <5>1 DEF Indices
      <4>2. CASE e = c /\ ~(r.descs = <<>> \/ config[k] = NoConfig)
        <5>1. val'[c] = [n \in DOMAIN r.descs |-> 0] /\ req'[c] = r
          BY <3>1, <4>0, <4>2 DEF ShouldRateLimit
        <5> QED BY <5>1 DEF Indices
      <4> QED BY <4>1, <4>2
    <3>2. ASSUME NEW e \in Calls, Redis(e)
          PROVE  \A j \in Indices(c)' : val'[c][j] = 0
      <4>1. e # c
        BY <1>1, <3>2 DEF Redis, RedisIncrBy, RedisExpire, Reached
      <4>2. DOMAIN val = Calls
        BY DEF TypeOK
      <4>3. val'[c] = val[c] /\ req'[c] = req[c]
        BY <3>2, <4>1, <4>2 DEF Redis, RedisIncrBy, RedisExpire, request
      <4> QED BY <2>1, <4>3 DEF Indices
    <3>3. ASSUME NEW e \in Calls,
                 DoLimit(e) \/ NoConnection(e) \/ PipeResponse(e) \/ Return(e) \/ RedisError(e)
          PROVE  \A j \in Indices(c)' : val'[c][j] = 0
      BY <2>1, <3>3 DEF DoLimit, NoConnection, PipeResponse, Return, RedisError, request, replies, Indices
    <3>4. CASE Tick \/ (\E j \in Instances, new \in Configs : ReloadConfig(j, new)) \/ UNCHANGED vars
      BY <2>1, <3>4 DEF Tick, ReloadConfig, vars, request, replies, Indices
    <3> QED BY <3>1, <3>2, <3>3, <3>4 DEF Next, Handler
  <2> QED BY <2>2 DEF Executed, Limited
<1>2. CASE pc[c] \notin {"new", "snapped"}
  <2>1. i \in Limited(c)
    BY <1>2, Frozen DEF Limited, Indices
  <2> QED BY <1>2, <2>1, RepliesKept DEF Executed, Limited
<1> QED BY <1>1, <1>2

\* A step other than INCRBY creates no counter and keeps the count and the
\* creator of the counters that it does not remove.
LEMMA CountersKept ==
    ASSUME TypeOK, [Next]_vars, \A c \in Calls : \A i \in Indices(c) : ~RedisIncrBy(c, i)
    PROVE  /\ DOMAIN redis' \subseteq DOMAIN redis
           /\ \A k \in DOMAIN redis' :
                 redis'[k].count = redis[k].count /\ redis'[k].by = redis[k].by
<1>1. ASSUME NEW c \in Calls, NEW i \in Indices(c), NEW j \in Jitters, RedisExpire(c, i, j)
      PROVE  /\ DOMAIN redis' \subseteq DOMAIN redis
             /\ \A k \in DOMAIN redis' :
                   redis'[k].count = redis[k].count /\ redis'[k].by = redis[k].by
  BY <1>1 DEF RedisExpire, TypeOK, Counters
<1>2. CASE Tick
  BY <1>2 DEF Tick
<1>3. CASE UNCHANGED redis
  BY <1>3
<1>4. ASSUME NEW c \in Calls, Handler(c)
      PROVE  UNCHANGED redis
  BY <1>4 DEF Handler, ShouldRateLimit, DoLimit, NoConnection, PipeResponse, Return, RedisError
<1>5. (\E i \in Instances, new \in Configs : ReloadConfig(i, new)) \/ UNCHANGED vars
        => UNCHANGED redis
  BY DEF ReloadConfig, vars
<1> QED BY <1>1, <1>2, <1>3, <1>4, <1>5 DEF Next, Redis

\* The progress of calls, in every reachable state.
LEMMA ProgressInductive ==
    ASSUME TypeOK, TypeOK', Progress, [Next]_vars
    PROVE  Progress'
<1> SUFFICES ASSUME NEW c \in Calls
             PROVE  /\ pc'[c] \in {"new", "snapped", "error"} =>
                            \A i \in Indices(c)' : val'[c][i] = 0
                    /\ pc'[c] \in {"new", "snapped"} => next'[c] = 1
                    /\ \A i \in Indices(c)' : expired'[c][i] => val'[c][i] # 0
                    /\ \A i \in Limited(c)' : i < next'[c] => expired'[c][i]
                    /\ pc'[c] \in {"OK", "OVER_LIMIT"} =>
                            \A i \in Limited(c)' : val'[c][i] # 0
  BY DEF Progress
<1> DEFINE G == /\ pc'[c] \in {"new", "snapped", "error"} =>
                            \A i \in Indices(c)' : val'[c][i] = 0
                /\ pc'[c] \in {"new", "snapped"} => next'[c] = 1
                /\ \A i \in Indices(c)' : expired'[c][i] => val'[c][i] # 0
                /\ \A i \in Limited(c)' : i < next'[c] => expired'[c][i]
                /\ pc'[c] \in {"OK", "OVER_LIMIT"} =>
                            \A i \in Limited(c)' : val'[c][i] # 0
<1>0. /\ DOMAIN val = Calls /\ DOMAIN expired = Calls /\ DOMAIN limits = Calls
      /\ DOMAIN val[c] = Indices(c) /\ DOMAIN expired[c] = Indices(c)
      /\ pc \in [Calls -> {"new", "snapped", "sent", "lost", "error", "OK", "OVER_LIMIT"}]
      /\ next \in [Calls -> Nat] /\ DOMAIN req = Calls
  BY DEF TypeOK
<1>1. CASE UNCHANGED <<pc[c], req[c], limits[c], val[c], expired[c], next[c]>>
  BY <1>1 DEF Progress, Indices, Limited
<1>2. CASE Tick \/ (\E i \in Instances, new \in Configs : ReloadConfig(i, new)) \/ UNCHANGED vars
  BY <1>1, <1>2 DEF Tick, ReloadConfig, vars, request, replies
<1>3. ASSUME NEW e \in Calls, e # c, Handler(e) \/ Redis(e)
      PROVE  UNCHANGED <<pc[c], req[c], limits[c], val[c], expired[c], next[c]>>
  <2>1. CASE Handler(e)
    BY <1>0, <1>3, <2>1 DEF Handler, ShouldRateLimit, DoLimit, NoConnection, PipeResponse, Return,
        RedisError, request, replies
  <2>2. CASE Redis(e)
    BY <1>0, <1>3, <2>2 DEF Redis, RedisIncrBy, RedisExpire, request, replies
  <2> QED BY <1>3, <2>1, <2>2
<1>4. ASSUME NEW k \in Instances, NEW r \in Requests, ShouldRateLimit(c, k, r)
      PROVE  G
  <2>1. CASE r.descs = <<>> \/ config[k] = NoConfig
    BY <1>0, <1>4, <2>1 DEF ShouldRateLimit, replies, Progress, Indices, Limited
  <2>2. CASE ~(r.descs = <<>> \/ config[k] = NoConfig)
    <3>1. /\ pc'[c] = "snapped" /\ Indices(c)' = DOMAIN r.descs
          /\ val'[c] = [n \in DOMAIN r.descs |-> 0]
          /\ expired'[c] = [n \in DOMAIN r.descs |-> FALSE]
          /\ next'[c] = next[c]
      BY <1>0, <1>4, <2>2 DEF ShouldRateLimit, Indices
    <3>2. next'[c] = 1
      BY <1>4, <3>1 DEF Progress, ShouldRateLimit
    <3>3. \A n \in Indices(c)' : n \in Nat /\ n >= 1
      BY <3>1, ConstantsAssumption
    <3> QED BY <3>1, <3>2, <3>3 DEF Limited
  <2> QED BY <2>1, <2>2
<1>5. CASE DoLimit(c) \/ NoConnection(c) \/ RedisError(c)
  <2>1. UNCHANGED <<req[c], limits[c], val[c], expired[c], next[c]>>
    BY <1>5 DEF DoLimit, NoConnection, RedisError, request, replies
  <2>2. \/ pc[c] = "snapped" /\ pc'[c] \in {"sent", "error"}
        \/ pc[c] = "sent" /\ pc'[c] = "lost"
    BY <1>0, <1>5 DEF DoLimit, NoConnection, RedisError
  <2> QED BY <2>1, <2>2 DEF Progress, Indices, Limited
<1>6. CASE PipeResponse(c)
  <2>1. UNCHANGED <<req[c], limits[c], val[c], expired[c], pc[c]>> /\ pc[c] = "sent"
    BY <1>6 DEF PipeResponse, request, replies
  <2>2. next'[c] = next[c] + 1 /\ (next[c] \in Limited(c) => expired[c][next[c]])
    BY <1>0, <1>6 DEF PipeResponse
  <2>3. \A i \in Limited(c) : i < next[c] + 1 => expired[c][i]
    <3> TAKE i \in Limited(c)
    <3>1. i \in Nat /\ next[c] \in Nat
      BY <1>0, IndicesNat DEF Limited
    <3>2. i < next[c] => expired[c][i]
      BY DEF Progress
    <3>3. i = next[c] => expired[c][i]
      BY <2>2
    <3> QED BY <3>1, <3>2, <3>3
  <2> QED BY <2>1, <2>2, <2>3 DEF Progress, Indices, Limited
<1>7. CASE Return(c)
  <2>1. UNCHANGED <<req[c], limits[c], val[c], expired[c], next[c]>>
    BY <1>7 DEF Return, request, replies
  <2>2. pc'[c] \in {"OK", "OVER_LIMIT"} /\ next[c] > Len(req[c].descs)
    BY <1>0, <1>7 DEF OverallCode, Return
  <2>3. \A i \in Limited(c) : val[c][i] # 0
    <3> TAKE i \in Limited(c)
    <3>1. i < next[c]
      BY <1>0, <2>2, IndicesNat DEF Limited
    <3> QED BY <3>1 DEF Progress, Limited
  <2> QED BY <2>1, <2>2, <2>3 DEF Progress, Indices, Limited
<1>8. ASSUME NEW i \in Indices(c), RedisIncrBy(c, i) PROVE G
  <2>1. UNCHANGED <<req[c], limits[c], pc[c], expired[c], next[c]>> /\ pc[c] \in {"sent", "lost"}
    BY <1>8 DEF RedisIncrBy, Reached, request
  <2>2. \A j \in Indices(c) : val[c][j] # 0 => val'[c][j] # 0
    <3>1. \A j \in Indices(c) : j # i => val'[c][j] = val[c][j]
      BY <1>0, <1>8 DEF RedisIncrBy
    <3>2. val[c][i] = 0
      BY <1>8 DEF RedisIncrBy
    <3> QED BY <3>1, <3>2
  <2> QED BY <2>1, <2>2 DEF Progress, Indices, Limited
<1>9. ASSUME NEW i \in Indices(c), NEW j \in Jitters, RedisExpire(c, i, j) PROVE G
  <2>1. UNCHANGED <<req[c], limits[c], pc[c], val[c], next[c]>> /\ pc[c] \in {"sent", "lost"}
    BY <1>9 DEF RedisExpire, Reached, request
  <2>2. /\ val[c][i] # 0 /\ expired'[c][i] = TRUE
        /\ \A n \in Indices(c) : n # i => expired'[c][n] = expired[c][n]
    BY <1>0, <1>9 DEF RedisExpire
  <2> QED BY <2>1, <2>2 DEF Progress, Indices, Limited
<1> QED
  <2>1. ASSUME NEW e \in Calls, Handler(e) \/ Redis(e) PROVE G
    <3>1. CASE e # c
      BY <1>1, <1>3, <2>1, <3>1
    <3>2. CASE e = c
      BY <1>4, <1>5, <1>6, <1>7, <1>8, <1>9, <2>1, <3>2 DEF Handler, Redis
    <3> QED BY <3>1, <3>2
  <2> QED BY <1>2, <2>1 DEF Next

----------------------------------------------------------------------------
(***************************************************************************)
(* The limit of a counter.  The inductive invariant says that a counter is *)
(* never behind the replies it has given, so that replies do not overlap.  *)
(***************************************************************************)

\* The increment b created the counter k.
Creator(b, k) ==
    /\ b[1] \in Calls /\ b[2] \in Limited(b[1]) /\ Executed(b[1], b[2])
    /\ CacheKey(b[1], b[2]) = k

\* What holds of one executed increment.
Consistent(c, i) ==
    /\ HitsAddend(c) <= val[c][i] /\ val[c][i] <= MaxCount
    /\ Creator(by[c][i], CacheKey(c, i))
    /\ CacheKey(c, i) \in DOMAIN redis /\ redis[CacheKey(c, i)].by = by[c][i]
          => val[c][i] <= redis[CacheKey(c, i)].count

\* Two increments of one counter moved it through different numbers.
Apart(c, i, e, j) ==
    \/ val[c][i] <= val[e][j] - HitsAddend(e)
    \/ val[e][j] <= val[c][i] - HitsAddend(c)

CounterInv ==
    /\ \A k \in DOMAIN redis : Creator(redis[k].by, k)
    /\ \A c \in Calls : \A i \in Limited(c) : Executed(c, i) => Consistent(c, i)
    /\ \A c, e \in Calls : \A i \in Limited(c), j \in Limited(e) :
          Executed(c, i) /\ Executed(e, j) /\ by[c][i] = by[e][j] /\ <<c, i>> # <<e, j>>
            => Apart(c, i, e, j)

\* A creator stays one.
LEMMA CreatorKept ==
    ASSUME TypeOK, Progress, [Next]_vars, NEW b, NEW k, Creator(b, k)
    PROVE  /\ b[1] \in Calls /\ b[2] \in Limited(b[1])' /\ Executed(b[1], b[2])'
           /\ CacheKey(b[1], b[2])' = k
BY ExecutedKept DEF Creator

\* Steps that execute no INCRBY preserve the invariant.
LEMMA CounterInvKept ==
    ASSUME TypeOK, Progress, CounterInv, [Next]_vars,
           \A c \in Calls : \A i \in Indices(c) : ~RedisIncrBy(c, i)
    PROVE  CounterInv'
<1>1. \A c \in Calls : \A i \in Limited(c)' : Executed(c, i)' => i \in Limited(c) /\ Executed(c, i)
  BY ExecutedNew DEF Executed
<1>2. ASSUME NEW k \in DOMAIN redis' PROVE Creator(redis[k].by, k)'
  <2>1. k \in DOMAIN redis /\ redis'[k].by = redis[k].by
    BY CountersKept
  <2>2. PICK b : b = redis[k].by
    OBVIOUS
  <2>3. Creator(b, k)
    BY <2>1, <2>2 DEF CounterInv
  <2> QED BY <2>1, <2>2, <2>3, CreatorKept DEF Creator
<1>3. ASSUME NEW c \in Calls, NEW i \in Limited(c)', Executed(c, i)'
      PROVE  Consistent(c, i)'
  <2>1. i \in Limited(c) /\ Executed(c, i)
    BY <1>1, <1>3
  <2>2. Consistent(c, i)
    BY <2>1 DEF CounterInv
  <2>3. /\ val'[c][i] = val[c][i] /\ by'[c][i] = by[c][i]
        /\ CacheKey(c, i)' = CacheKey(c, i) /\ HitsAddend(c)' = HitsAddend(c)
    BY <2>1, ExecutedKept
  <2>4. Creator(by[c][i], CacheKey(c, i))'
    <3>1. PICK b, k : b = by[c][i] /\ k = CacheKey(c, i)
      OBVIOUS
    <3>2. Creator(b, k)
      BY <2>2, <3>1 DEF Consistent
    <3> QED BY <2>3, <3>1, <3>2, CreatorKept DEF Creator
  <2> QED BY <2>2, <2>3, <2>4, CountersKept DEF Consistent
<1>4. ASSUME NEW c \in Calls, NEW e \in Calls, NEW i \in Limited(c)', NEW j \in Limited(e)',
             Executed(c, i)', Executed(e, j)', by'[c][i] = by'[e][j], <<c, i>> # <<e, j>>
      PROVE  Apart(c, i, e, j)'
  <2>1. i \in Limited(c) /\ Executed(c, i) /\ j \in Limited(e) /\ Executed(e, j)
    BY <1>1, <1>4
  <2>2. /\ val'[c][i] = val[c][i] /\ by'[c][i] = by[c][i] /\ HitsAddend(c)' = HitsAddend(c)
        /\ val'[e][j] = val[e][j] /\ by'[e][j] = by[e][j] /\ HitsAddend(e)' = HitsAddend(e)
    BY <2>1, ExecutedKept
  <2>3. Apart(c, i, e, j)
    BY <1>4, <2>1, <2>2 DEF CounterInv
  <2> QED BY <2>2, <2>3 DEF Apart
<1> QED BY <1>2, <1>3, <1>4 DEF CounterInv

\* What INCRBY does to its counter k and to its call.
IncrByDone(c, i, k) ==
    /\ i \in Limited(c) /\ val[c][i] = 0
    /\ DOMAIN redis' = DOMAIN redis \cup {k}
    /\ \A x \in DOMAIN redis : x # k => redis'[x] = redis[x]
    /\ redis'[k].count = val'[c][i] /\ redis'[k].by = by'[c][i]
    /\ val'[c][i] <= MaxCount /\ val'[c][i] \in Nat
    /\ k \in DOMAIN redis => /\ val'[c][i] = redis[k].count + HitsAddend(c)
                             /\ by'[c][i] = redis[k].by
                             /\ redis'[k].expireAt = redis[k].expireAt
    /\ k \notin DOMAIN redis => /\ val'[c][i] = HitsAddend(c)
                                /\ by'[c][i] = <<c, i>>
                                /\ redis'[k].expireAt = NoExpiry

LEMMA IncrByEffect ==
    ASSUME TypeOK, NEW c \in Calls, NEW i \in Indices(c), RedisIncrBy(c, i),
           NEW k, k = CacheKey(c, i)
    PROVE  IncrByDone(c, i, k)
<1> DEFINE old == IF k \in DOMAIN redis THEN redis[k]
                  ELSE [count |-> 0, expireAt |-> NoExpiry, by |-> <<c, i>>]
           new == old.count + HitsAddend(c)
<1>1. /\ new <= MaxCount
      /\ redis' = [x \in DOMAIN redis \cup {k} |->
            IF x = k THEN [old EXCEPT !.count = new] ELSE redis[x]]
      /\ val' = [val EXCEPT ![c] = [@ EXCEPT ![i] = new]]
      /\ by' = [by EXCEPT ![c] = [@ EXCEPT ![i] = old.by]]
  BY DEF RedisIncrBy
<1>2. i \in Limited(c) /\ val[c][i] = 0
  BY DEF RedisIncrBy, Reached
<1>3. HitsAddend(c) \in Nat \ {0} /\ i \in Nat
  BY HitsNat, IndicesNat
<1>4. old \in Counters
  BY <1>3 DEF TypeOK, Counters, NoExpiry
<1>5. /\ DOMAIN val = Calls /\ DOMAIN by = Calls
      /\ DOMAIN val[c] = Indices(c) /\ DOMAIN by[c] = Indices(c)
  BY DEF TypeOK
<1>6. val'[c][i] = new /\ by'[c][i] = old.by
  BY <1>1, <1>5
<1>7. new \in Nat
  BY <1>3, <1>4 DEF Counters
<1>8. redis'[k].count = new /\ redis'[k].by = old.by /\ redis'[k].expireAt = old.expireAt
  <2> HIDE DEF old, new
  <2> QED BY <1>1, <1>4 DEF Counters
<1> QED BY <1>1, <1>2, <1>3, <1>6, <1>7, <1>8 DEF IncrByDone

\* INCRBY preserves the invariant.
LEMMA CounterInvIncr ==
    ASSUME TypeOK, Progress, CounterInv, [Next]_vars,
           NEW c \in Calls, NEW i \in Indices(c), RedisIncrBy(c, i)
    PROVE  CounterInv'
<1>0. PICK k : k = CacheKey(c, i)
  OBVIOUS
<1>1. /\ i \in Limited(c) /\ val[c][i] = 0
      /\ DOMAIN redis' = DOMAIN redis \cup {k}
      /\ \A x \in DOMAIN redis : x # k => redis'[x] = redis[x]
      /\ redis'[k].count = val'[c][i] /\ redis'[k].by = by'[c][i]
      /\ val'[c][i] <= MaxCount /\ val'[c][i] \in Nat
      /\ k \in DOMAIN redis => /\ val'[c][i] = redis[k].count + HitsAddend(c)
                               /\ by'[c][i] = redis[k].by
      /\ k \notin DOMAIN redis => /\ val'[c][i] = HitsAddend(c)
                                  /\ by'[c][i] = <<c, i>>
  BY <1>0, IncrByEffect DEF IncrByDone
<1>2. HitsAddend(c) \in Nat \ {0} /\ (k \in DOMAIN redis => redis[k].count \in Nat)
  BY HitsNat DEF TypeOK, Counters
<1>3. Limited(c)' = Limited(c) /\ HitsAddend(c)' = HitsAddend(c) /\ CacheKey(c, i)' = k
  BY <1>0 DEF RedisIncrBy, request, Limited, Indices, HitsAddend, CacheKey
<1>4. Executed(c, i)' /\ ~Executed(c, i)
  BY <1>1, <1>2, <1>3 DEF Executed
<1>5. \A e \in Calls : \A j \in Limited(e)' :
         Executed(e, j)' /\ <<e, j>> # <<c, i>> => j \in Limited(e) /\ Executed(e, j)
  <2> SUFFICES ASSUME NEW e \in Calls, NEW j \in Limited(e)', Executed(e, j)',
                      <<e, j>> # <<c, i>>, ~(j \in Limited(e) /\ Executed(e, j))
               PROVE  FALSE
    OBVIOUS
  <2>1. ~Executed(e, j)
    BY DEF Executed
  <2>2. j \in Indices(e) /\ RedisIncrBy(e, j)
    BY <2>1, ExecutedNew
  <2>3. val'[c][i] = val[c][i]
    <3>1. CASE e # c
      BY <2>2, <3>1 DEF RedisIncrBy, TypeOK
    <3>2. CASE e = c
      <4>1. DOMAIN val = Calls /\ DOMAIN val[c] = Indices(c)
        BY DEF TypeOK
      <4> QED BY <2>2, <3>2, <4>1 DEF RedisIncrBy
    <3> QED BY <3>1, <3>2
  <2> QED BY <1>1, <1>2, <2>3
<1>6. ASSUME NEW e \in Calls, NEW j \in Limited(e), Executed(e, j), by[e][j] = by'[c][i]
      PROVE  k \in DOMAIN redis /\ val[e][j] <= redis[k].count /\ CacheKey(e, j) = k
  <2>1. Consistent(e, j)
    BY <1>6 DEF CounterInv
  <2>2. Creator(by'[c][i], CacheKey(e, j))
    BY <1>6, <2>1 DEF Consistent
  <2>3. k \in DOMAIN redis
    BY <1>1, <1>4, <2>2 DEF Creator
  <2>4. Creator(redis[k].by, k)
    BY <2>3 DEF CounterInv
  <2>5. CacheKey(e, j) = k
    BY <1>1, <2>2, <2>3, <2>4 DEF Creator
  <2> QED BY <1>1, <1>6, <2>1, <2>3, <2>5 DEF Consistent
<1>7. ASSUME NEW x \in DOMAIN redis' PROVE Creator(redis[x].by, x)'
  <2>1. CASE x \in DOMAIN redis
    <3>1. redis'[x].by = redis[x].by
      BY <1>1, <2>1
    <3>2. PICK b : b = redis[x].by
      OBVIOUS
    <3>3. Creator(b, x)
      BY <2>1, <3>2 DEF CounterInv
    <3> QED BY <3>1, <3>2, <3>3, CreatorKept DEF Creator
  <2>2. CASE x \notin DOMAIN redis
    <3>1. x = k /\ redis'[x].by = <<c, i>>
      BY <1>1, <2>2
    <3> QED BY <1>1, <1>3, <1>4, <3>1 DEF Creator
  <2> QED BY <2>1, <2>2
<1>8. ASSUME NEW e \in Calls, NEW j \in Limited(e)', Executed(e, j)' PROVE Consistent(e, j)'
  <2>1. CASE <<e, j>> = <<c, i>>
    <3>1. Creator(by[c][i], CacheKey(c, i))'
      BY <1>1, <1>3, <1>7
    <3> QED BY <1>1, <1>2, <1>3, <2>1, <3>1 DEF Consistent
  <2>2. CASE <<e, j>> # <<c, i>>
    <3>1. j \in Limited(e) /\ Executed(e, j)
      BY <1>5, <1>8, <2>2
    <3>2. Consistent(e, j)
      BY <3>1 DEF CounterInv
    <3>3. /\ val'[e][j] = val[e][j] /\ by'[e][j] = by[e][j]
          /\ CacheKey(e, j)' = CacheKey(e, j) /\ HitsAddend(e)' = HitsAddend(e)
      BY <3>1, ExecutedKept
    <3>4. Creator(by[e][j], CacheKey(e, j))'
      <4>1. PICK b, x : b = by[e][j] /\ x = CacheKey(e, j)
        OBVIOUS
      <4>2. Creator(b, x)
        BY <3>2, <4>1 DEF Consistent
      <4> QED BY <3>3, <4>1, <4>2, CreatorKept DEF Creator
    <3>5. val[e][j] \in Nat
      BY <3>1 DEF Limited, TypeOK
    <3>6. ASSUME CacheKey(e, j) \in DOMAIN redis', redis'[CacheKey(e, j)].by = by[e][j]
          PROVE  val[e][j] <= redis'[CacheKey(e, j)].count
      <4>1. CASE CacheKey(e, j) = k
        <5>1. k \in DOMAIN redis /\ val[e][j] <= redis[k].count
          BY <1>1, <1>6, <3>1, <3>6, <4>1
        <5> QED BY <1>1, <1>2, <3>5, <4>1, <5>1
      <4>2. CASE CacheKey(e, j) # k
        BY <1>1, <3>2, <3>6, <4>2 DEF Consistent
      <4> QED BY <4>1, <4>2
    <3> QED BY <3>2, <3>3, <3>4, <3>6 DEF Consistent
  <2> QED BY <2>1, <2>2
<1>9. ASSUME NEW e \in Calls, NEW j \in Limited(e), Executed(e, j), by[e][j] = by'[c][i]
      PROVE  val[e][j] <= val'[c][i] - HitsAddend(c)
  <2>1. val[e][j] \in Nat
    BY DEF Limited, TypeOK
  <2> QED BY <1>1, <1>2, <1>6, <1>9, <2>1
<1>10. ASSUME NEW e \in Calls, NEW f \in Calls, NEW j \in Limited(e)', NEW n \in Limited(f)',
              Executed(e, j)', Executed(f, n)', by'[e][j] = by'[f][n], <<e, j>> # <<f, n>>
       PROVE  Apart(e, j, f, n)'
  <2>1. CASE <<e, j>> = <<c, i>>
    <3>1. n \in Limited(f) /\ Executed(f, n)
      BY <1>5, <1>10, <2>1
    <3>2. val'[f][n] = val[f][n] /\ by'[f][n] = by[f][n]
      BY <3>1, ExecutedKept
    <3> QED BY <1>3, <1>9, <1>10, <2>1, <3>1, <3>2 DEF Apart
  <2>2. CASE <<f, n>> = <<c, i>>
    <3>1. j \in Limited(e) /\ Executed(e, j)
      BY <1>5, <1>10, <2>2
    <3>2. val'[e][j] = val[e][j] /\ by'[e][j] = by[e][j]
      BY <3>1, ExecutedKept
    <3> QED BY <1>3, <1>9, <1>10, <2>2, <3>1, <3>2 DEF Apart
  <2>3. CASE <<e, j>> # <<c, i>> /\ <<f, n>> # <<c, i>>
    <3>1. j \in Limited(e) /\ Executed(e, j) /\ n \in Limited(f) /\ Executed(f, n)
      BY <1>5, <1>10, <2>3
    <3>2. /\ val'[e][j] = val[e][j] /\ by'[e][j] = by[e][j] /\ HitsAddend(e)' = HitsAddend(e)
          /\ val'[f][n] = val[f][n] /\ by'[f][n] = by[f][n] /\ HitsAddend(f)' = HitsAddend(f)
      BY <3>1, ExecutedKept
    <3>3. Apart(e, j, f, n)
      BY <1>10, <3>1, <3>2 DEF CounterInv
    <3> QED BY <3>2, <3>3 DEF Apart
  <2> QED BY <2>1, <2>2, <2>3
<1> QED BY <1>7, <1>8, <1>10 DEF CounterInv

\* All of it is invariant.
LEMMA CounterInvariant == Spec => [](TypeOK /\ Progress /\ CounterInv)
<1>1. Init => Progress /\ CounterInv
  BY DEF Init, Progress, CounterInv, Indices, Limited, Executed
<1>2. TypeOK /\ TypeOK' /\ Progress /\ CounterInv /\ [Next]_vars => Progress' /\ CounterInv'
  <2> SUFFICES ASSUME TypeOK, TypeOK', Progress, CounterInv, [Next]_vars
               PROVE  Progress' /\ CounterInv'
    OBVIOUS
  <2>1. Progress'
    BY ProgressInductive
  <2>2. CounterInv'
    BY CounterInvKept, CounterInvIncr
  <2> QED BY <2>1, <2>2
<1> QED BY <1>1, <1>2, TypeCorrect, PTL DEF Spec

\* From one counter no more hits are granted than the limit allows, as long as
\* no counter reaches 2^32: for any number of calls and instances, any request
\* and any interleaving, clock skew, lost connection and reload included.
THEOREM CounterLimitHolds ==
    ASSUME MaxCount < UintRange PROVE Spec => []CounterLimit
<1>1. TypeOK /\ Progress /\ CounterInv => CounterLimit
  <2> SUFFICES ASSUME TypeOK, Progress, CounterInv,
                      NEW c \in Calls, NEW i \in Indices(c), Granted(c, i)
               PROVE  /\ Hits(c, i) \subseteq 1..OverLimitThreshold(c, i)
                      /\ \A e \in Calls : \A j \in Indices(e) :
                            Granted(e, j) /\ by[e][j] = by[c][i] /\ <<e, j>> # <<c, i>>
                              => Hits(c, i) \cap Hits(e, j) = {}
    BY DEF CounterLimit
  <2>1. i \in Limited(c) /\ Executed(c, i)
    BY DEF Granted, Progress, Executed
  <2>2. Consistent(c, i) /\ HitsAddend(c) \in Nat \ {0} /\ val[c][i] \in Nat
    BY <2>1, HitsNat DEF CounterInv, TypeOK
  <2>3. Uint(val[c][i]) = val[c][i]
    BY <2>2, UintSmall, ConstantsAssumption DEF Consistent
  <2>4. OverLimitThreshold(c, i) \in Nat
    BY <2>1 DEF OverLimitThreshold, Limited, TypeOK, Limits
  <2>5. val[c][i] <= OverLimitThreshold(c, i)
    BY <2>2, <2>3, <2>4 DEF Granted, IsOverLimit, LimitAfterIncrease
  <2>6. Hits(c, i) \subseteq 1..OverLimitThreshold(c, i)
    BY <2>2, <2>4, <2>5 DEF Hits, Consistent
  <2>7. ASSUME NEW e \in Calls, NEW j \in Indices(e),
               Granted(e, j), by[e][j] = by[c][i], <<e, j>> # <<c, i>>
        PROVE  Hits(c, i) \cap Hits(e, j) = {}
    <3>1. j \in Limited(e) /\ Executed(e, j)
      BY <2>7 DEF Granted, Progress, Executed
    <3>2. Apart(c, i, e, j)
      BY <2>1, <2>7, <3>1 DEF CounterInv
    <3>3. HitsAddend(e) \in Nat \ {0} /\ val[e][j] \in Nat
      BY <3>1, HitsNat DEF TypeOK
    <3> QED BY <2>2, <3>2, <3>3 DEF Apart, Hits
  <2> QED BY <2>6, <2>7
<1> QED BY <1>1, CounterInvariant, PTL

----------------------------------------------------------------------------
(***************************************************************************)
(* The limit of a window.  A counter that no clock ahead of time has       *)
(* created and whose calls agree on the unit lives until its window is     *)
(* over, so every call that is on time meets the same counter.  Nothing is *)
(* assumed of clocks, delays and reloads: they only decide which calls the *)
(* property speaks of.                                                     *)
(***************************************************************************)

\* No increment has been executed in the future.
IncrTimes ==
    \A c \in Calls : \A i \in Limited(c) : Executed(c, i) => incrAt[c][i] <= time

\* EXPIRE never ends the life of a steady counter before its window is over.
Lifetimes ==
    \A k \in DOMAIN redis : \A u \in Nat :
        redis[k].expireAt # NoExpiry /\ Steady(k, u) => redis[k].expireAt >= k[2] + u

\* An executed increment either still has its counter or its window is over.
Current(c, i) ==
    LET k == CacheKey(c, i) IN
    \/ k \in DOMAIN redis /\ redis[k].by = by[c][i]
    \/ time >= k[2] + limits[c][i].unit

\* Two increments of one window that were on time were executed on one counter.
OneCounter(c, i, e, j) ==
    (/\ CacheKey(e, j) = CacheKey(c, i) /\ Steady(CacheKey(c, i), limits[c][i].unit)
     /\ OnTime(c, i) /\ OnTime(e, j))
        => by[c][i] = by[e][j]

WindowInv ==
    /\ \A c \in Calls : \A i \in Limited(c) :
          Executed(c, i) /\ Steady(CacheKey(c, i), limits[c][i].unit) => Current(c, i)
    /\ \A c, e \in Calls : \A i \in Limited(c), j \in Limited(e) :
          Executed(c, i) /\ Executed(e, j) => OneCounter(c, i, e, j)

\* A counter that is steady has always been.
LEMMA SteadyBefore ==
    ASSUME TypeOK, Progress, [Next]_vars, NEW k, NEW u, Steady(k, u)'
    PROVE  Steady(k, u)
<1> SUFFICES ASSUME NEW c \in Calls, NEW i \in Indices(c), Executed(c, i), CacheKey(c, i) = k
             PROVE  limits[c][i].unit = u /\ k[2] <= incrAt[c][i]
  BY DEF Steady
<1>1. i \in Limited(c)
  BY DEF Executed
<1>2. /\ i \in Limited(c)' /\ Executed(c, i)' /\ CacheKey(c, i)' = k
      /\ limits'[c][i] = limits[c][i] /\ incrAt'[c][i] = incrAt[c][i]
  BY <1>1, ExecutedKept
<1>3. i \in Indices(c)'
  BY <1>2 DEF Limited
<1> QED BY <1>2, <1>3 DEF Steady

\* What a key and a limit are made of.
LEMMA KeyType ==
    ASSUME TypeOK, NEW c \in Calls, NEW i \in Limited(c)
    PROVE  CacheKey(c, i)[2] \in Nat /\ limits[c][i].unit \in Nat
<1>1. now[c] \in Nat /\ limits[c][i] \in Limits
  BY DEF TypeOK, Limited
<1>2. limits[c][i].unit \in Nat \ {0}
  BY <1>1 DEF Limits
<1>3. CacheKey(c, i)[2] = Window(now[c], limits[c][i].unit)
  BY DEF CacheKey
<1> QED BY <1>1, <1>2, <1>3, WindowBounds

\* Time does not go backwards.
LEMMA TimePasses == ASSUME TypeOK, [Next]_vars PROVE time' \in Nat /\ time <= time'
<1>1. time \in Nat
  BY DEF TypeOK
<1>2. CASE Tick
  BY <1>1, <1>2 DEF Tick
<1>3. ASSUME NEW c \in Calls, Handler(c) \/ Redis(c) PROVE time' = time
  BY <1>3 DEF Handler, ShouldRateLimit, DoLimit, NoConnection, PipeResponse, Return, RedisError,
     Redis, RedisIncrBy, RedisExpire, clock
<1>4. (\E i \in Instances, new \in Configs : ReloadConfig(i, new)) \/ UNCHANGED vars => time' = time
  BY DEF ReloadConfig, vars, clock
<1> QED BY <1>1, <1>2, <1>3, <1>4 DEF Next

LEMMA IncrTimesInductive ==
    ASSUME TypeOK, Progress, IncrTimes, [Next]_vars
    PROVE  IncrTimes'
<1> SUFFICES ASSUME NEW c \in Calls, NEW i \in Limited(c)', Executed(c, i)'
             PROVE  incrAt'[c][i] <= time'
  BY DEF IncrTimes
<1>1. CASE Executed(c, i)
  <2>1. i \in Limited(c) /\ i \in Indices(c)
    BY <1>1 DEF Executed, Limited
  <2>2. incrAt'[c][i] = incrAt[c][i] /\ incrAt[c][i] <= time
    BY <1>1, <2>1, ExecutedKept DEF IncrTimes
  <2>3. incrAt[c][i] \in Nat /\ time \in Nat
    BY <2>1 DEF TypeOK
  <2> QED BY <2>2, <2>3, TimePasses
<1>2. CASE ~Executed(c, i)
  <2>1. i \in Indices(c) /\ RedisIncrBy(c, i)
    BY <1>2, ExecutedNew
  <2>2. incrAt'[c][i] = time
    BY <2>1 DEF RedisIncrBy, TypeOK
  <2> QED BY <2>2, TimePasses DEF TypeOK
<1> QED BY <1>1, <1>2

LEMMA LifetimesInductive ==
    ASSUME TypeOK, Progress, IncrTimes, Lifetimes, [Next]_vars
    PROVE  Lifetimes'
<1> SUFFICES ASSUME NEW k \in DOMAIN redis', NEW u \in Nat,
                    redis'[k].expireAt # NoExpiry, Steady(k, u)'
             PROVE  redis'[k].expireAt >= k[2] + u
  BY DEF Lifetimes
<1>0. Steady(k, u)
  BY SteadyBefore
<1>1. ASSUME NEW c \in Calls, NEW i \in Indices(c), RedisIncrBy(c, i)
      PROVE  k \in DOMAIN redis /\ redis'[k].expireAt = redis[k].expireAt
  <2>1. PICK x : x = CacheKey(c, i)
    OBVIOUS
  <2>0. IncrByDone(c, i, x)
    BY <1>1, <2>1, IncrByEffect
  <2>2. /\ DOMAIN redis' = DOMAIN redis \cup {x}
        /\ \A y \in DOMAIN redis : y # x => redis'[y] = redis[y]
        /\ x \in DOMAIN redis => redis'[x].expireAt = redis[x].expireAt
        /\ x \notin DOMAIN redis => redis'[x].expireAt = NoExpiry
    BY <2>0 DEF IncrByDone
  <2> QED BY <2>2
<1>2. ASSUME NEW c \in Calls, NEW i \in Indices(c), NEW j \in Jitters, RedisExpire(c, i, j)
      PROVE  redis'[k].expireAt >= k[2] + u
  <2>0. k \in DOMAIN redis /\ redis[k] \in Counters
    BY <1>2 DEF RedisExpire, TypeOK
  <2>1. CASE k = CacheKey(c, i)
    <3>1. i \in Limited(c) /\ Executed(c, i)
      BY <1>2 DEF RedisExpire, Reached, Executed
    <3>2. limits[c][i].unit = u /\ k[2] <= incrAt[c][i] /\ incrAt[c][i] <= time
      BY <1>0, <2>1, <3>1 DEF Steady, IncrTimes
    <3>3. redis'[k] = [redis[k] EXCEPT !.expireAt = time + ExpirationSeconds(c, i, j)]
      BY <1>2, <2>0, <2>1 DEF Lifetime, RedisExpire
    <3>4. redis'[k].expireAt = time + (u + j)
      BY <2>0, <3>2, <3>3 DEF Counters, ExpirationSeconds
    <3>5. /\ j \in Nat
          /\ time \in Nat /\ incrAt[c][i] \in Nat
          /\ k[2] \in Nat
      <4>1. j \in Nat
        BY ConstantsAssumption DEF Jitters
      <4>2. time \in Nat /\ incrAt[c][i] \in Nat
        BY DEF TypeOK
      <4>3. k[2] \in Nat
        BY <2>1, <3>1, KeyType
      <4> QED BY <4>1, <4>2, <4>3
    <3> QED BY <3>2, <3>4, <3>5
  <2>2. CASE k # CacheKey(c, i)
    BY <1>0, <1>2, <2>0, <2>2 DEF RedisExpire, Lifetimes
  <2> QED BY <2>1, <2>2
<1>3. CASE Tick
  BY <1>0, <1>3 DEF Tick, Lifetimes
<1>4. ASSUME NEW c \in Calls, Handler(c)
      PROVE  UNCHANGED redis
  BY <1>4 DEF Handler, ShouldRateLimit, DoLimit, NoConnection, PipeResponse, Return, RedisError
<1>5. (\E i \in Instances, new \in Configs : ReloadConfig(i, new)) \/ UNCHANGED vars
        => UNCHANGED redis
  BY DEF ReloadConfig, vars
<1>6. CASE k \in DOMAIN redis /\ redis'[k].expireAt = redis[k].expireAt
  BY <1>0, <1>6 DEF Lifetimes
<1> QED BY <1>1, <1>2, <1>3, <1>4, <1>5, <1>6 DEF Next, Redis

\* An increment that was executed before keeps its counter, or its window ends.
LEMMA CurrentKept ==
    ASSUME TypeOK, TypeOK', Progress, Lifetimes, WindowInv, [Next]_vars,
           NEW e \in Calls, NEW j \in Limited(e), Executed(e, j),
           Steady(CacheKey(e, j), limits[e][j].unit)'
    PROVE  Current(e, j)'
<1>1. PICK k, u : k = CacheKey(e, j) /\ u = limits[e][j].unit
  OBVIOUS
<1>2. /\ CacheKey(e, j)' = k /\ limits'[e][j] = limits[e][j] /\ limits'[e][j].unit = u
      /\ by'[e][j] = by[e][j]
  BY <1>1, ExecutedKept
<1>3. Steady(k, u)
  <2>1. Steady(k, u)'
    BY <1>2
  <2> QED BY <2>1, SteadyBefore
<1>4. k[2] \in Nat /\ u \in Nat /\ time \in Nat /\ time' \in Nat /\ time <= time'
  BY <1>1, KeyType, TimePasses DEF TypeOK
<1>5. (k \in DOMAIN redis /\ redis[k].by = by[e][j]) \/ time >= k[2] + u
  BY <1>1, <1>3 DEF WindowInv, Current
<1>6. CASE time >= k[2] + u
  BY <1>2, <1>4, <1>6 DEF Current
<1>7. CASE k \in DOMAIN redis /\ redis[k].by = by[e][j]
  <2>1. ASSUME NEW c \in Calls, NEW i \in Indices(c), RedisIncrBy(c, i)
        PROVE  k \in DOMAIN redis' /\ redis'[k].by = redis[k].by
    <3>1. PICK x : x = CacheKey(c, i)
      OBVIOUS
    <3>2. IncrByDone(c, i, x)
      BY <2>1, <3>1, IncrByEffect
    <3> QED BY <1>7, <3>2 DEF IncrByDone
  <2>2. CASE \A c \in Calls : \A i \in Indices(c) : ~RedisIncrBy(c, i)
    <3>1. k \in DOMAIN redis' => redis'[k].by = redis[k].by
      BY <2>2, CountersKept
    <3>2. CASE Tick /\ k \notin DOMAIN redis'
      <4>1. redis[k].expireAt \in 0..time'
        BY <1>7, <3>2 DEF Tick
      <4>2. redis[k].expireAt >= k[2] + u
        BY <1>3, <1>4, <1>7, <4>1 DEF Lifetimes, NoExpiry
      <4>3. time' >= k[2] + u
        BY <1>4, <4>1, <4>2
      <4> QED BY <1>2, <4>3 DEF Current
    <3>3. CASE ~Tick
      <4>1. ASSUME NEW c \in Calls, Handler(c) \/ Redis(c)
            PROVE  DOMAIN redis' = DOMAIN redis
        BY <2>2, <4>1 DEF Handler, ShouldRateLimit, DoLimit, NoConnection, PipeResponse, Return,
           RedisError, Redis, RedisExpire
      <4>2. DOMAIN redis' = DOMAIN redis
        BY <3>3, <4>1 DEF Next, ReloadConfig, vars
      <4> QED BY <1>2, <1>7, <3>1, <4>2 DEF Current
    <3> QED BY <1>2, <1>7, <3>1, <3>2, <3>3 DEF Current
  <2> QED BY <1>2, <1>7, <2>1, <2>2 DEF Current
<1> QED BY <1>5, <1>6, <1>7

\* An increment that is executed on time meets the counter of those before it.
LEMMA MeetsCounter ==
    ASSUME TypeOK, TypeOK', Progress, WindowInv, [Next]_vars,
           NEW c \in Calls, NEW i \in Indices(c), RedisIncrBy(c, i), OnTime(c, i)',
           NEW e \in Calls, NEW j \in Limited(e), Executed(e, j),
           CacheKey(e, j) = CacheKey(c, i), Steady(CacheKey(c, i), limits[c][i].unit)'
    PROVE  by[e][j] = by'[c][i]
<1>1. PICK k, u : k = CacheKey(c, i) /\ u = limits[c][i].unit
  OBVIOUS
<1>2. /\ CacheKey(c, i)' = k /\ limits' = limits /\ i \in Limited(c)
      /\ incrAt'[c][i] = time
  BY <1>1 DEF RedisIncrBy, Reached, request, CacheKey, TypeOK
<1>3. Steady(k, u)
  <2>1. Steady(k, u)'
    BY <1>1, <1>2
  <2> QED BY <2>1, SteadyBefore
<1>4. limits[e][j].unit = u
  BY <1>1, <1>3 DEF Steady, Limited
<1>5. time < k[2] + u
  BY <1>1, <1>2 DEF OnTime
<1>6. k[2] \in Nat /\ u \in Nat /\ time \in Nat
  BY <1>1, <1>2, KeyType DEF TypeOK
<1>7. k \in DOMAIN redis /\ redis[k].by = by[e][j]
  BY <1>1, <1>3, <1>4, <1>5, <1>6 DEF WindowInv, Current
<1>8. IncrByDone(c, i, k)
  BY <1>1, IncrByEffect
<1> QED BY <1>7, <1>8 DEF IncrByDone

LEMMA WindowInvInductive ==
    ASSUME TypeOK, TypeOK', Progress, Lifetimes, WindowInv, [Next]_vars
    PROVE  WindowInv'
<1>0. \A e \in Calls : \A j \in Limited(e) : Executed(e, j) =>
         /\ j \in Limited(e)' /\ by'[e][j] = by[e][j]
         /\ limits'[e][j] = limits[e][j] /\ incrAt'[e][j] = incrAt[e][j]
         /\ CacheKey(e, j)' = CacheKey(e, j)
  BY ExecutedKept
<1>1. ASSUME NEW c \in Calls, NEW i \in Limited(c)', Executed(c, i)',
             Steady(CacheKey(c, i), limits[c][i].unit)'
      PROVE  Current(c, i)'
  <2>1. CASE Executed(c, i)
    <3>1. i \in Limited(c)
      BY <2>1 DEF Executed
    <3> QED BY <1>1, <2>1, <3>1, CurrentKept
  <2>2. CASE ~Executed(c, i)
    <3>1. i \in Indices(c) /\ RedisIncrBy(c, i)
      BY <1>1, <2>2, ExecutedNew
    <3>2. PICK k : k = CacheKey(c, i)
      OBVIOUS
    <3>3. IncrByDone(c, i, k)
      BY <3>1, <3>2, IncrByEffect
    <3>4. CacheKey(c, i)' = k
      BY <3>1, <3>2 DEF RedisIncrBy, request, CacheKey
    <3> QED BY <3>3, <3>4 DEF IncrByDone, Current
  <2> QED BY <2>1, <2>2
<1>2. ASSUME NEW c \in Calls, NEW e \in Calls, NEW i \in Limited(c)', NEW j \in Limited(e)',
             Executed(c, i)', Executed(e, j)',
             CacheKey(e, j)' = CacheKey(c, i)', Steady(CacheKey(c, i), limits[c][i].unit)',
             OnTime(c, i)', OnTime(e, j)'
      PROVE  by'[c][i] = by'[e][j]
  <2>0. Executed(c, i) => i \in Limited(c)
    BY DEF Executed
  <2>00. Executed(e, j) => j \in Limited(e)
    BY DEF Executed
  <2>1. CASE Executed(c, i) /\ Executed(e, j)
    <3>1. OneCounter(c, i, e, j)
      BY <2>0, <2>00, <2>1 DEF WindowInv
    <3>2. PICK k, u : k = CacheKey(c, i) /\ u = limits[c][i].unit
      OBVIOUS
    <3>3. /\ CacheKey(c, i)' = k /\ CacheKey(e, j) = k /\ limits'[c][i] = limits[c][i]
          /\ limits'[e][j] = limits[e][j]
          /\ incrAt'[c][i] = incrAt[c][i] /\ incrAt'[e][j] = incrAt[e][j]
          /\ by'[c][i] = by[c][i] /\ by'[e][j] = by[e][j]
      BY <1>0, <1>2, <2>0, <2>00, <2>1, <3>2
    <3>4. Steady(k, u)
      <4>1. Steady(k, u)'
        BY <1>2, <3>2, <3>3
      <4> QED BY <4>1, SteadyBefore
    <3>5. OnTime(c, i) /\ OnTime(e, j)
      BY <1>0, <1>2, <2>0, <2>00, <2>1 DEF OnTime
    <3> QED BY <3>1, <3>2, <3>3, <3>4, <3>5 DEF OneCounter
  <2>2. CASE ~Executed(c, i) /\ Executed(e, j)
    <3>1. i \in Indices(c) /\ RedisIncrBy(c, i)
      BY <1>2, <2>2, ExecutedNew
    <3>2. CacheKey(c, i)' = CacheKey(c, i) /\ limits' = limits
      BY <3>1 DEF RedisIncrBy, request, CacheKey
    <3>3. j \in Limited(e) /\ CacheKey(e, j) = CacheKey(c, i) /\ by'[e][j] = by[e][j]
      BY <1>0, <1>2, <2>00, <2>2, <3>2
    <3>4. by[e][j] = by'[c][i]
      BY <1>2, <2>2, <3>1, <3>2, <3>3, MeetsCounter
    <3> QED BY <3>3, <3>4
  <2>3. CASE Executed(c, i) /\ ~Executed(e, j)
    <3>1. j \in Indices(e) /\ RedisIncrBy(e, j)
      BY <1>2, <2>3, ExecutedNew
    <3>2. CacheKey(e, j)' = CacheKey(e, j) /\ limits' = limits
      BY <3>1 DEF RedisIncrBy, request, CacheKey
    <3>3. i \in Limited(c) /\ CacheKey(c, i) = CacheKey(e, j) /\ by'[c][i] = by[c][i]
      BY <1>0, <1>2, <2>0, <2>3, <3>2
    <3>4. Steady(CacheKey(e, j), limits[e][j].unit)'
      <4>1. limits'[e][j].unit = limits'[c][i].unit
        BY <1>2 DEF Steady, Limited
      <4> QED BY <1>2, <4>1
    <3>5. by[c][i] = by'[e][j]
      BY <1>2, <2>3, <3>1, <3>2, <3>3, <3>4, MeetsCounter
    <3> QED BY <3>3, <3>5
  <2>4. CASE ~Executed(c, i) /\ ~Executed(e, j)
    <3>1. i \in Indices(c) /\ RedisIncrBy(c, i) /\ j \in Indices(e) /\ RedisIncrBy(e, j)
      BY <1>2, <2>4, ExecutedNew
    <3>2. <<c, i>> = <<e, j>>
      <4> SUFFICES ASSUME <<c, i>> # <<e, j>> PROVE FALSE
        OBVIOUS
      <4>1. DOMAIN val = Calls /\ \A x \in Calls : DOMAIN val[x] = Indices(x)
        BY DEF TypeOK
      <4>2. val'[c][i] = val[c][i]
        BY <3>1, <4>1 DEF RedisIncrBy
      <4> QED BY <1>2, <3>1, <4>2 DEF Executed, RedisIncrBy
    <3> QED BY <3>2
  <2> QED BY <2>1, <2>2, <2>3, <2>4
<1> QED BY <1>1, <1>2 DEF WindowInv, OneCounter

\* The calls of a window that Redis served within it are granted different
\* hits of one counter, over all instances: for any clocks, delays, reloads and
\* lost connections, as long as no clock ahead of time and no change of the
\* unit touched the key of that window.
THEOREM WindowLimitHolds == Spec => []WindowLimit
<1> DEFINE Inv == IncrTimes /\ Lifetimes /\ WindowInv
<1>1. Init => Inv
  BY DEF Init, IncrTimes, Lifetimes, WindowInv, Limited, Indices
<1>2. TypeOK /\ TypeOK' /\ Progress /\ Inv /\ [Next]_vars => Inv'
  BY IncrTimesInductive, LifetimesInductive, WindowInvInductive
<1>3. TypeOK /\ Progress /\ CounterInv /\ WindowInv => WindowLimit
  <2> SUFFICES ASSUME TypeOK, Progress, CounterInv, WindowInv,
                      NEW c \in Calls, NEW e \in Calls,
                      NEW i \in Indices(c), NEW j \in Indices(e),
                      Granted(c, i), Granted(e, j), <<e, j>> # <<c, i>>,
                      CacheKey(e, j) = CacheKey(c, i),
                      Steady(CacheKey(c, i), limits[c][i].unit),
                      OnTime(c, i), OnTime(e, j)
               PROVE  Hits(c, i) \cap Hits(e, j) = {}
    BY DEF WindowLimit
  <2>1. i \in Limited(c) /\ Executed(c, i) /\ j \in Limited(e) /\ Executed(e, j)
    BY DEF Granted, Progress, Executed
  <2>2. by[e][j] = by[c][i]
    BY <2>1 DEF WindowInv, OneCounter
  <2>3. Apart(c, i, e, j)
    BY <2>1, <2>2 DEF CounterInv
  <2>4. HitsAddend(c) \in Nat \ {0} /\ val[c][i] \in Nat /\ HitsAddend(e) \in Nat \ {0} /\ val[e][j] \in Nat
    BY <2>1, HitsNat DEF TypeOK
  <2> QED BY <2>2, <2>3, <2>4 DEF Apart, Hits
<1> QED BY <1>1, <1>2, <1>3, CounterInvariant, PTL DEF Spec

----------------------------------------------------------------------------
(***************************************************************************)
(* Counters do not outlive their windows unless an EXPIRE is outstanding.  *)
(***************************************************************************)

\* Only RedisExpire sets expired, for a call that has been sent.
LEMMA ExpiredKept ==
    ASSUME TypeOK, Progress, [Next]_vars, NEW c \in Calls, NEW i \in Limited(c), Executed(c, i),
           \A j \in Jitters : ~RedisExpire(c, i, j)
    PROVE  expired'[c][i] = expired[c][i]
<1>0. DOMAIN expired = Calls /\ DOMAIN expired[c] = Indices(c) /\ i \in Indices(c)
  BY DEF TypeOK, Limited
<1>1. ASSUME NEW e \in Calls, NEW j \in Indices(e), NEW n \in Jitters, RedisExpire(e, j, n)
      PROVE  expired'[c][i] = expired[c][i]
  <2>1. <<e, j>> # <<c, i>>
    BY <1>1
  <2> QED BY <1>0, <1>1, <2>1 DEF RedisExpire
<1>2. ASSUME NEW e \in Calls, NEW k \in Instances, NEW r \in Requests, ShouldRateLimit(e, k, r)
      PROVE  expired'[c][i] = expired[c][i]
  <2>1. e # c
    BY <1>0, <1>2 DEF ShouldRateLimit, Progress, Executed
  <2> QED BY <1>0, <1>2, <2>1 DEF ShouldRateLimit, replies
<1>3. ASSUME NEW e \in Calls,
             \/ DoLimit(e) \/ NoConnection(e) \/ PipeResponse(e) \/ Return(e) \/ RedisError(e)
             \/ \E j \in Indices(e) : RedisIncrBy(e, j)
      PROVE  expired'[c][i] = expired[c][i]
  BY <1>3 DEF DoLimit, NoConnection, PipeResponse, Return, RedisError, RedisIncrBy, replies
<1>4. CASE Tick \/ (\E j \in Instances, new \in Configs : ReloadConfig(j, new)) \/ UNCHANGED vars
  BY <1>4 DEF Tick, ReloadConfig, vars, replies
<1> QED BY <1>1, <1>2, <1>3, <1>4 DEF Next, Handler, Redis

\* A step other than EXPIRE and INCRBY does not change a lifetime.
LEMMA LifetimeKept ==
    ASSUME TypeOK, [Next]_vars, NEW k \in DOMAIN redis', redis'[k].expireAt = NoExpiry,
           \A c \in Calls : \A i \in Indices(c) : ~RedisIncrBy(c, i)
    PROVE  /\ k \in DOMAIN redis /\ redis[k].expireAt = NoExpiry
           /\ \A c \in Calls : \A i \in Indices(c) : \A j \in Jitters :
                 RedisExpire(c, i, j) => CacheKey(c, i) # k
<1>1. ASSUME NEW c \in Calls, NEW i \in Indices(c), NEW j \in Jitters, RedisExpire(c, i, j)
      PROVE  k \in DOMAIN redis /\ redis[k].expireAt = NoExpiry /\ CacheKey(c, i) # k
  <2>1. k \in DOMAIN redis /\ redis[k] \in Counters
    BY <1>1 DEF RedisExpire, TypeOK
  <2>2. CacheKey(c, i) # k
    <3> SUFFICES ASSUME CacheKey(c, i) = k PROVE FALSE
      OBVIOUS
    <3>1. redis'[k] = [redis[k] EXCEPT !.expireAt = time + ExpirationSeconds(c, i, j)]
      BY <1>1, <2>1 DEF Lifetime, RedisExpire
    <3>2. redis'[k].expireAt = time + ExpirationSeconds(c, i, j)
      BY <2>1, <3>1 DEF Counters
    <3>3. i \in Limited(c)
      BY <1>1 DEF RedisExpire, Reached
    <3>4. limits[c][i] \in Limits /\ time \in Nat
      BY <3>3 DEF Limited, TypeOK
    <3>5. limits[c][i].unit \in Nat
      BY <3>4 DEF Limits
    <3>6. j \in Nat
      BY ConstantsAssumption DEF Jitters
    <3> QED BY <3>2, <3>4, <3>5, <3>6 DEF ExpirationSeconds, NoExpiry
  <2> QED BY <1>1, <2>1, <2>2 DEF RedisExpire
<1>2. CASE Tick
  <2>1. \A c \in Calls : \A i \in Indices(c) : \A j \in Jitters : ~RedisExpire(c, i, j)
    BY <1>2 DEF Tick, RedisExpire, clock, TypeOK
  <2> QED BY <1>2, <2>1 DEF Tick
<1>3. ASSUME NEW c \in Calls, Handler(c)
      PROVE  UNCHANGED redis
  BY <1>3 DEF Handler, ShouldRateLimit, DoLimit, NoConnection, PipeResponse, Return, RedisError
<1>4. (\E i \in Instances, new \in Configs : ReloadConfig(i, new)) \/ UNCHANGED vars
        => UNCHANGED redis
  BY DEF ReloadConfig, vars
<1> QED BY <1>1, <1>2, <1>3, <1>4 DEF Next, Redis

\* Every counter without a lifetime has an EXPIRE outstanding: no window's
\* counter is left in Redis for ever by calls that complete.
THEOREM CountersExpireHolds == Spec => []CountersExpire
<1>1. Init => CountersExpire
  BY DEF Init, CountersExpire
<1>2. TypeOK /\ TypeOK' /\ Progress /\ CountersExpire /\ [Next]_vars => CountersExpire'
  <2> SUFFICES ASSUME TypeOK, TypeOK', Progress, CountersExpire, [Next]_vars,
                      NEW k \in DOMAIN redis', redis'[k].expireAt = NoExpiry
               PROVE  \E c \in Calls : \E i \in Limited(c)' :
                         CacheKey(c, i)' = k /\ val'[c][i] # 0 /\ ~expired'[c][i]
    BY DEF CountersExpire
  <2>1. ASSUME k \in DOMAIN redis, redis[k].expireAt = NoExpiry,
               \A c \in Calls : \A i \in Indices(c) : \A j \in Jitters :
                  RedisExpire(c, i, j) => CacheKey(c, i) # k
        PROVE  \E c \in Calls : \E i \in Limited(c)' :
                  CacheKey(c, i)' = k /\ val'[c][i] # 0 /\ ~expired'[c][i]
    <3>0. PICK c \in Calls : \E i \in Limited(c) :
              CacheKey(c, i) = k /\ val[c][i] # 0 /\ ~expired[c][i]
      BY <2>1 DEF CountersExpire
    <3>1. PICK i \in Limited(c) : CacheKey(c, i) = k /\ val[c][i] # 0 /\ ~expired[c][i]
      BY <3>0
    <3>2. Executed(c, i)
      BY <3>1 DEF Executed
    <3>3. i \in Limited(c)' /\ val'[c][i] = val[c][i] /\ CacheKey(c, i)' = CacheKey(c, i)
      BY <3>2, ExecutedKept
    <3>4. \A j \in Jitters : ~RedisExpire(c, i, j)
      BY <2>1, <3>1 DEF Limited
    <3>5. expired'[c][i] = expired[c][i]
      BY <3>2, <3>4, ExpiredKept
    <3> QED BY <3>1, <3>3, <3>5
  <2>2. CASE \A c \in Calls : \A i \in Indices(c) : ~RedisIncrBy(c, i)
    BY <2>1, <2>2, LifetimeKept
  <2>3. ASSUME NEW c \in Calls, NEW i \in Indices(c), RedisIncrBy(c, i)
        PROVE  \E e \in Calls : \E j \in Limited(e)' :
                  CacheKey(e, j)' = k /\ val'[e][j] # 0 /\ ~expired'[e][j]
    <3>1. PICK x : x = CacheKey(c, i)
      OBVIOUS
    <3>2. IncrByDone(c, i, x)
      BY <2>3, <3>1, IncrByEffect
    <3>3. CASE k \in DOMAIN redis
      <4>1. redis[k].expireAt = NoExpiry
        BY <3>2, <3>3 DEF IncrByDone
      <4>2. \A e \in Calls : \A j \in Indices(e) : \A n \in Jitters : ~RedisExpire(e, j, n)
        <5> SUFFICES ASSUME NEW e \in Calls, NEW j \in Indices(e), NEW n \in Jitters,
                            RedisExpire(e, j, n)
                     PROVE  FALSE
          OBVIOUS
        <5>1. val'[c][i] = val[c][i]
          BY DEF RedisExpire
        <5>2. val'[c][i] # 0
          <6>1. HitsAddend(c) \in Nat \ {0} /\ (x \in DOMAIN redis => redis[x].count \in Nat)
            BY HitsNat DEF TypeOK, Counters
          <6> QED BY <3>2, <6>1 DEF IncrByDone
        <5> QED BY <3>2, <5>1, <5>2 DEF IncrByDone
      <4> QED BY <2>1, <3>3, <4>1, <4>2
    <3>4. CASE k \notin DOMAIN redis
      <4>1. k = x /\ i \in Limited(c) /\ val[c][i] = 0 /\ val'[c][i] # 0
        BY <3>2, <3>4, HitsNat DEF IncrByDone
      <4>2. UNCHANGED <<expired, request>>
        BY <2>3 DEF RedisIncrBy
      <4>3. ~expired[c][i]
        BY <4>1 DEF Progress
      <4> QED BY <3>1, <4>1, <4>2, <4>3 DEF CacheKey, Limited, Indices, request
    <3> QED BY <3>3, <3>4
  <2> QED BY <2>2, <2>3
<1> QED BY <1>1, <1>2, CounterInvariant, PTL DEF Spec
=============================================================================
