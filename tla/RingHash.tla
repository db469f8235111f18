------------------------------ MODULE RingHash -----------------------------
(***************************************************************************)
(* The lookup of the ring hash load balancer (common/upstream/             *)
(* ring_hash_lb.cc): hosts have several points each on a ring of hashes,   *)
(* sorted; a request goes to the first point at or after its hash, found   *)
(* by a binary search with signed bounds.                                  *)
(***************************************************************************)
EXTENDS Integers, Sequences, SequenceTheorems, TLAPS

CONSTANTS RhHosts,    \* number of hosts
          RhMinRing,  \* upstream.ring_hash.min_ring_size
          RhMaxHash   \* bound: hashes are 0..RhMaxHash

ASSUME RhAssumption == RhHosts \in Nat /\ RhMinRing \in Nat /\ RhMaxHash \in Nat

VARIABLE rh

\* Ring::create(): hashes_per_host rounds up.
rhHashesPerHost(n) ==
    IF n < RhMinRing THEN RhMinRing \div n + (IF RhMinRing % n # 0 THEN 1 ELSE 0) ELSE 1

RhSorted(ring) == \A i, j \in 1..Len(ring) : i <= j => ring[i] <= ring[j]

\* The sorted hashes of a ring for n hosts: std::hash may give any, points may
\* coincide.
RhRings(n) ==
    IF n = 0 THEN {<<>>}
    ELSE {r \in [1..(n * rhHashesPerHost(n)) -> 0..RhMaxHash] : RhSorted(r)}

\* reach is a history variable: 2 to the number of iterations.
rhFirst(ring, h) == [ring |-> ring, h |-> h, lowp |-> 0, highp |-> Len(ring), found |-> {}, reach |-> 1]

RhInit ==
    \E n \in 0..RhHosts : \E ring \in RhRings(n), h \in 0..RhMaxHash :
        rh = rhFirst(ring, h)

\* ring_[i], the code's indexes start at 0.
rhAt(p, i) == p.ring[i + 1]

\* Mutant: the point at the request's hash itself is taken for the next one.
rhInRangeOpen(p, mid) == p.h < rhAt(p, mid) /\ p.h >= (IF mid = 0 THEN 0 ELSE rhAt(p, mid - 1))

\* h <= midval && h > midval1
rhInRange(p, mid) == p.h <= rhAt(p, mid) /\ p.h > (IF mid = 0 THEN 0 ELSE rhAt(p, mid - 1))

rhMid(p) == (p.lowp + p.highp) \div 2

\* An iteration of the loop, up to its last statement.
rhNarrow(p) == IF rhAt(p, rhMid(p)) < p.h THEN [p EXCEPT !.lowp = rhMid(p) + 1]
               ELSE [p EXCEPT !.highp = rhMid(p) - 1]

rhDone(p, i) == [p EXCEPT !.found = {i}]

RhProbe ==
    /\ rh.found = {} /\ rh.ring # <<>>
    /\ LET p == [rh EXCEPT !.reach = 2 * @]
           q == rhNarrow(p)
       IN  rh' = IF rhMid(p) = Len(p.ring) THEN rhDone(p, 0)
                 ELSE IF rhInRange(p, rhMid(p)) THEN rhDone(p, rhMid(p))
                 ELSE IF q.lowp > q.highp THEN rhDone(q, 0) ELSE q

RhNext == RhProbe

RhSpec == RhInit /\ [][RhNext]_rh /\ WF_rh(RhProbe)

----------------------------------------------------------------------------
(***************************************************************************)
(* Properties.                                                             *)
(***************************************************************************)

\* The points at or after the request's hash; the first of them is the one, or
\* the first of the ring, and the search takes no more iterations than a binary
\* search should.
RhAfter == {i \in 0..(Len(rh.ring) - 1) : rhAt(rh, i) >= rh.h}

RhCorrect ==
    /\ \A i \in rh.found : (i \in RhAfter /\ \A j \in RhAfter : i <= j) \/ (RhAfter = {} /\ i = 0)
    /\ rh.reach <= 2 * (Len(rh.ring) + 1)

\* What the search keeps: the points below lowp are before the hash, those above
\* highp are not, nor is the point at highp once highp has moved; and each
\* iteration halves what is left.
RhHashes == 0..RhMaxHash
RhTables == Seq(RhHashes)
RhTypeOK ==
    /\ rh \in [ring : RhTables, h : RhHashes, lowp : Int, highp : Int, found : SUBSET Int, reach : Nat]
    /\ RhSorted(rh.ring) /\ rh.lowp \in 0..Len(rh.ring) /\ rh.highp \in -1..Len(rh.ring)
RhInv ==
    /\ RhTypeOK
    /\ \A i \in 0..(Len(rh.ring) - 1) : i < rh.lowp => rhAt(rh, i) < rh.h
    /\ \A i \in 0..(Len(rh.ring) - 1) : i > rh.highp => rhAt(rh, i) >= rh.h
    /\ rh.highp \in 0..(Len(rh.ring) - 1) => rhAt(rh, rh.highp) >= rh.h
    /\ rh.found = {} => rh.lowp <= rh.highp /\ rh.reach * (rh.highp - rh.lowp + 1) <= Len(rh.ring) + 1
    /\ RhCorrect

\* The search ends.
RhEnds == rh.ring # <<>> ~> rh.found # {}

----------------------------------------------------------------------------
(***************************************************************************)
(* The search is right for rings of every size and hashes of every width.  *)
(***************************************************************************)

\* Ring::create() makes rings that are sorted sequences of hashes.
LEMMA RhRingsSorted ==
    ASSUME NEW n \in 0..RhHosts, NEW ring \in RhRings(n)
    PROVE  ring \in RhTables /\ RhSorted(ring)
<1>1. CASE n = 0
  BY <1>1 DEF RhRings, RhSorted, RhTables
<1>2. CASE n # 0
  <2>1. n \in Nat /\ n > 0
    BY <1>2, RhAssumption
  <2>2. RhMinRing \div n \in Nat
    BY <2>1, RhAssumption
  <2>3. rhHashesPerHost(n) \in Nat
    BY <2>2 DEF rhHashesPerHost
  <2>4. n * rhHashesPerHost(n) \in Nat
    BY <2>1, <2>3
  <2>5. ring \in [1..(n * rhHashesPerHost(n)) -> RhHashes] /\ RhSorted(ring)
    BY <1>2 DEF RhRings, RhHashes
  <2>. QED
    BY <2>4, <2>5, SeqDef DEF RhTables
<1>. QED
  BY <1>1, <1>2

\* Half of what is left, twice as often, is no more than before.
LEMMA RhHalves ==
    ASSUME NEW reach \in Nat, NEW width \in Nat, NEW half \in Nat, 2 * half <= width
    PROVE  (2 * reach) * half <= reach * width
<1>1. reach * (2 * half) <= reach * width
  OBVIOUS
<1>2. (2 * reach) * half = reach * (2 * half)
  OBVIOUS
<1>. QED
  BY <1>1, <1>2

LEMMA RhInitInv == RhInit => RhInv
<1>1. SUFFICES ASSUME NEW n \in 0..RhHosts, NEW ring \in RhRings(n), NEW h \in 0..RhMaxHash,
                      rh = rhFirst(ring, h)
               PROVE  RhInv
  BY DEF RhInit
<1>2. ring \in RhTables /\ RhSorted(ring)
  BY RhRingsSorted
<1>3. Len(ring) \in Nat
  BY <1>2, LenProperties DEF RhTables
<1>4. rh \in [ring : RhTables, h : RhHashes, lowp : Int, highp : Int, found : SUBSET Int, reach : Nat]
  BY <1>1, <1>2, <1>3 DEF rhFirst, RhHashes
<1>. QED
  BY <1>1, <1>2, <1>3, <1>4 DEF RhInv, RhTypeOK, RhCorrect, RhAfter, rhFirst, rhAt

LEMMA RhNextInv == RhInv /\ [RhNext]_rh => RhInv'
<1>. SUFFICES ASSUME RhInv, [RhNext]_rh PROVE RhInv'
  OBVIOUS
<1>1. CASE UNCHANGED rh
  BY <1>1 DEF RhInv, RhTypeOK, RhCorrect, RhAfter, RhSorted, rhAt
<1>2. CASE RhProbe
  <2>. DEFINE n == Len(rh.ring)
              mid == (rh.lowp + rh.highp) \div 2
              at(i) == rh.ring[i + 1]
              p == [rh EXCEPT !.reach = 2 * rh.reach]
              Records == [ring : RhTables, h : RhHashes, lowp : Int, highp : Int, found : SUBSET Int, reach : Nat]
  <2>1. /\ rh \in Records
        /\ RhSorted(rh.ring) /\ rh.lowp \in 0..n /\ rh.highp \in -1..n
        /\ \A i \in 0..(n - 1) : i < rh.lowp => at(i) < rh.h
        /\ \A i \in 0..(n - 1) : i > rh.highp => at(i) >= rh.h
        /\ rh.highp \in 0..(n - 1) => at(rh.highp) >= rh.h
    BY DEF RhInv, RhTypeOK, rhAt
  <2>2. n \in Nat /\ rh.ring \in [1..n -> RhHashes]
    BY <2>1, LenProperties DEF RhTables
  <2>3. rh.found = {} /\ n > 0 /\ rh.lowp <= rh.highp /\ rh.reach * (rh.highp - rh.lowp + 1) <= n + 1
    <3>1. rh.found = {} /\ rh.ring # <<>>
      BY <1>2 DEF RhProbe
    <3>2. n > 0
      BY <3>1, <2>1, <2>2, EmptySeq DEF RhTables
    <3>. QED
      BY <3>1, <3>2 DEF RhInv
  <2>4. mid \in rh.lowp..rh.highp
    BY <2>1, <2>2, <2>3
  <2>5. \A i \in 0..(n - 1) : at(i) \in RhHashes
    BY <2>2
  <2>6. \A i, j \in 0..(n - 1) : i <= j => at(i) <= at(j)
    BY <2>1, <2>2 DEF RhSorted
  <2>7. /\ p \in Records
        /\ p.ring = rh.ring /\ p.h = rh.h /\ p.lowp = rh.lowp /\ p.highp = rh.highp
        /\ p.found = {} /\ p.reach = 2 * rh.reach
    BY <2>1, <2>3
  \* Every iteration but the first has halved what is left.
  <2>8. rh.reach <= n + 1
    <3>1. PICK w \in Nat : w = rh.highp - rh.lowp + 1 /\ w >= 1
      BY <2>1, <2>2, <2>3
    <3>2. rh.reach \in Nat /\ rh.reach * w >= rh.reach
      BY <3>1, <2>1
    <3>. QED
      BY <3>1, <3>2, <2>2, <2>3
  <2>a. /\ n \in Nat /\ rh.h \in Nat /\ rh.lowp \in Int /\ rh.highp \in Int /\ mid \in Int /\ rh.reach \in Nat
        /\ \A i \in 0..(n - 1) : at(i) \in Nat
    BY <2>1, <2>2, <2>5, RhAssumption DEF RhHashes
  <2>b. 2 * mid <= rh.lowp + rh.highp /\ 2 * mid >= rh.lowp + rh.highp - 1
    BY <2>1
  <2>. HIDE DEF p, n, mid, at
  <2>. DEFINE low == [p EXCEPT !.lowp = mid + 1]
              high == [p EXCEPT !.highp = mid - 1]
              Same == rh' \in Records /\ rh'.ring = rh.ring /\ rh'.h = rh.h /\ rh'.reach = 2 * rh.reach
  \* The bounds meet behind the last point: there is none at or after the hash.
  <2>9. CASE mid = n
    <3>1. rh' = [p EXCEPT !.found = {0}]
      BY <1>2, <2>7, <2>9 DEF RhProbe, rhMid, rhDone, p, n, mid
    <3>2. Same /\ rh'.lowp = rh.lowp /\ rh'.highp = rh.highp /\ rh'.found = {0}
      BY <3>1, <2>7
    <3>3. rh.lowp = n
      BY <2>1, <2>a, <2>4, <2>b, <2>9
    <3>4. \A i \in 0..(n - 1) : at(i) < rh.h /\ ~(at(i) >= rh.h)
      BY <3>3, <2>1, <2>a
    <3>5. RhTypeOK'
      BY <3>2, <2>1 DEF RhTypeOK, n
    <3>6. RhCorrect'
      <4>1. RhAfter' = {}
        BY <3>2, <3>4 DEF RhAfter, rhAt, n, at
      <4>. QED
        BY <4>1, <3>2, <2>a, <2>8 DEF RhCorrect, n
    <3>. HIDE DEF Records
    <3>. QED
      BY <3>2, <3>5, <3>6, <2>1, <2>a DEF RhInv, rhAt, n, at
  <2>10. CASE mid # n /\ rhInRange(p, mid)
    <3>1. rh' = [p EXCEPT !.found = {mid}]
      BY <1>2, <2>7, <2>10 DEF RhProbe, rhMid, rhDone, p, n, mid
    <3>2. mid \in 0..(n - 1)
      BY <2>1, <2>a, <2>4, <2>b, <2>10
    <3>3. Same /\ rh'.lowp = rh.lowp /\ rh'.highp = rh.highp /\ rh'.found = {mid}
      BY <3>1, <3>2, <2>a, <2>7
    <3>4. at(mid) >= rh.h /\ (mid # 0 => at(mid - 1) < rh.h)
      BY <3>2, <2>1, <2>a, <2>7, <2>10 DEF rhInRange, rhAt, at
    <3>5. \A j \in 0..(n - 1) : j < mid => at(j) < rh.h /\ ~(at(j) >= rh.h)
      <4>. SUFFICES ASSUME NEW j \in 0..(n - 1), j < mid PROVE at(j) < rh.h
        BY <2>1, <2>a
      <4>1. mid # 0 /\ mid - 1 \in 0..(n - 1) /\ j <= mid - 1
        BY <3>2, <2>a
      <4>. QED
        BY <4>1, <3>4, <2>1, <2>a, <2>6
    <3>6. RhTypeOK'
      BY <3>3, <2>1 DEF RhTypeOK, n
    <3>7. RhCorrect'
      <4>1. mid \in RhAfter'
        BY <3>2, <3>3, <3>4 DEF RhAfter, rhAt, n, at
      <4>2. \A j \in RhAfter' : mid <= j
        BY <3>2, <3>3, <3>5, <2>a DEF RhAfter, rhAt, n, at
      <4>. QED
        BY <4>1, <4>2, <3>3, <2>1, <2>a, <2>8 DEF RhCorrect, n
    <3>. HIDE DEF Records
    <3>. QED
      BY <3>3, <3>6, <3>7, <2>1, <2>a DEF RhInv, rhAt, n, at
  \* The point in the middle is before the hash, and highp is not: some are left.
  <2>11. CASE mid # n /\ ~rhInRange(p, mid) /\ at(mid) < rh.h
    <3>1. rh' = IF mid + 1 > rh.highp THEN [low EXCEPT !.found = {0}] ELSE low
      BY <1>2, <2>7, <2>11 DEF RhProbe, rhMid, rhDone, rhNarrow, rhAt, p, n, mid, at
    <3>2. mid \in 0..(n - 1)
      BY <2>1, <2>a, <2>4, <2>b, <2>11
    <3>3. mid + 1 <= rh.highp
      BY <3>2, <2>1, <2>a, <2>4, <2>b, <2>a, <2>11
    <3>4. Same /\ rh'.lowp = mid + 1 /\ rh'.highp = rh.highp /\ rh'.found = {}
      BY <3>1, <3>2, <3>3, <2>1, <2>a, <2>7
    <3>5. RhTypeOK'
      BY <3>2, <3>4, <2>1, <2>a DEF RhTypeOK, n
    <3>6. \A i \in 0..(n - 1) : i < mid + 1 => at(i) < rh.h
      BY <3>2, <2>1, <2>a, <2>6, <2>11
    <3>7. (2 * rh.reach) * (rh.highp - (mid + 1) + 1) <= n + 1
      <4>. DEFINE w == rh.highp - rh.lowp + 1
                  v == rh.highp - (mid + 1) + 1
      <4>1. w \in Nat /\ v \in Nat /\ 2 * v <= w
        BY <3>2, <3>3, <2>1, <2>a, <2>4, <2>b
      <4>2. rh.reach \in Nat
        BY <2>1
      <4>. HIDE DEF w, v
      <4>3. (2 * rh.reach) * v <= rh.reach * w
        BY <4>1, <4>2, RhHalves
      <4>4. rh.reach * w <= n + 1 /\ rh.reach * w \in Nat /\ (2 * rh.reach) * v \in Nat
        BY <4>1, <4>2, <2>3 DEF w
      <4>5. (2 * rh.reach) * v <= n + 1
        BY <4>3, <4>4, <2>a
      <4>. QED
        BY <4>5 DEF v
    <3>8. RhCorrect'
      BY <3>4, <2>1, <2>a, <2>8 DEF RhCorrect, n
    <3>. HIDE DEF Records
    <3>. QED
      BY <3>3, <3>4, <3>5, <3>6, <3>7, <3>8, <2>1, <2>a DEF RhInv, rhAt, n, at
  \* The point in the middle is at or after the hash, and is not the first that is.
  <2>12. CASE mid # n /\ ~rhInRange(p, mid) /\ ~(at(mid) < rh.h)
    <3>1. rh' = IF rh.lowp > mid - 1 THEN [high EXCEPT !.found = {0}] ELSE high
      BY <1>2, <2>7, <2>12 DEF RhProbe, rhMid, rhDone, rhNarrow, rhAt, p, n, mid, at
    <3>2. mid \in 0..(n - 1)
      BY <2>1, <2>a, <2>4, <2>b, <2>12
    <3>3. at(mid) >= rh.h /\ (mid # 0 => at(mid - 1) >= rh.h) /\ (mid = 0 => rh.h = 0)
      <4>1. ~(rh.h <= at(mid) /\ rh.h > (IF mid = 0 THEN 0 ELSE at(mid - 1)))
        BY <2>7, <2>12 DEF rhInRange, rhAt, at
      <4>2. at(mid) \in Nat /\ (mid # 0 => at(mid - 1) \in Nat)
        BY <3>2, <2>a
      <4>. QED
        BY <4>1, <4>2, <2>a, <2>12
    <3>4. \A i \in 0..(n - 1) : i > mid - 1 => at(i) >= rh.h
      BY <3>2, <3>3, <2>1, <2>a, <2>6
    \* Only a hash of zero brings the bounds to cross, and then the first point is the one.
    <3>5. CASE rh.lowp > mid - 1
      <4>1. mid = 0 /\ rh.lowp = 0
        BY <3>2, <3>3, <3>5, <2>1, <2>a, <2>4, <2>b, <2>a
      <4>2. Same /\ rh'.lowp = 0 /\ rh'.highp = -1 /\ rh'.found = {0}
        <5>1. high \in Records /\ high.ring = rh.ring /\ high.h = rh.h /\ high.reach = 2 * rh.reach
              /\ high.lowp = 0 /\ high.highp = -1
          BY <4>1, <2>7
        <5>2. rh' = [high EXCEPT !.found = {0}]
          BY <3>1, <3>5
        <5>. HIDE DEF high
        <5>. QED
          BY <5>1, <5>2
      <4>3. RhTypeOK'
        BY <4>2, <2>1, <2>a DEF RhTypeOK, n
      <4>4. RhCorrect'
        <5>1. 0 \in RhAfter' /\ \A j \in RhAfter' : 0 <= j
          BY <3>2, <3>3, <4>1, <4>2, <2>a DEF RhAfter, rhAt, n, at
        <5>. QED
          BY <5>1, <4>2, <2>1, <2>a, <2>8 DEF RhCorrect, n
      <4>5. \A i \in 0..(n - 1) : at(i) >= rh.h
        BY <3>4, <4>1
      <4>. HIDE DEF Records
      <4>. QED
        BY <4>2, <4>3, <4>4, <4>5, <2>1, <2>a DEF RhInv, rhAt, n, at
    <3>6. CASE ~(rh.lowp > mid - 1)
      <4>1. mid > 0 /\ rh.lowp <= mid - 1
        BY <3>2, <3>6, <2>1, <2>a
      <4>2. Same /\ rh'.lowp = rh.lowp /\ rh'.highp = mid - 1 /\ rh'.found = {}
        BY <3>1, <3>2, <3>6, <2>1, <2>a, <2>7
      <4>3. RhTypeOK'
        BY <3>2, <4>2, <2>1, <2>a DEF RhTypeOK, n
      <4>4. (2 * rh.reach) * (mid - 1 - rh.lowp + 1) <= n + 1
        <5>. DEFINE w == rh.highp - rh.lowp + 1
                    v == mid - 1 - rh.lowp + 1
        <5>1. w \in Nat /\ v \in Nat /\ 2 * v <= w
          BY <3>2, <4>1, <2>1, <2>a, <2>4, <2>b
        <5>2. rh.reach \in Nat
          BY <2>1
        <5>. HIDE DEF w, v
        <5>3. (2 * rh.reach) * v <= rh.reach * w
          BY <5>1, <5>2, RhHalves
        <5>4. rh.reach * w <= n + 1 /\ rh.reach * w \in Nat /\ (2 * rh.reach) * v \in Nat
          BY <5>1, <5>2, <2>3 DEF w
        <5>5. (2 * rh.reach) * v <= n + 1
          BY <5>3, <5>4, <2>a
        <5>. QED
          BY <5>5 DEF v
      <4>5. RhCorrect'
        BY <4>2, <2>1, <2>a, <2>8 DEF RhCorrect, n
      <4>. HIDE DEF Records
      <4>. QED
        BY <3>2, <3>3, <3>4, <4>1, <4>2, <4>3, <4>4, <4>5, <2>1, <2>a DEF RhInv, rhAt, n, at
    <3>. QED
      BY <3>5, <3>6
  <2>. QED
    BY <2>9, <2>10, <2>11, <2>12
<1>. QED
  BY <1>1, <1>2 DEF RhNext

\* The ring hash balancer's lookup gives, for every ring and every hash, the first
\* point at or after the hash, or the ring's first point where there is none, and
\* takes no more iterations than the logarithm of the ring's size.
THEOREM RhCorrectHolds == RhSpec => []RhCorrect
<1>1. RhInv => RhCorrect
  BY DEF RhInv
<1>. QED
  BY <1>1, RhInitInv, RhNextInv, PTL DEF RhSpec

=============================================================================
