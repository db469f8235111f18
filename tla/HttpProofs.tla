----------------------------- MODULE HttpProofs -----------------------------
(***************************************************************************)
(* Proofs about the way of a request to an upstream.  Both connection      *)
(* pools of HttpConnPools are sound and implement StreamPool, for any      *)
(* number of streams, connections and any limits; the router filter of     *)
(* Router is sound for any body, buffer limit, retry policy and timeouts;  *)
(* a connection of ConnectionManager is, for any number of requests.       *)
(***************************************************************************)
EXTENDS MCUpstream, ConnectionManager, Integers, TLAPS, FiniteSetTheorems

(***************************************************************************)
(* The HTTP/1.1 connection pool.  Its lists are sequences: first, what     *)
(* taking and adding does to the elements of one without duplicates.       *)
(***************************************************************************)

H1Distinct(q) == \A i, j \in DOMAIN q : q[i] = q[j] => i = j

\* A list without its k-th element.
LEMMA H1RemovedSeq ==
    ASSUME NEW S, NEW q \in Seq(S), NEW k \in 1..Len(q)
    PROVE  /\ h1Removed(q, k) \in Seq(S)
           /\ Len(h1Removed(q, k)) = Len(q) - 1
           /\ \A i \in 1..(Len(q) - 1) : h1Removed(q, k)[i] = IF i < k THEN q[i] ELSE q[i + 1]
<1>. DEFINE a == SubSeq(q, 1, k - 1)
            b == SubSeq(q, k + 1, Len(q))
<1>1. a \in Seq(S) /\ b \in Seq(S)
  OBVIOUS
<1>2. Len(a) = k - 1 /\ Len(b) = Len(q) - k
  OBVIOUS
<1>3. \A i \in 1..(k - 1) : a[i] = q[i]
  OBVIOUS
<1>4. \A i \in 1..(Len(q) - k) : b[i] = q[k + i]
  OBVIOUS
<1>. HIDE DEF a, b
<1>5. a \o b \in Seq(S) /\ Len(a \o b) = Len(q) - 1
  BY <1>1, <1>2
<1>6. \A i \in 1..(Len(q) - 1) : (a \o b)[i] = IF i < k THEN a[i] ELSE b[i - (k - 1)]
  BY <1>1, <1>2
<1>7. ASSUME NEW i \in 1..(Len(q) - 1) PROVE (a \o b)[i] = IF i < k THEN q[i] ELSE q[i + 1]
  <2>1. CASE i < k
    <3>1. i \in 1..(k - 1)
      BY <2>1
    <3>. QED
      BY <1>3, <1>6, <2>1, <3>1
  <2>2. CASE ~(i < k)
    <3>1. i - (k - 1) \in 1..(Len(q) - k) /\ k + (i - (k - 1)) = i + 1
      BY <2>2
    <3>. QED
      BY <1>4, <1>6, <2>2, <3>1
  <2>. QED
    BY <2>1, <2>2
<1>8. h1Removed(q, k) = a \o b
  BY DEF h1Removed, a, b
<1>. QED
  BY <1>5, <1>7, <1>8

LEMMA H1RemovedElements ==
    ASSUME NEW S, NEW q \in Seq(S), H1Distinct(q), NEW k \in 1..Len(q)
    PROVE  /\ H1Distinct(h1Removed(q, k))
           /\ H1Elements(h1Removed(q, k)) = H1Elements(q) \ {q[k]}
<1>. DEFINE r == h1Removed(q, k)
<1>1. r \in Seq(S) /\ Len(r) = Len(q) - 1 /\ \A i \in 1..(Len(q) - 1) : r[i] = IF i < k THEN q[i] ELSE q[i + 1]
  BY H1RemovedSeq
<1>. HIDE DEF r
<1>2. DOMAIN r = 1..(Len(q) - 1) /\ DOMAIN q = 1..Len(q) /\ Len(q) \in Nat
  BY <1>1
<1>3. H1Distinct(r)
  <2>. SUFFICES ASSUME NEW i \in DOMAIN r, NEW j \in DOMAIN r, r[i] = r[j] PROVE i = j
    BY DEF H1Distinct
  <2>. DEFINE x == IF i < k THEN i ELSE i + 1
              y == IF j < k THEN j ELSE j + 1
  <2>1. x \in DOMAIN q /\ y \in DOMAIN q /\ r[i] = q[x] /\ r[j] = q[y]
    BY <1>1, <1>2
  <2>2. x = y
    BY <2>1 DEF H1Distinct
  <2>. QED
    BY <1>2, <2>2
<1>4. \A i \in DOMAIN r : r[i] \in H1Elements(q) /\ r[i] # q[k]
  BY <1>1, <1>2 DEF H1Distinct, H1Elements
<1>5. ASSUME NEW i \in DOMAIN q, i # k PROVE q[i] \in H1Elements(r)
  <2>1. CASE i < k
    BY <2>1, <1>1, <1>2 DEF H1Elements
  <2>2. CASE i > k
    <3>1. i - 1 \in DOMAIN r /\ r[i - 1] = q[i]
      BY <2>2, <1>1, <1>2
    <3>. QED
      BY <3>1 DEF H1Elements
  <2>. QED
    BY <2>1, <2>2, <1>5, <1>2
<1>. QED
  BY <1>3, <1>4, <1>5 DEF H1Elements, r

\* An element is put in front, or at the end, or the first one is taken.
LEMMA H1ConsElements ==
    ASSUME NEW S, NEW q \in Seq(S), H1Distinct(q), NEW c \in S, c \notin H1Elements(q)
    PROVE  /\ <<c>> \o q \in Seq(S) /\ Len(<<c>> \o q) = Len(q) + 1
           /\ H1Distinct(<<c>> \o q) /\ H1Elements(<<c>> \o q) = H1Elements(q) \cup {c}
<1>. DEFINE r == <<c>> \o q
<1>1. r \in Seq(S) /\ Len(r) = Len(q) + 1
  OBVIOUS
<1>2. \A i \in 1..(Len(q) + 1) : r[i] = IF i = 1 THEN c ELSE q[i - 1]
  OBVIOUS
<1>. HIDE DEF r
<1>3. DOMAIN r = 1..(Len(q) + 1) /\ DOMAIN q = 1..Len(q) /\ Len(q) \in Nat
  BY <1>1
<1>4. \A i \in DOMAIN q : q[i] # c
  BY DEF H1Elements
<1>5. H1Distinct(r)
  <2>. SUFFICES ASSUME NEW i \in DOMAIN r, NEW j \in DOMAIN r, r[i] = r[j] PROVE i = j
    BY DEF H1Distinct
  <2>1. CASE i = 1 \/ j = 1
    BY <1>2, <1>3, <1>4, <2>1
  <2>2. CASE i # 1 /\ j # 1
    <3>1. i - 1 \in DOMAIN q /\ j - 1 \in DOMAIN q /\ q[i - 1] = q[j - 1]
      BY <1>2, <1>3, <2>2
    <3>2. i - 1 = j - 1
      BY <3>1 DEF H1Distinct
    <3>. QED
      BY <1>3, <3>2
  <2>. QED
    BY <2>1, <2>2
<1>6. \A i \in DOMAIN r : r[i] \in H1Elements(q) \cup {c}
  BY <1>2, <1>3 DEF H1Elements
<1>7. c \in H1Elements(r)
  <2>1. 1 \in DOMAIN r /\ r[1] = c
    BY <1>2, <1>3
  <2>. QED
    BY <2>1 DEF H1Elements
<1>8. ASSUME NEW i \in DOMAIN q PROVE q[i] \in H1Elements(r)
  <2>1. i + 1 \in DOMAIN r /\ r[i + 1] = q[i]
    BY <1>2, <1>3
  <2>. QED
    BY <2>1 DEF H1Elements
<1>. QED
  BY <1>1, <1>5, <1>6, <1>7, <1>8 DEF H1Elements, r

LEMMA H1AppendElements ==
    ASSUME NEW S, NEW q \in Seq(S), H1Distinct(q), NEW c \in S, c \notin H1Elements(q)
    PROVE  /\ Append(q, c) \in Seq(S) /\ Len(Append(q, c)) = Len(q) + 1
           /\ H1Distinct(Append(q, c)) /\ H1Elements(Append(q, c)) = H1Elements(q) \cup {c}
<1>. DEFINE r == Append(q, c)
<1>1. r \in Seq(S) /\ Len(r) = Len(q) + 1
  OBVIOUS
<1>2. \A i \in 1..(Len(q) + 1) : r[i] = IF i = Len(q) + 1 THEN c ELSE q[i]
  OBVIOUS
<1>. HIDE DEF r
<1>3. DOMAIN r = 1..(Len(q) + 1) /\ DOMAIN q = 1..Len(q) /\ Len(q) \in Nat
  BY <1>1
<1>4. \A i \in DOMAIN q : q[i] # c
  BY DEF H1Elements
<1>5. H1Distinct(r)
  BY <1>2, <1>3, <1>4 DEF H1Distinct
<1>6. \A i \in DOMAIN r : r[i] \in H1Elements(q) \cup {c}
  BY <1>2, <1>3 DEF H1Elements
<1>7. c \in H1Elements(r)
  <2>1. Len(q) + 1 \in DOMAIN r /\ r[Len(q) + 1] = c
    BY <1>2, <1>3
  <2>. QED
    BY <2>1 DEF H1Elements
<1>8. ASSUME NEW i \in DOMAIN q PROVE q[i] \in H1Elements(r)
  <2>1. i \in DOMAIN r /\ r[i] = q[i]
    BY <1>2, <1>3
  <2>. QED
    BY <2>1 DEF H1Elements
<1>. QED
  BY <1>1, <1>5, <1>6, <1>7, <1>8 DEF H1Elements, r

LEMMA H1TailElements ==
    ASSUME NEW S, NEW q \in Seq(S), H1Distinct(q), q # <<>>
    PROVE  /\ q[1] \in S /\ q[1] \in H1Elements(q) /\ Tail(q) \in Seq(S) /\ Len(Tail(q)) = Len(q) - 1 /\ Len(q) > 0
           /\ H1Distinct(Tail(q)) /\ H1Elements(Tail(q)) = H1Elements(q) \ {q[1]}
<1>. DEFINE r == Tail(q)
<1>1. Len(q) \in Nat /\ Len(q) > 0 /\ 1 \in DOMAIN q /\ q[1] \in S
  OBVIOUS
<1>2. r \in Seq(S) /\ Len(r) = Len(q) - 1
  OBVIOUS
<1>3. \A i \in 1..(Len(q) - 1) : r[i] = q[i + 1]
  OBVIOUS
<1>. HIDE DEF r
<1>4. DOMAIN r = 1..(Len(q) - 1) /\ DOMAIN q = 1..Len(q)
  BY <1>2
<1>5. H1Distinct(r)
  <2>. SUFFICES ASSUME NEW i \in DOMAIN r, NEW j \in DOMAIN r, r[i] = r[j] PROVE i = j
    BY DEF H1Distinct
  <2>1. i + 1 \in DOMAIN q /\ j + 1 \in DOMAIN q /\ q[i + 1] = q[j + 1]
    BY <1>1, <1>3, <1>4
  <2>2. i + 1 = j + 1
    BY <2>1 DEF H1Distinct
  <2>. QED
    BY <1>4, <2>2
<1>6. \A i \in DOMAIN r : r[i] \in H1Elements(q) \ {q[1]}
  BY <1>1, <1>3, <1>4 DEF H1Elements, H1Distinct
<1>7. ASSUME NEW i \in DOMAIN q, i # 1 PROVE q[i] \in H1Elements(r)
  <2>1. i - 1 \in DOMAIN r /\ r[i - 1] = q[i]
    BY <1>1, <1>3, <1>4, <1>7
  <2>. QED
    BY <2>1 DEF H1Elements
<1>8. q[1] \in H1Elements(q)
  BY <1>1 DEF H1Elements
<1>. QED
  BY <1>1, <1>2, <1>5, <1>6, <1>7, <1>8 DEF H1Elements, r

LEMMA H1WithoutElements ==
    ASSUME NEW S, NEW q \in Seq(S), H1Distinct(q), NEW x \in H1Elements(q)
    PROVE  \E k \in 1..Len(q) :
              /\ q[k] = x /\ h1Without(q, x) = h1Removed(q, k)
              /\ h1Without(q, x) \in Seq(S) /\ Len(h1Without(q, x)) = Len(q) - 1 /\ Len(q) > 0
              /\ H1Distinct(h1Without(q, x)) /\ H1Elements(h1Without(q, x)) = H1Elements(q) \ {x}
<1>. DEFINE k == CHOOSE k \in DOMAIN q : q[k] = x
<1>1. k \in DOMAIN q /\ q[k] = x
  BY DEF H1Elements
<1>2. h1Without(q, x) = h1Removed(q, k)
  BY DEF h1Without
<1>. HIDE DEF k
<1>3. k \in 1..Len(q) /\ Len(q) \in Nat
  BY <1>1
<1>4. h1Removed(q, k) \in Seq(S) /\ Len(h1Removed(q, k)) = Len(q) - 1
  BY <1>3, H1RemovedSeq
<1>5. H1Distinct(h1Removed(q, k)) /\ H1Elements(h1Removed(q, k)) = H1Elements(q) \ {q[k]}
  BY <1>3, H1RemovedElements
<1>6. Len(q) > 0
  BY <1>3
<1>. QED
  BY <1>1, <1>2, <1>3, <1>4, <1>5, <1>6

LEMMA H1EmptyList ==
    ASSUME NEW S
    PROVE  H1Elements(<<>>) = {} /\ H1Distinct(<<>>) /\ <<>> \in Seq(S) /\ Len(<<>>) = 0
  BY DEF H1Elements, H1Distinct

LEMMA H1NoElements ==
    ASSUME NEW S, NEW q \in Seq(S)
    PROVE  /\ q = <<>> <=> H1Elements(q) = {}
           /\ q = <<>> <=> Len(q) = 0
           /\ Len(q) \in Nat /\ H1Elements(q) \subseteq S
<1>1. Len(q) \in Nat /\ DOMAIN q = 1..Len(q) /\ (q = <<>> <=> Len(q) = 0) /\ \A i \in 1..Len(q) : q[i] \in S
  OBVIOUS
<1>2. H1Elements(<<>>) = {}
  BY H1EmptyList
<1>3. q # <<>> => q[1] \in H1Elements(q)
  BY <1>1 DEF H1Elements
<1>4. H1Elements(q) \subseteq S
  BY <1>1 DEF H1Elements
<1>. QED
  BY <1>1, <1>2, <1>3, <1>4

----------------------------------------------------------------------------
H1Outcomes == {"new", "pending", "active", "complete", "reset", "failed", "cancelled", "overflow"}
H1StreamMap == [H1Streams -> H1Outcomes]
H1WrapperMap == [H1Clients -> H1Streams \cup {"none"}]
H1CountMap == [H1Clients -> Nat]
H1Queues == Seq(H1Streams)
H1Lists == Seq(H1Clients)
H1State == [stream : H1StreamMap, pending : H1Queues, ready : H1Lists, busy : SUBSET H1Clients,
            deleted : SUBSET H1Clients, timer : SUBSET H1Clients, wrapper : H1WrapperMap, sent : SUBSET H1Clients,
            remaining : H1CountMap, draining : BOOLEAN, drained : Nat]

\* What holds between any two calls inside a handler; the clients of X are between two
\* lists or two streams just now.
H1Waits(p) ==
    /\ H1Distinct(p.pending) /\ Len(p.pending) <= H1MaxPending
    /\ H1Elements(p.pending) = {s \in H1Streams : p.stream[s] = "pending"}

H1Listed(p, X) ==
    /\ H1Distinct(p.ready)
    /\ p.busy \cap H1Elements(p.ready) = {} /\ p.deleted \cap (p.busy \cup H1Elements(p.ready)) = {}
    /\ p.timer \subseteq p.busy
    /\ \A c \in H1Clients : p.wrapper[c] # "none" => c \in p.busy /\ c \notin p.timer
    /\ \A c \in p.busy \ X : c \in p.timer \/ p.wrapper[c] # "none"

H1Served(p, X) ==
    /\ \A c \in H1Clients \ X : p.wrapper[c] # "none" => p.stream[p.wrapper[c]] = "active"
    /\ \A c, d \in H1Clients \ X : p.wrapper[c] = p.wrapper[d] /\ p.wrapper[c] # "none" => c = d
    /\ \A s \in H1Streams : p.stream[s] = "active" => \E c \in H1Clients \ X : p.wrapper[c] = s

H1Base(p, X) == p \in H1State /\ H1Waits(p) /\ H1Listed(p, X) /\ H1Served(p, X)

\* What holds in addition when a client is lost and replaced, and at the end of a handler.
H1Size(p) == Len(p.ready) + Cardinality(p.busy)
H1Limit == IF H1MaxConnections = 0 THEN 1 ELSE H1MaxConnections
H1Fed(p) == p.pending # <<>> => p.ready = <<>> /\ p.busy # {}
H1Calm(p, X) == H1Base(p, X) /\ H1Fed(p) /\ H1Size(p) <= H1Limit /\ p.drained = 0

H1Over(p) == p.drained = 1 /\ p.draining /\ p.pending = <<>> /\ p.busy = {} /\ p.ready = <<>>
H1OK(p) == H1Base(p, {}) /\ H1Fed(p) /\ H1Size(p) <= H1Limit /\ (p.drained = 0 \/ H1Over(p))
H1Inv == H1OK(h1)

LEMMA H1Types ==
    ASSUME NEW p \in H1State
    PROVE  /\ p.stream \in H1StreamMap /\ p.pending \in H1Queues /\ p.ready \in H1Lists /\ p.busy \subseteq H1Clients
           /\ p.deleted \subseteq H1Clients /\ p.timer \subseteq H1Clients /\ p.wrapper \in H1WrapperMap
           /\ p.sent \subseteq H1Clients /\ p.remaining \in H1CountMap /\ p.draining \in BOOLEAN /\ p.drained \in Nat
           /\ \A s \in H1Streams : p.stream[s] \in H1Outcomes
           /\ \A c \in H1Clients : p.wrapper[c] \in H1Streams \cup {"none"} /\ p.remaining[c] \in Nat
<1>1. /\ p.stream \in H1StreamMap /\ p.pending \in H1Queues /\ p.ready \in H1Lists /\ p.busy \subseteq H1Clients
      /\ p.deleted \subseteq H1Clients /\ p.timer \subseteq H1Clients /\ p.wrapper \in H1WrapperMap
      /\ p.sent \subseteq H1Clients /\ p.remaining \in H1CountMap /\ p.draining \in BOOLEAN /\ p.drained \in Nat
  BY DEF H1State
<1>. QED
  BY <1>1 DEF H1StreamMap, H1WrapperMap, H1CountMap

\* The lists of p as sequences and sets, and how many clients they hold.
LEMMA H1Counts ==
    ASSUME NEW p \in H1State
    PROVE  /\ Len(p.ready) \in Nat /\ (p.ready = <<>> <=> Len(p.ready) = 0) /\ (p.ready = <<>> <=> H1Elements(p.ready) = {})
           /\ Len(p.pending) \in Nat /\ (p.pending = <<>> <=> Len(p.pending) = 0)
           /\ (p.pending = <<>> <=> H1Elements(p.pending) = {})
           /\ H1Elements(p.ready) \subseteq H1Clients /\ H1Elements(p.pending) \subseteq H1Streams
           /\ IsFiniteSet(p.busy) /\ Cardinality(p.busy) \in Nat /\ (p.busy = {} <=> Cardinality(p.busy) = 0)
           /\ IsFiniteSet(h1Alive(p)) /\ Cardinality(p.busy) <= Cardinality(h1Alive(p))
<1>1. p.pending \in Seq(H1Streams) /\ p.ready \in Seq(H1Clients) /\ p.busy \subseteq H1Clients /\ p.deleted \subseteq H1Clients
  BY H1Types DEF H1Queues, H1Lists
<1>2. /\ Len(p.ready) \in Nat /\ (p.ready = <<>> <=> Len(p.ready) = 0) /\ (p.ready = <<>> <=> H1Elements(p.ready) = {})
      /\ H1Elements(p.ready) \subseteq H1Clients
  BY <1>1, H1NoElements
<1>3. /\ Len(p.pending) \in Nat /\ (p.pending = <<>> <=> Len(p.pending) = 0)
      /\ (p.pending = <<>> <=> H1Elements(p.pending) = {}) /\ H1Elements(p.pending) \subseteq H1Streams
  BY <1>1, H1NoElements
<1>4. IsFiniteSet(p.busy) /\ Cardinality(p.busy) \in Nat /\ (p.busy = {} <=> Cardinality(p.busy) = 0)
  BY <1>1, H1Assumption, FS_Subset, FS_CardinalityType, FS_EmptySet
<1>5. h1Alive(p) \subseteq H1Clients /\ p.busy \subseteq h1Alive(p)
  BY <1>1, <1>2 DEF h1Alive
<1>6. IsFiniteSet(h1Alive(p)) /\ Cardinality(p.busy) <= Cardinality(h1Alive(p))
  BY <1>5, H1Assumption, FS_Subset
<1>. QED
  BY <1>2, <1>3, <1>4, <1>6

\* createNewConnection(): an unused client is busy, with a connect timer.
LEMMA H1CreateBase ==
    ASSUME NEW p, H1Base(p, {}), h1Unused(p) # {}
    PROVE  LET q == h1CreateNewConnection(p)
           IN  /\ H1Base(q, {}) /\ q.stream = p.stream /\ q.pending = p.pending /\ q.ready = p.ready /\ q.busy # {}
               /\ Cardinality(q.busy) = Cardinality(p.busy) + 1
               /\ q.draining = p.draining /\ q.drained = p.drained
<1>. DEFINE c == CHOOSE c \in h1Unused(p) : TRUE
            b == p.busy \cup {c}
            t == p.timer \cup {c}
            m == [p.remaining EXCEPT ![c] = H1MaxRequests]
            q == [p EXCEPT !.busy = b, !.timer = t, !.remaining = m]
<1>1. p \in H1State /\ H1Waits(p) /\ H1Listed(p, {}) /\ H1Served(p, {})
  BY DEF H1Base
<1>2. h1CreateNewConnection(p) = q
  BY DEF h1CreateNewConnection
<1>3. c \in h1Unused(p)
  OBVIOUS
<1>. HIDE DEF c
<1>4. c \in H1Clients /\ c \notin H1Elements(p.ready) /\ c \notin p.busy /\ c \notin p.deleted
  BY <1>3 DEF h1Unused, h1Alive
<1>5. b \subseteq H1Clients /\ t \subseteq H1Clients /\ m \in H1CountMap
  BY <1>1, <1>4, H1Types, H1Assumption DEF H1CountMap
<1>6. IsFiniteSet(p.busy) /\ Cardinality(b) = Cardinality(p.busy) + 1
  BY <1>1, <1>4, H1Counts, FS_AddElement
<1>7. b = p.busy \cup {c} /\ t = p.timer \cup {c} /\ b # {}
  OBVIOUS
<1>. HIDE DEF b, t, m
<1>8. q \in H1State
  BY <1>1, <1>5 DEF H1State
<1>9. /\ q.stream = p.stream /\ q.pending = p.pending /\ q.ready = p.ready /\ q.busy = b /\ q.deleted = p.deleted
      /\ q.timer = t /\ q.wrapper = p.wrapper /\ q.draining = p.draining /\ q.drained = p.drained
  BY <1>1 DEF H1State
<1>. HIDE DEF q
<1>10. H1Waits(q) /\ H1Served(q, {})
  BY <1>1, <1>9 DEF H1Waits, H1Served
<1>11. H1Listed(q, {})
  BY <1>1, <1>4, <1>7, <1>9 DEF H1Listed
<1>. QED
  BY <1>2, <1>6, <1>7, <1>8, <1>9, <1>10, <1>11 DEF H1Base

\* Without busy clients there is no stream in flight.
LEMMA H1NoneRuns ==
    ASSUME NEW p, H1Base(p, {}), p.busy = {}
    PROVE  \A s \in H1Streams : p.stream[s] # "active"
  BY H1Assumption DEF H1Base, H1Listed, H1Served

\* What checkForDrained() does to the rest of the pool: it calls the drained callbacks
\* once, when nothing waits or runs.
H1Checked(p, q) ==
    /\ q.stream = p.stream /\ q.pending = p.pending /\ q.draining = p.draining
    /\ \/ q.drained = p.drained
       \/ p.draining /\ q.drained = 1 /\ p.pending = <<>> /\ \A s \in H1Streams : p.stream[s] # "active"

LEMMA H1CheckDrained ==
    ASSUME NEW p, H1Calm(p, {})
    PROVE  H1OK(h1CheckForDrained(p)) /\ H1Checked(p, h1CheckForDrained(p))
<1>1. /\ H1Base(p, {}) /\ H1Fed(p) /\ H1Size(p) <= H1Limit /\ p.drained = 0
      /\ p \in H1State /\ H1Waits(p) /\ H1Listed(p, {}) /\ H1Served(p, {})
  BY DEF H1Calm, H1Base
<1>2. CASE ~(p.draining /\ p.pending = <<>> /\ p.busy = {})
  <2>1. h1CheckForDrained(p) = p
    BY <1>2 DEF h1CheckForDrained
  <2>. QED
    BY <1>1, <2>1 DEF H1OK, H1Checked
<1>3. CASE p.draining /\ p.pending = <<>> /\ p.busy = {}
  <2>. DEFINE d == p.deleted \cup H1Elements(p.ready)
              n == p.drained + 1
              none == <<>>
              q == [p EXCEPT !.deleted = d, !.ready = none, !.drained = n]
  <2>1. h1CheckForDrained(p) = q
    BY <1>3 DEF h1CheckForDrained
  <2>2. n = 1 /\ n \in Nat /\ d \subseteq H1Clients
    BY <1>1, H1Types, H1Counts
  <2>3. none \in H1Lists /\ H1Elements(none) = {} /\ H1Distinct(none) /\ Len(none) = 0 /\ none = <<>>
    BY H1EmptyList DEF H1Lists
  <2>. HIDE DEF d, n, none
  <2>4. q \in H1State
    BY <1>1, <2>2, <2>3 DEF H1State
  <2>5. /\ q.stream = p.stream /\ q.pending = p.pending /\ q.ready = none /\ q.busy = p.busy /\ q.deleted = d
        /\ q.timer = p.timer /\ q.wrapper = p.wrapper /\ q.draining = p.draining /\ q.drained = n
    BY <1>1 DEF H1State
  <2>. HIDE DEF q
  <2>6. H1Waits(q) /\ H1Served(q, {})
    BY <1>1, <2>5 DEF H1Waits, H1Served
  <2>7. H1Listed(q, {})
    BY <1>1, <1>3, <2>3, <2>5 DEF H1Listed
  <2>8. H1Size(q) <= H1Limit
    <3>1. Cardinality(q.busy) = 0 /\ Len(q.ready) = 0
      BY <1>3, <2>3, <2>5, FS_EmptySet
    <3>. QED
      BY <3>1, H1Assumption DEF H1Size, H1Limit
  <2>9. H1Over(q) /\ H1Fed(q)
    BY <1>3, <2>2, <2>3, <2>5 DEF H1Over, H1Fed
  <2>10. H1Checked(p, q)
    BY <1>1, <1>3, <2>2, <2>5, H1NoneRuns DEF H1Checked
  <2>. QED
    BY <2>1, <2>4, <2>6, <2>7, <2>8, <2>9, <2>10 DEF H1OK, H1Base
<1>. QED
  BY <1>2, <1>3

\* attachRequestToClient() for a client in transit: p before, q after, with the rest of
\* what the caller changes.
H1Attached(p, q, c, s) ==
    /\ q.stream = [p.stream EXCEPT ![s] = "active"] /\ q.wrapper = [p.wrapper EXCEPT ![c] = s]
    /\ q.ready = p.ready /\ q.busy = p.busy /\ q.deleted = p.deleted /\ q.timer = p.timer

LEMMA H1AttachBase ==
    ASSUME NEW c \in H1Clients, NEW s \in H1Streams, NEW p, H1Base(p, {c}), NEW q \in H1State,
           c \in p.busy, c \notin p.timer, p.stream[s] # "active", H1Attached(p, q, c, s),
           H1Distinct(q.pending), Len(q.pending) <= H1MaxPending, H1Elements(q.pending) = H1Elements(p.pending) \ {s}
    PROVE  H1Base(q, {})
<1>1. p \in H1State /\ H1Waits(p) /\ H1Listed(p, {c}) /\ H1Served(p, {c})
  BY DEF H1Base
<1>2. p.stream \in H1StreamMap /\ p.wrapper \in H1WrapperMap /\ p.busy \subseteq H1Clients /\ s # "none"
  BY <1>1, H1Types, H1Assumption
<1>3. /\ q.stream[s] = "active" /\ \A x \in H1Streams : x # s => q.stream[x] = p.stream[x]
      /\ q.wrapper[c] = s /\ \A d \in H1Clients : d # c => q.wrapper[d] = p.wrapper[d]
      /\ q.ready = p.ready /\ q.busy = p.busy /\ q.deleted = p.deleted /\ q.timer = p.timer
  BY <1>2 DEF H1Attached, H1StreamMap, H1WrapperMap
<1>4. \A d \in H1Clients : p.wrapper[d] \in H1Streams \cup {"none"}
  BY <1>1, H1Types
<1>5. H1Waits(q)
  BY <1>1, <1>3 DEF H1Waits
<1>6. H1Listed(q, {})
  BY <1>1, <1>2, <1>3 DEF H1Listed
<1>7. H1Served(q, {})
  <2>1. \A d \in H1Clients : d # c /\ p.wrapper[d] # "none" => p.wrapper[d] # s /\ p.stream[p.wrapper[d]] = "active"
    BY <1>1 DEF H1Served
  <2>2. \A d \in H1Clients : q.wrapper[d] # "none" => q.stream[q.wrapper[d]] = "active"
    BY <1>3, <1>4, <2>1
  <2>3. \A d, e \in H1Clients : q.wrapper[d] = q.wrapper[e] /\ q.wrapper[d] # "none" => d = e
    BY <1>1, <1>2, <1>3, <2>1 DEF H1Served
  <2>4. \A x \in H1Streams : q.stream[x] = "active" => \E d \in H1Clients : q.wrapper[d] = x
    BY <1>1, <1>3 DEF H1Served
  <2>. QED
    BY <2>2, <2>3, <2>4 DEF H1Served
<1>. QED
  BY <1>5, <1>6, <1>7 DEF H1Base

\* newStream(): what a request that is new to the pool gets.
H1Asked(p, q, s) ==
    /\ q.draining = p.draining /\ q.drained = p.drained
    /\ \E outcome \in {"active", "pending", "overflow"} :
          /\ q.stream = [p.stream EXCEPT ![s] = outcome]
          /\ q.pending = IF outcome = "pending" THEN Append(p.pending, s) ELSE p.pending
          /\ outcome = "active" => p.ready # <<>>

\* A ready client takes it.
LEMMA H1NewStreamServed ==
    ASSUME NEW p, H1Calm(p, {}), NEW s \in H1Streams, p.stream[s] = "new", NEW roomToWait, NEW room, p.ready # <<>>
    PROVE  LET q == h1NewStream(p, s, roomToWait, room)
           IN  H1Calm(q, {}) /\ H1Asked(p, q, s)
<1>1. /\ H1Fed(p) /\ H1Size(p) <= H1Limit /\ p.drained = 0
      /\ p \in H1State /\ H1Waits(p) /\ H1Listed(p, {}) /\ H1Served(p, {})
  BY DEF H1Calm, H1Base
<1>. DEFINE c == p.ready[1]
            l == Tail(p.ready)
            b == p.busy \cup {c}
            w == [p.wrapper EXCEPT ![c] = s]
            u == p.sent \ {c}
            t == [p.stream EXCEPT ![s] = "active"]
            p1 == [p EXCEPT !.ready = l, !.busy = b]
            q == [p1 EXCEPT !.wrapper = w, !.sent = u, !.stream = t]
<1>2. h1NewStream(p, s, roomToWait, room) = h1AttachRequestToClient(p1, c, s)
  BY DEF h1NewStream
<1>3. /\ c \in H1Clients /\ c \in H1Elements(p.ready) /\ l \in H1Lists /\ Len(l) = Len(p.ready) - 1 /\ H1Distinct(l)
      /\ H1Elements(l) = H1Elements(p.ready) \ {c}
  <2>1. p.ready \in Seq(H1Clients) /\ H1Distinct(p.ready)
    BY <1>1, H1Types DEF H1Lists, H1Listed
  <2>. QED
    BY <2>1, H1TailElements DEF H1Lists
<1>4. /\ p.stream \in H1StreamMap /\ p.wrapper \in H1WrapperMap /\ p.busy \subseteq H1Clients /\ p.sent \subseteq H1Clients
      /\ \A d \in H1Clients : p.wrapper[d] \in H1Streams \cup {"none"}
  BY <1>1, H1Types
<1>. HIDE DEF c, l
<1>5. b \subseteq H1Clients /\ w \in H1WrapperMap /\ u \subseteq H1Clients /\ t \in H1StreamMap
  BY <1>3, <1>4 DEF H1WrapperMap, H1StreamMap, H1Outcomes
<1>6. b = p.busy \cup {c} /\ w = [p.wrapper EXCEPT ![c] = s] /\ t = [p.stream EXCEPT ![s] = "active"]
  OBVIOUS
<1>. HIDE DEF b
<1>7. p1 \in H1State
  BY <1>1, <1>3, <1>5 DEF H1State
<1>8. /\ p1.stream = p.stream /\ p1.pending = p.pending /\ p1.ready = l /\ p1.busy = b /\ p1.deleted = p.deleted
      /\ p1.timer = p.timer /\ p1.wrapper = p.wrapper /\ p1.sent = p.sent /\ p1.draining = p.draining /\ p1.drained = p.drained
  BY <1>1 DEF H1State
<1>. HIDE DEF p1
<1>9. h1AttachRequestToClient(p1, c, s) = q
  BY <1>8 DEF h1AttachRequestToClient
<1>. HIDE DEF w, u, t
<1>10. q \in H1State
  BY <1>5, <1>7 DEF H1State
<1>11. /\ q.stream = t /\ q.pending = p.pending /\ q.ready = l /\ q.busy = b /\ q.deleted = p.deleted /\ q.timer = p.timer
       /\ q.wrapper = w /\ q.draining = p.draining /\ q.drained = p.drained
  BY <1>7, <1>8 DEF H1State
<1>. HIDE DEF q
<1>12. c \notin p.busy /\ c \notin p.deleted /\ c \notin p.timer /\ p.wrapper[c] = "none"
  BY <1>1, <1>3 DEF H1Listed
<1>13. H1Base(p1, {c})
  <2>1. H1Waits(p1)
    BY <1>1, <1>8 DEF H1Waits
  <2>2. H1Listed(p1, {c})
    BY <1>1, <1>3, <1>6, <1>8, <1>12 DEF H1Listed
  <2>3. H1Served(p1, {c})
    BY <1>1, <1>8, <1>12, H1Assumption DEF H1Served
  <2>. QED
    BY <1>7, <2>1, <2>2, <2>3 DEF H1Base
<1>14. H1Base(q, {})
  <2>1. c \in p1.busy /\ c \notin p1.timer /\ p1.stream[s] # "active"
    BY <1>6, <1>8, <1>12
  <2>2. H1Attached(p1, q, c, s)
    BY <1>6, <1>8, <1>11 DEF H1Attached
  <2>3. H1Distinct(q.pending) /\ Len(q.pending) <= H1MaxPending /\ H1Elements(q.pending) = H1Elements(p1.pending) \ {s}
    BY <1>1, <1>8, <1>11 DEF H1Waits
  <2>. QED
    BY <1>3, <1>10, <1>13, <2>1, <2>2, <2>3, H1AttachBase
<1>15. H1Size(q) <= H1Limit
  <2>1. Cardinality(b) = Cardinality(p.busy) + 1 /\ Cardinality(p.busy) \in Nat /\ Len(p.ready) \in Nat
    BY <1>1, <1>6, <1>12, H1Counts, FS_AddElement
  <2>. QED
    BY <1>1, <1>3, <1>11, <2>1 DEF H1Size
<1>16. H1Fed(q) /\ q.pending = p.pending
  BY <1>1, <1>11 DEF H1Fed
<1>17. H1Asked(p, q, s)
  BY <1>6, <1>11 DEF H1Asked
<1>. QED
  BY <1>1, <1>2, <1>9, <1>11, <1>14, <1>15, <1>16, <1>17 DEF H1Calm

\* A stream is moved to another outcome than these two, and no list changes.
LEMMA H1OutcomeBase ==
    ASSUME NEW p, H1Base(p, {}), NEW q \in H1State, NEW s \in H1Streams, NEW outcome,
           outcome \notin {"active", "pending"}, p.stream[s] \notin {"active", "pending"},
           q.stream = [p.stream EXCEPT ![s] = outcome], q.pending = p.pending, q.ready = p.ready, q.busy = p.busy,
           q.deleted = p.deleted, q.timer = p.timer, q.wrapper = p.wrapper
    PROVE  H1Base(q, {})
<1>1. p \in H1State /\ H1Waits(p) /\ H1Listed(p, {}) /\ H1Served(p, {})
  BY DEF H1Base
<1>2. q.stream[s] = outcome /\ \A x \in H1Streams : x # s => q.stream[x] = p.stream[x]
  BY <1>1, H1Types DEF H1StreamMap
<1>3. \A d \in H1Clients : p.wrapper[d] \in H1Streams \cup {"none"}
  BY <1>1, H1Types
<1>4. H1Waits(q)
  BY <1>1, <1>2 DEF H1Waits
<1>5. H1Listed(q, {})
  BY <1>1 DEF H1Listed
<1>6. H1Served(q, {})
  BY <1>1, <1>2, <1>3 DEF H1Served
<1>. QED
  BY <1>4, <1>5, <1>6 DEF H1Base

\* It is queued behind those that wait.
h1Queue(p, s) == [p EXCEPT !.pending = Append(@, s), !.stream[s] = "pending"]

LEMMA H1QueueBase ==
    ASSUME NEW p, H1Base(p, {}), NEW s \in H1Streams, p.stream[s] = "new", Len(p.pending) < H1MaxPending
    PROVE  LET q == h1Queue(p, s)
           IN  /\ H1Base(q, {}) /\ q.ready = p.ready /\ q.busy = p.busy
               /\ q.draining = p.draining /\ q.drained = p.drained
               /\ q.stream = [p.stream EXCEPT ![s] = "pending"] /\ q.pending = Append(p.pending, s) /\ q.pending # <<>>
<1>. DEFINE l == Append(p.pending, s)
            t == [p.stream EXCEPT ![s] = "pending"]
            q == [p EXCEPT !.pending = l, !.stream = t]
<1>1. p \in H1State /\ H1Waits(p) /\ H1Listed(p, {}) /\ H1Served(p, {})
  BY DEF H1Base
<1>2. p.stream \in H1StreamMap /\ p.pending \in Seq(H1Streams) /\ H1Distinct(p.pending) /\ Len(p.pending) \in Nat
      /\ s \notin H1Elements(p.pending)
  BY <1>1, H1Types, H1Counts DEF H1Queues, H1Waits
<1>3. /\ l \in Seq(H1Streams) /\ Len(l) = Len(p.pending) + 1 /\ H1Distinct(l) /\ H1Elements(l) = H1Elements(p.pending) \cup {s}
  BY <1>2, H1AppendElements
<1>4. l # <<>>
  BY <1>2, <1>3, H1EmptyList
<1>5. t \in H1StreamMap /\ t[s] = "pending" /\ \A x \in H1Streams : x # s => t[x] = p.stream[x]
  BY <1>2 DEF H1StreamMap, H1Outcomes
<1>. HIDE DEF l, t
<1>6. q \in H1State
  BY <1>1, <1>3, <1>5 DEF H1State, H1Queues
<1>7. /\ q.stream = t /\ q.pending = l /\ q.ready = p.ready /\ q.busy = p.busy /\ q.deleted = p.deleted /\ q.timer = p.timer
      /\ q.wrapper = p.wrapper /\ q.draining = p.draining /\ q.drained = p.drained
  BY <1>1 DEF H1State
<1>8. h1Queue(p, s) = q
  BY DEF l, t, h1Queue
<1>. HIDE DEF q
<1>9. H1Waits(q)
  BY <1>1, <1>2, <1>3, <1>5, <1>7, H1Assumption DEF H1Waits
<1>10. H1Listed(q, {})
  BY <1>1, <1>7 DEF H1Listed
<1>11. H1Served(q, {})
  <2>1. \A d \in H1Clients : p.wrapper[d] \in H1Streams \cup {"none"}
    BY <1>1, H1Types
  <2>. QED
    BY <1>1, <1>5, <1>7, <2>1 DEF H1Served
<1>12. H1Base(q, {})
  BY <1>6, <1>9, <1>10, <1>11 DEF H1Base
<1>. QED
  BY <1>4, <1>7, <1>8, <1>12 DEF l, t

\* No client is ready: it waits, for a connection that is made if there is room or none
\* at all, or overflows.
LEMMA H1NewStreamWaits ==
    ASSUME NEW p, H1Calm(p, {}), NEW s \in H1Streams, p.stream[s] = "new", NEW roomToWait, NEW room, p.ready = <<>>,
           h1Unused(p) # {}
    PROVE  LET q == h1NewStream(p, s, roomToWait, room)
           IN  /\ H1Calm(q, {}) /\ H1Asked(p, q, s)
               /\ roomToWait /\ Len(p.pending) < H1MaxPending => q.stream[s] = "pending"
<1>1. /\ H1Base(p, {}) /\ H1Fed(p) /\ H1Size(p) <= H1Limit /\ p.drained = 0 /\ p \in H1State
  BY DEF H1Calm, H1Base
<1>2. CASE roomToWait /\ Len(p.pending) < H1MaxPending
  <2>. DEFINE r == IF h1MayConnect(p, room) THEN h1CreateNewConnection(p) ELSE p
              q == h1Queue(r, s)
  <2>1. h1NewStream(p, s, roomToWait, room) = q
    BY <1>2 DEF h1NewStream, h1Queue
  <2>2. /\ Len(p.ready) = 0 /\ Cardinality(p.busy) \in Nat /\ (p.busy = {} <=> Cardinality(p.busy) = 0)
        /\ IsFiniteSet(h1Alive(p)) /\ Cardinality(p.busy) <= Cardinality(h1Alive(p)) /\ Cardinality(h1Alive(p)) \in Nat
    BY <1>1, H1Counts, FS_CardinalityType
  <2>3. /\ H1Base(r, {}) /\ r.stream = p.stream /\ r.pending = p.pending /\ r.ready = p.ready /\ r.busy # {}
        /\ r.draining = p.draining /\ r.drained = p.drained /\ H1Size(r) <= H1Limit
    <3>1. CASE h1MayConnect(p, room)
      <4>1. /\ H1Base(r, {}) /\ r.stream = p.stream /\ r.pending = p.pending /\ r.ready = p.ready /\ r.busy # {}
            /\ Cardinality(r.busy) = Cardinality(p.busy) + 1 /\ r.draining = p.draining /\ r.drained = p.drained
        BY <1>1, <3>1, H1CreateBase
      <4>2. p.busy = {} \/ Cardinality(h1Alive(p)) < H1MaxConnections
        BY <3>1 DEF h1MayConnect
      <4>. HIDE DEF r
      <4>3. H1Size(r) <= H1Limit
        BY <2>2, <4>1, <4>2, H1Assumption DEF H1Size, H1Limit
      <4>. QED
        BY <4>1, <4>3
    <3>2. CASE ~h1MayConnect(p, room)
      <4>1. r = p /\ p.busy # {}
        BY <3>2 DEF h1MayConnect
      <4>. QED
        BY <1>1, <4>1
    <3>. QED
      BY <3>1, <3>2
  <2>. HIDE DEF r
  <2>4. r.stream[s] = "new" /\ Len(r.pending) < H1MaxPending
    BY <1>2, <2>3
  <2>5. /\ H1Base(q, {}) /\ q.ready = r.ready /\ q.busy = r.busy /\ q.draining = r.draining /\ q.drained = r.drained
        /\ q.stream = [r.stream EXCEPT ![s] = "pending"] /\ q.pending = Append(r.pending, s)
    BY <2>3, <2>4, H1QueueBase
  <2>. HIDE DEF q
  <2>6. H1Calm(q, {})
    BY <1>1, <2>3, <2>5 DEF H1Calm, H1Fed, H1Size
  <2>7. H1Asked(p, q, s)
    BY <2>3, <2>5 DEF H1Asked
  <2>8. q.stream[s] = "pending"
    BY <1>1, <2>3, <2>5, H1Types DEF H1StreamMap
  <2>. QED
    BY <2>1, <2>6, <2>7, <2>8
<1>3. CASE ~(roomToWait /\ Len(p.pending) < H1MaxPending)
  <2>. DEFINE t == [p.stream EXCEPT ![s] = "overflow"]
              q == [p EXCEPT !.stream = t]
  <2>1. h1NewStream(p, s, roomToWait, room) = q
    BY <1>3 DEF h1NewStream
  <2>2. t \in H1StreamMap /\ t = [p.stream EXCEPT ![s] = "overflow"]
    BY <1>1, H1Types DEF H1StreamMap, H1Outcomes
  <2>. HIDE DEF t
  <2>3. q \in H1State
    BY <1>1, <2>2 DEF H1State
  <2>4. /\ q.stream = t /\ q.pending = p.pending /\ q.ready = p.ready /\ q.busy = p.busy /\ q.deleted = p.deleted
        /\ q.timer = p.timer /\ q.wrapper = p.wrapper /\ q.draining = p.draining /\ q.drained = p.drained
    BY <1>1 DEF H1State
  <2>. HIDE DEF q
  <2>5. H1Base(q, {})
    BY <1>1, <2>2, <2>3, <2>4, H1OutcomeBase
  <2>6. H1Calm(q, {})
    BY <1>1, <2>4, <2>5 DEF H1Calm, H1Fed, H1Size
  <2>7. H1Asked(p, q, s)
    BY <2>2, <2>4 DEF H1Asked
  <2>. QED
    BY <1>3, <2>1, <2>6, <2>7
<1>. QED
  BY <1>2, <1>3

LEMMA H1NewStreamOK ==
    ASSUME NEW p, H1Calm(p, {}), NEW s \in H1Streams, p.stream[s] = "new", NEW roomToWait, NEW room, h1Unused(p) # {}
    PROVE  LET q == h1NewStream(p, s, roomToWait, room)
           IN  /\ H1Calm(q, {}) /\ H1Asked(p, q, s)
               /\ roomToWait /\ p.ready = <<>> /\ Len(p.pending) < H1MaxPending => q.stream[s] = "pending"
<1>1. CASE p.ready = <<>>
  BY <1>1, H1NewStreamWaits
<1>2. CASE p.ready # <<>>
  BY <1>2, H1NewStreamServed
<1>. QED
  BY <1>1, <1>2

\* A lost connection is replaced while requests wait for more of them than there are.
LEMMA H1ReplaceCalm ==
    ASSUME NEW p, H1Base(p, {}), p.drained = 0, p.pending # <<>> => p.ready = <<>>, h1Unused(p) # {},
           H1Size(p) + 1 <= H1Limit
    PROVE  LET q == h1Replace(p)
           IN  /\ H1Calm(q, {}) /\ q.stream = p.stream /\ q.pending = p.pending
               /\ q.draining = p.draining /\ q.drained = p.drained
<1>1. /\ Len(p.ready) \in Nat /\ (p.ready = <<>> <=> Len(p.ready) = 0) /\ Len(p.pending) \in Nat
      /\ (p.pending = <<>> <=> Len(p.pending) = 0) /\ Cardinality(p.busy) \in Nat /\ (p.busy = {} <=> Cardinality(p.busy) = 0)
  BY H1Counts DEF H1Base
<1>2. CASE Len(p.pending) > Len(p.ready) + Cardinality(p.busy)
  <2>. DEFINE q == h1CreateNewConnection(p)
  <2>1. h1Replace(p) = q
    BY <1>2 DEF h1Replace
  <2>2. /\ H1Base(q, {}) /\ q.stream = p.stream /\ q.pending = p.pending /\ q.ready = p.ready /\ q.busy # {}
        /\ Cardinality(q.busy) = Cardinality(p.busy) + 1 /\ q.draining = p.draining /\ q.drained = p.drained
    BY H1CreateBase
  <2>. HIDE DEF q
  <2>3. H1Size(q) <= H1Limit
    BY <1>1, <2>2, H1Assumption DEF H1Size, H1Limit
  <2>4. H1Fed(q)
    BY <2>2 DEF H1Fed
  <2>. QED
    BY <2>1, <2>2, <2>3, <2>4 DEF H1Calm
<1>3. CASE ~(Len(p.pending) > Len(p.ready) + Cardinality(p.busy))
  <2>1. h1Replace(p) = p
    BY <1>3 DEF h1Replace
  <2>2. H1Size(p) <= H1Limit
    BY <1>1, H1Assumption DEF H1Size, H1Limit
  <2>3. H1Fed(p)
    BY <1>1, <1>3 DEF H1Fed
  <2>. QED
    BY <2>1, <2>2, <2>3 DEF H1Calm
<1>. QED
  BY <1>2, <1>3

\* None is made for a single request that waits beside one.
LEMMA H1ReplacesNone ==
    ASSUME NEW p, H1Calm(p, {}), Len(p.pending) <= 1
    PROVE  h1Replace(p) = p
<1>1. /\ Len(p.ready) \in Nat /\ Len(p.pending) \in Nat /\ (p.pending = <<>> <=> Len(p.pending) = 0)
      /\ Cardinality(p.busy) \in Nat /\ (p.busy = {} <=> Cardinality(p.busy) = 0) /\ H1Fed(p)
  BY H1Counts DEF H1Calm, H1Base
<1>2. Len(p.pending) <= Len(p.ready) + Cardinality(p.busy)
  <2>1. CASE p.pending = <<>>
    BY <1>1, <2>1
  <2>2. CASE p.pending # <<>>
    <3>1. Cardinality(p.busy) # 0
      BY <1>1, <2>2 DEF H1Fed
    <3>. QED
      BY <1>1, <3>1
  <2>. QED
    BY <2>1, <2>2
<1>. QED
  BY <1>1, <1>2 DEF h1Replace

\* purgePendingRequests(), and what the callbacks ask for.
H1Purged(p, q, again) ==
    /\ q.draining = p.draining /\ q.drained = p.drained
    /\ \A s \in H1Streams : q.stream[s] = IF s \in H1Elements(p.pending) THEN "failed"
                                          ELSE IF s = again THEN "pending" ELSE p.stream[s]
    /\ q.pending = IF again = "none" THEN <<>> ELSE Append(<<>>, again)

LEMMA H1PurgeCalm ==
    ASSUME NEW p, H1Base(p, {}), p.drained = 0, h1Unused(p) # {}, H1Size(p) <= H1Limit, NEW again \in H1Streams \cup {"none"},
           again # "none" => p.stream[again] = "new" /\ p.pending # <<>> /\ p.ready = <<>>
    PROVE  LET q == h1Purge(p, again)
           IN  H1Calm(q, {}) /\ H1Purged(p, q, again) /\ Len(q.pending) <= 1
<1>. DEFINE t == [s \in H1Streams |-> IF s \in H1Elements(p.pending) THEN "failed" ELSE p.stream[s]]
            none == <<>>
            r == [p EXCEPT !.pending = none, !.stream = t]
<1>1. p \in H1State /\ H1Waits(p) /\ H1Listed(p, {}) /\ H1Served(p, {})
  BY DEF H1Base
<1>2. h1Purge(p, again) = IF again = "none" THEN r ELSE h1NewStream(r, again, TRUE, TRUE)
  BY DEF h1Purge
<1>3. none = <<>> /\ none \in H1Queues /\ Len(none) = 0 /\ H1Elements(none) = {} /\ H1Distinct(none)
  BY H1EmptyList DEF H1Queues
<1>4. /\ t \in H1StreamMap
      /\ \A s \in H1Streams : t[s] = IF s \in H1Elements(p.pending) THEN "failed" ELSE p.stream[s]
  BY <1>1, H1Types DEF H1StreamMap, H1Outcomes
<1>. HIDE DEF t, none
<1>5. r \in H1State
  BY <1>1, <1>3, <1>4 DEF H1State
<1>6. /\ r.stream = t /\ r.pending = none /\ r.ready = p.ready /\ r.busy = p.busy /\ r.deleted = p.deleted
      /\ r.timer = p.timer /\ r.wrapper = p.wrapper /\ r.draining = p.draining /\ r.drained = p.drained
  BY <1>1 DEF H1State
<1>. HIDE DEF r
<1>7. \A s \in H1Streams : s \in H1Elements(p.pending) <=> p.stream[s] = "pending"
  BY <1>1 DEF H1Waits
<1>8. H1Calm(r, {})
  <2>1. H1Waits(r)
    BY <1>3, <1>4, <1>6, <1>7, H1Assumption DEF H1Waits
  <2>2. H1Listed(r, {})
    BY <1>1, <1>6 DEF H1Listed
  <2>3. \A d \in H1Clients : p.wrapper[d] \in H1Streams \cup {"none"}
    BY <1>1, H1Types
  <2>4. \A s \in H1Streams : r.stream[s] = "active" <=> p.stream[s] = "active"
    BY <1>4, <1>6, <1>7
  <2>5. H1Served(r, {})
    BY <1>1, <1>6, <2>3, <2>4 DEF H1Served
  <2>. QED
    BY <1>3, <1>5, <1>6, <2>1, <2>2, <2>5 DEF H1Calm, H1Base, H1Fed, H1Size
<1>9. CASE again = "none"
  <2>1. H1Purged(p, r, again)
    BY <1>3, <1>4, <1>6, <1>9, H1Assumption DEF H1Purged
  <2>. QED
    BY <1>2, <1>3, <1>6, <1>8, <1>9, <2>1
<1>10. CASE again # "none"
  <2>. DEFINE q == h1NewStream(r, again, TRUE, TRUE)
  <2>1. again \in H1Streams /\ again \notin H1Elements(p.pending) /\ r.stream[again] = "new" /\ r.ready = <<>>
    BY <1>4, <1>6, <1>7, <1>10
  <2>2. h1Unused(r) # {}
    BY <1>6 DEF h1Unused, h1Alive
  <2>3. Len(r.pending) < H1MaxPending
    <3>1. Len(p.pending) \in Nat /\ Len(p.pending) # 0 /\ Len(p.pending) <= H1MaxPending
      BY <1>1, <1>10, H1Counts DEF H1Waits
    <3>. QED
      BY <1>3, <1>6, <3>1, H1Assumption
  <2>4. H1Calm(q, {}) /\ H1Asked(r, q, again) /\ q.stream[again] = "pending"
    BY <1>8, <2>1, <2>2, <2>3, H1NewStreamOK
  <2>. HIDE DEF q
  <2>5. r.stream \in H1StreamMap
    BY <1>5, H1Types
  <2>6. /\ q.stream = [r.stream EXCEPT ![again] = "pending"] /\ q.pending = Append(r.pending, again)
        /\ q.draining = r.draining /\ q.drained = r.drained
    BY <2>1, <2>4, <2>5 DEF H1Asked, H1StreamMap
  <2>7. Len(q.pending) <= 1
    BY <1>3, <1>6, <2>6
  <2>8. H1Purged(p, q, again)
    BY <1>3, <1>4, <1>6, <1>10, <2>1, <2>5, <2>6 DEF H1Purged, H1StreamMap
  <2>. QED
    BY <1>2, <1>10, <2>4, <2>7, <2>8 DEF q
<1>. QED
  BY <1>9, <1>10

\* From p to q the drained callbacks may have been called, when nothing waits or runs.
H1MayDrain(p, q) ==
    /\ q.draining = p.draining
    /\ \/ q.drained = p.drained
       \/ /\ p.draining /\ p.drained = 0 /\ q.drained = 1 /\ q.pending = <<>>
          /\ \A s \in H1Streams : q.stream[s] # "active"

LEMMA H1CheckedDrains ==
    ASSUME NEW p, NEW q, NEW r, H1Checked(q, r), q.draining = p.draining, q.drained = p.drained, p.drained = 0
    PROVE  H1MayDrain(p, r)
  BY DEF H1Checked, H1MayDrain

\* The oldest request that waits, if any, becomes active.
H1Advanced(p, q) ==
    IF p.pending = <<>> THEN q.stream = p.stream /\ q.pending = p.pending
    ELSE q.stream = [p.stream EXCEPT ![p.pending[1]] = "active"] /\ q.pending = SubSeq(p.pending, 2, Len(p.pending))

LEMMA H1FirstRemoved ==
    ASSUME NEW S, NEW q \in Seq(S), q # <<>>
    PROVE  h1Removed(q, 1) = SubSeq(q, 2, Len(q))
<1>1. SubSeq(q, 1, 1 - 1) = <<>>
  OBVIOUS
<1>2. SubSeq(q, 2, Len(q)) \in Seq(S)
  OBVIOUS
<1>3. <<>> \o SubSeq(q, 2, Len(q)) = SubSeq(q, 2, Len(q))
  BY <1>2
<1>. QED
  BY <1>1, <1>3 DEF h1Removed

\* processIdleClient() while requests wait.
LEMMA H1ProcessPending ==
    ASSUME NEW c \in H1Clients, NEW p, H1Calm(p, {c}), c \in p.busy, c \notin p.timer, p.pending # <<>>
    PROVE  LET q == h1ProcessIdleClient(p, c)
           IN  H1OK(q) /\ H1Advanced(p, q) /\ H1MayDrain(p, q)
<1>1. /\ H1Base(p, {c}) /\ H1Fed(p) /\ H1Size(p) <= H1Limit /\ p.drained = 0
      /\ p \in H1State /\ H1Waits(p) /\ H1Listed(p, {c}) /\ H1Served(p, {c})
  BY DEF H1Calm, H1Base
<1>. DEFINE s == p.pending[1]
            l == h1Without(p.pending, s)
            w0 == [p.wrapper EXCEPT ![c] = "none"]
            w == [p.wrapper EXCEPT ![c] = s]
            u == p.sent \ {c}
            t == [p.stream EXCEPT ![s] = "active"]
            r0 == [p EXCEPT !.wrapper = w0]
            r == [p EXCEPT !.wrapper = w, !.sent = u, !.stream = t, !.pending = l]
<1>2. p.pending \in Seq(H1Streams) /\ H1Distinct(p.pending) /\ Len(p.pending) \in Nat /\ Len(p.pending) <= H1MaxPending
  BY <1>1, H1Types, H1Counts DEF H1Queues, H1Waits
<1>3. s \in H1Streams /\ 1 \in DOMAIN p.pending /\ s \in H1Elements(p.pending) /\ p.stream[s] = "pending"
  <2>1. 1 \in DOMAIN p.pending /\ s \in H1Streams
    BY <1>2
  <2>. QED
    BY <1>1, <2>1 DEF H1Waits, H1Elements
<1>. HIDE DEF s
<1>4. /\ l \in Seq(H1Streams) /\ Len(l) = Len(p.pending) - 1 /\ H1Distinct(l) /\ H1Elements(l) = H1Elements(p.pending) \ {s}
  BY <1>2, <1>3, H1WithoutElements
<1>5. l = SubSeq(p.pending, 2, Len(p.pending))
  <2>1. PICK k \in 1..Len(p.pending) : p.pending[k] = s /\ l = h1Removed(p.pending, k)
    BY <1>2, <1>3, H1WithoutElements
  <2>2. k = 1
    BY <1>2, <1>3, <2>1 DEF H1Distinct, s
  <2>. QED
    BY <1>2, <2>1, <2>2, H1FirstRemoved
<1>6. /\ p.stream \in H1StreamMap /\ p.wrapper \in H1WrapperMap /\ p.sent \subseteq H1Clients
  BY <1>1, H1Types
<1>7. w0 \in H1WrapperMap /\ w \in H1WrapperMap /\ u \subseteq H1Clients /\ t \in H1StreamMap
  BY <1>3, <1>6 DEF H1WrapperMap, H1StreamMap, H1Outcomes
<1>8. [w0 EXCEPT ![c] = s] = w
  BY <1>6 DEF H1WrapperMap
<1>9. w = [p.wrapper EXCEPT ![c] = s] /\ t = [p.stream EXCEPT ![s] = "active"]
  OBVIOUS
<1>10. h1ProcessIdleClient(p, c) = h1CheckForDrained(r)
  <2>. DEFINE a == h1AttachRequestToClient(r0, c, s)
  <2>. HIDE DEF w0, w
  <2>1. r0 \in H1State /\ r0.pending = p.pending /\ r0.wrapper = w0 /\ r0.sent = p.sent /\ r0.stream = p.stream
    BY <1>1, <1>7 DEF H1State
  <2>2. h1ProcessIdleClient(p, c) = h1CheckForDrained([a EXCEPT !.pending = h1Without(@, s)])
    BY <2>1 DEF h1ProcessIdleClient, h1NextPending, s, w0
  <2>3. a = [r0 EXCEPT !.wrapper = w, !.sent = u, !.stream = t]
    BY <1>8, <2>1 DEF h1AttachRequestToClient
  <2>. HIDE DEF u, t, l
  <2>4. a = [p EXCEPT !.wrapper = w, !.sent = u, !.stream = t]
    BY <1>1, <2>3 DEF H1State
  <2>5. a.pending = p.pending
    BY <1>1, <2>4 DEF H1State
  <2>. HIDE DEF a
  <2>6. [a EXCEPT !.pending = h1Without(@, s)] = [a EXCEPT !.pending = l]
    BY <2>5 DEF l
  <2>7. [a EXCEPT !.pending = l] = r
    BY <1>1, <2>4 DEF H1State
  <2>. QED
    BY <2>2, <2>6, <2>7
<1>. HIDE DEF w, u, t, l
<1>11. r \in H1State
  BY <1>1, <1>4, <1>7 DEF H1State, H1Queues
<1>12. /\ r.stream = t /\ r.pending = l /\ r.ready = p.ready /\ r.busy = p.busy /\ r.deleted = p.deleted /\ r.timer = p.timer
       /\ r.wrapper = w /\ r.draining = p.draining /\ r.drained = p.drained
  BY <1>1 DEF H1State
<1>. HIDE DEF r
<1>13. H1Base(r, {})
  <2>1. H1Attached(p, r, c, s)
    BY <1>9, <1>12 DEF H1Attached
  <2>2. H1Distinct(r.pending) /\ Len(r.pending) <= H1MaxPending /\ H1Elements(r.pending) = H1Elements(p.pending) \ {s}
    BY <1>2, <1>4, <1>12, H1Assumption
  <2>3. p.stream[s] # "active"
    BY <1>3
  <2>. QED
    BY <1>1, <1>3, <1>11, <2>1, <2>2, <2>3, H1AttachBase
<1>14. H1Calm(r, {})
  BY <1>1, <1>12, <1>13 DEF H1Calm, H1Fed, H1Size
<1>15. H1OK(h1CheckForDrained(r)) /\ H1Checked(r, h1CheckForDrained(r))
  BY <1>14, H1CheckDrained
<1>16. H1MayDrain(p, h1CheckForDrained(r))
  BY <1>1, <1>12, <1>15, H1CheckedDrains
<1>17. H1Advanced(p, h1CheckForDrained(r))
  BY <1>5, <1>9, <1>12, <1>15 DEF H1Advanced, H1Checked, s
<1>. QED
  BY <1>10, <1>15, <1>16, <1>17

\* processIdleClient() while none waits: the client is put in front of the ready ones.
LEMMA H1ProcessNone ==
    ASSUME NEW c \in H1Clients, NEW p, H1Calm(p, {c}), c \in p.busy, c \notin p.timer, p.pending = <<>>
    PROVE  LET q == h1ProcessIdleClient(p, c)
           IN  H1OK(q) /\ H1Advanced(p, q) /\ H1MayDrain(p, q)
<1>1. /\ H1Base(p, {c}) /\ H1Fed(p) /\ H1Size(p) <= H1Limit /\ p.drained = 0
      /\ p \in H1State /\ H1Waits(p) /\ H1Listed(p, {c}) /\ H1Served(p, {c})
  BY DEF H1Calm, H1Base
<1>. DEFINE w == [p.wrapper EXCEPT ![c] = "none"]
            b == p.busy \ {c}
            l == <<c>> \o p.ready
            r0 == [p EXCEPT !.wrapper = w]
            r == [p EXCEPT !.wrapper = w, !.busy = b, !.ready = l]
<1>2. p.ready \in Seq(H1Clients) /\ p.wrapper \in H1WrapperMap /\ p.busy \subseteq H1Clients /\ H1Distinct(p.ready)
  BY <1>1, H1Types DEF H1Lists, H1Listed
<1>3. c \notin H1Elements(p.ready) /\ c \notin p.deleted
  BY <1>1 DEF H1Listed
<1>4. l \in Seq(H1Clients) /\ Len(l) = Len(p.ready) + 1 /\ H1Distinct(l) /\ H1Elements(l) = H1Elements(p.ready) \cup {c}
  BY <1>2, <1>3, H1ConsElements
<1>5. /\ w \in H1WrapperMap /\ w[c] = "none" /\ \A d \in H1Clients : d # c => w[d] = p.wrapper[d]
      /\ b \subseteq H1Clients /\ b = p.busy \ {c}
  BY <1>2 DEF H1WrapperMap
<1>6. h1ProcessIdleClient(p, c) = h1CheckForDrained(r)
  <2>. HIDE DEF w
  <2>1. r0.pending = p.pending /\ r0.busy = p.busy /\ r0.ready = p.ready
    BY <1>1 DEF H1State
  <2>2. h1ProcessIdleClient(p, c) = h1CheckForDrained([r0 EXCEPT !.busy = @ \ {c}, !.ready = <<c>> \o @])
    BY <2>1 DEF h1ProcessIdleClient, w
  <2>3. [r0 EXCEPT !.busy = @ \ {c}, !.ready = <<c>> \o @] = [r0 EXCEPT !.busy = b, !.ready = l]
    BY <2>1
  <2>. HIDE DEF b, l
  <2>4. [r0 EXCEPT !.busy = b, !.ready = l] = r
    BY <1>1 DEF H1State
  <2>. QED
    BY <2>2, <2>3, <2>4
<1>. HIDE DEF w, b, l
<1>7. r \in H1State
  BY <1>1, <1>4, <1>5 DEF H1State, H1Lists
<1>8. /\ r.stream = p.stream /\ r.pending = p.pending /\ r.ready = l /\ r.busy = b /\ r.deleted = p.deleted /\ r.timer = p.timer
      /\ r.wrapper = w /\ r.draining = p.draining /\ r.drained = p.drained
  BY <1>1 DEF H1State
<1>. HIDE DEF r
<1>9. H1Waits(r)
  BY <1>1, <1>8 DEF H1Waits
<1>10. H1Listed(r, {})
  BY <1>1, <1>2, <1>3, <1>4, <1>5, <1>8 DEF H1Listed
<1>11. H1Served(r, {})
  <2>1. \A d \in H1Clients : r.wrapper[d] # "none" => d # c /\ r.stream[r.wrapper[d]] = "active"
    BY <1>1, <1>5, <1>8 DEF H1Served
  <2>2. \A d, e \in H1Clients : r.wrapper[d] = r.wrapper[e] /\ r.wrapper[d] # "none" => d = e
    BY <1>1, <1>5, <1>8, <2>1 DEF H1Served
  <2>3. \A x \in H1Streams : r.stream[x] = "active" => \E d \in H1Clients : r.wrapper[d] = x
    BY <1>1, <1>5, <1>8 DEF H1Served
  <2>. QED
    BY <2>1, <2>2, <2>3 DEF H1Served
<1>12. H1Size(r) <= H1Limit
  <2>1. IsFiniteSet(p.busy) /\ Cardinality(p.busy) \in Nat /\ Len(p.ready) \in Nat
    BY <1>1, H1Counts
  <2>2. Cardinality(b) = Cardinality(p.busy) - 1
    BY <1>5, <2>1, FS_RemoveElement
  <2>. QED
    BY <1>1, <1>4, <1>8, <2>1, <2>2 DEF H1Size
<1>13. H1Calm(r, {})
  BY <1>1, <1>7, <1>8, <1>9, <1>10, <1>11, <1>12 DEF H1Calm, H1Base, H1Fed
<1>14. H1OK(h1CheckForDrained(r)) /\ H1Checked(r, h1CheckForDrained(r))
  BY <1>13, H1CheckDrained
<1>15. H1MayDrain(p, h1CheckForDrained(r))
  BY <1>1, <1>8, <1>14, H1CheckedDrains
<1>16. H1Advanced(p, h1CheckForDrained(r))
  BY <1>8, <1>14 DEF H1Advanced, H1Checked
<1>. QED
  BY <1>6, <1>14, <1>15, <1>16

LEMMA H1ProcessIdleOK ==
    ASSUME NEW c \in H1Clients, NEW p, H1Calm(p, {c}), c \in p.busy, c \notin p.timer
    PROVE  LET q == h1ProcessIdleClient(p, c)
           IN  H1OK(q) /\ H1Advanced(p, q) /\ H1MayDrain(p, q)
<1>1. CASE p.pending = <<>>
  BY <1>1, H1ProcessNone
<1>2. CASE p.pending # <<>>
  BY <1>2, H1ProcessPending
<1>. QED
  BY <1>1, <1>2

\* A client that is lost leaves its list and its stream, and is counted until it is deleted.
H1Lost(p, q, c) ==
    /\ q.pending = p.pending /\ q.wrapper = [p.wrapper EXCEPT ![c] = "none"]
    /\ q.timer = p.timer \ {c} /\ q.deleted = p.deleted \cup {c}
    /\ q.draining = p.draining /\ q.drained = p.drained

LEMMA H1LostUnused ==
    ASSUME NEW p, NEW q, NEW c, c \in p.busy \/ c \in H1Elements(p.ready), H1Lost(p, q, c),
           q.busy \cup H1Elements(q.ready) = (p.busy \cup H1Elements(p.ready)) \ {c}
    PROVE  h1Unused(q) = h1Unused(p)
  BY DEF H1Lost, h1Unused, h1Alive

\* p1 is p, but that the stream of the client may have ended already.
H1Same(p, p1) ==
    /\ p1.pending = p.pending /\ p1.ready = p.ready /\ p1.busy = p.busy /\ p1.deleted = p.deleted /\ p1.timer = p.timer
    /\ p1.wrapper = p.wrapper /\ p1.draining = p.draining /\ p1.drained = p.drained

\* Stream s ends, and nothing that waits moves.
H1Ended(p, q, s, to) == q.stream = [p.stream EXCEPT ![s] = to] /\ q.pending = p.pending

\* A client with a stream closes.
LEMMA H1CloseActive ==
    ASSUME NEW c \in H1Clients, NEW p, H1Calm(p, {}), NEW p1 \in H1State, H1Same(p, p1), h1Unused(p) # {},
           NEW to \in {"complete", "reset"}, p.wrapper[c] # "none",
           p1.stream = p.stream \/ p1.stream = [p.stream EXCEPT ![p.wrapper[c]] = to]
    PROVE  LET q == h1OnClose(p1, c, to, "none")
           IN  H1OK(q) /\ H1Ended(p, q, p.wrapper[c], to) /\ H1MayDrain(p, q)
<1>1. /\ H1Base(p, {}) /\ H1Fed(p) /\ H1Size(p) <= H1Limit /\ p.drained = 0
      /\ p \in H1State /\ H1Waits(p) /\ H1Listed(p, {}) /\ H1Served(p, {})
  BY DEF H1Calm, H1Base
<1>. DEFINE s == p.wrapper[c]
            t == [p1.stream EXCEPT ![s] = to]
            w == [p.wrapper EXCEPT ![c] = "none"]
            b == p.busy \ {c}
            m == p.timer \ {c}
            d == p.deleted \cup {c}
            q == [p1 EXCEPT !.stream = t, !.wrapper = w, !.ready = p.ready, !.busy = b, !.timer = m, !.deleted = d]
<1>2. /\ p1.pending = p.pending /\ p1.ready = p.ready /\ p1.busy = p.busy /\ p1.deleted = p.deleted /\ p1.timer = p.timer
      /\ p1.wrapper = p.wrapper /\ p1.draining = p.draining /\ p1.drained = p.drained
  BY DEF H1Same
<1>3. h1OnClose(p1, c, to, "none") = h1CheckForDrained(h1Replace(q))
  BY <1>2 DEF h1OnClose
<1>4. s \in H1Streams /\ s # "none" /\ c \in p.busy /\ c \notin p.timer /\ p.stream[s] = "active"
  BY <1>1, H1Types DEF H1Listed, H1Served
<1>5. /\ p.stream \in H1StreamMap /\ p.wrapper \in H1WrapperMap /\ p.ready \in H1Lists /\ p.busy \subseteq H1Clients
      /\ p.timer \subseteq H1Clients /\ p.deleted \subseteq H1Clients
      /\ \A e \in H1Clients : p.wrapper[e] \in H1Streams \cup {"none"}
  BY <1>1, H1Types
<1>6. /\ w \in H1WrapperMap /\ w[c] = "none" /\ \A e \in H1Clients : e # c => w[e] = p.wrapper[e]
      /\ w = [p.wrapper EXCEPT ![c] = "none"]
  BY <1>5 DEF H1WrapperMap
<1>. HIDE DEF s
<1>7. t = [p.stream EXCEPT ![s] = to]
  BY <1>4, <1>5 DEF H1StreamMap, s
<1>8. t \in H1StreamMap /\ t[s] = to /\ \A x \in H1Streams : x # s => t[x] = p.stream[x]
  BY <1>4, <1>5, <1>7 DEF H1StreamMap, H1Outcomes
<1>9. /\ b \subseteq H1Clients /\ m \subseteq H1Clients /\ d \subseteq H1Clients
      /\ b = p.busy \ {c} /\ m = p.timer \ {c} /\ d = p.deleted \cup {c}
  BY <1>5
<1>. HIDE DEF t, w, b, m, d
<1>10. q \in H1State
  BY <1>5, <1>6, <1>8, <1>9 DEF H1State
<1>11. /\ q.stream = t /\ q.pending = p.pending /\ q.ready = p.ready /\ q.busy = b /\ q.deleted = d /\ q.timer = m
       /\ q.wrapper = w /\ q.draining = p.draining /\ q.drained = p.drained
  BY <1>2 DEF H1State
<1>. HIDE DEF q
<1>12. H1Lost(p, q, c)
  BY <1>6, <1>9, <1>11 DEF H1Lost
<1>13. c \notin H1Elements(p.ready)
  BY <1>1, <1>4 DEF H1Listed
<1>14. h1Unused(q) # {}
  <2>1. q.busy \cup H1Elements(q.ready) = (p.busy \cup H1Elements(p.ready)) \ {c}
    BY <1>9, <1>11, <1>13
  <2>. QED
    BY <1>4, <1>12, <2>1, H1LostUnused
<1>15. H1Waits(q)
  BY <1>1, <1>4, <1>8, <1>11 DEF H1Waits
<1>16. H1Listed(q, {})
  BY <1>1, <1>5, <1>6, <1>9, <1>11, <1>13 DEF H1Listed
<1>17. H1Served(q, {})
  <2>1. \A e \in H1Clients : e # c /\ p.wrapper[e] # "none" => p.wrapper[e] # s
    BY <1>1 DEF H1Served, s
  <2>2. \A e \in H1Clients : w[e] # "none" => e # c /\ t[w[e]] = "active"
    BY <1>1, <1>5, <1>6, <1>8, <2>1 DEF H1Served
  <2>3. \A e, f \in H1Clients : w[e] = w[f] /\ w[e] # "none" => e = f
    BY <1>1, <1>6, <2>2 DEF H1Served
  <2>4. \A x \in H1Streams : t[x] = "active" => \E e \in H1Clients : w[e] = x
    <3>. SUFFICES ASSUME NEW x \in H1Streams, t[x] = "active" PROVE \E e \in H1Clients : w[e] = x
      OBVIOUS
    <3>1. x # s /\ p.stream[x] = "active"
      BY <1>8
    <3>2. PICK e \in H1Clients : p.wrapper[e] = x
      BY <1>1, <3>1 DEF H1Served
    <3>. QED
      BY <1>6, <3>1, <3>2 DEF s
  <2>. QED
    BY <1>11, <2>2, <2>3, <2>4 DEF H1Served
<1>18. H1Base(q, {})
  BY <1>10, <1>15, <1>16, <1>17 DEF H1Base
<1>19. H1Size(q) + 1 <= H1Limit
  <2>1. IsFiniteSet(p.busy) /\ Cardinality(p.busy) \in Nat /\ Len(p.ready) \in Nat
    BY <1>1, H1Counts
  <2>2. Cardinality(b) = Cardinality(p.busy) - 1
    BY <1>4, <1>9, <2>1, FS_RemoveElement
  <2>. QED
    BY <1>1, <1>11, <2>1, <2>2 DEF H1Size
<1>20. q.pending # <<>> => q.ready = <<>>
  BY <1>1, <1>11 DEF H1Fed
<1>. DEFINE r == h1Replace(q)
<1>21. H1Calm(r, {}) /\ r.stream = q.stream /\ r.pending = q.pending /\ r.draining = q.draining /\ r.drained = q.drained
  BY <1>1, <1>11, <1>14, <1>18, <1>19, <1>20, H1ReplaceCalm
<1>. HIDE DEF r
<1>22. H1OK(h1CheckForDrained(r)) /\ H1Checked(r, h1CheckForDrained(r))
  BY <1>21, H1CheckDrained
<1>23. H1MayDrain(p, h1CheckForDrained(r))
  BY <1>1, <1>11, <1>21, <1>22, H1CheckedDrains
<1>24. H1Ended(p, h1CheckForDrained(r), s, to)
  BY <1>7, <1>11, <1>21, <1>22 DEF H1Ended, H1Checked
<1>. QED
  BY <1>3, <1>22, <1>23, <1>24 DEF r, s

\* A ready client closes.
LEMMA H1CloseIdle ==
    ASSUME NEW c \in H1Clients, NEW p, H1Calm(p, {}), h1Unused(p) # {}, c \in H1Elements(p.ready)
    PROVE  LET q == h1OnClose(p, c, "reset", "none")
           IN  H1OK(q) /\ q.stream = p.stream /\ q.pending = p.pending /\ H1MayDrain(p, q)
<1>1. /\ H1Base(p, {}) /\ H1Fed(p) /\ H1Size(p) <= H1Limit /\ p.drained = 0
      /\ p \in H1State /\ H1Waits(p) /\ H1Listed(p, {}) /\ H1Served(p, {})
  BY DEF H1Calm, H1Base
<1>. DEFINE l == h1Without(p.ready, c)
            w == [p.wrapper EXCEPT ![c] = "none"]
            m == p.timer \ {c}
            d == p.deleted \cup {c}
            q == [p EXCEPT !.stream = p.stream, !.wrapper = w, !.ready = l, !.busy = p.busy, !.timer = m, !.deleted = d]
<1>2. c \notin p.busy /\ c \notin p.timer /\ p.wrapper[c] = "none"
  BY <1>1 DEF H1Listed
<1>3. h1OnClose(p, c, "reset", "none") = h1Replace(q)
  BY <1>2 DEF h1OnClose
<1>4. /\ p.stream \in H1StreamMap /\ p.wrapper \in H1WrapperMap /\ p.ready \in Seq(H1Clients) /\ p.busy \subseteq H1Clients
      /\ p.timer \subseteq H1Clients /\ p.deleted \subseteq H1Clients /\ H1Distinct(p.ready)
  BY <1>1, H1Types DEF H1Lists, H1Listed
<1>5. /\ l \in Seq(H1Clients) /\ Len(l) = Len(p.ready) - 1 /\ H1Distinct(l) /\ H1Elements(l) = H1Elements(p.ready) \ {c}
  BY <1>4, H1WithoutElements
<1>6. w = p.wrapper /\ w \in H1WrapperMap /\ w = [p.wrapper EXCEPT ![c] = "none"]
  BY <1>2, <1>4 DEF H1WrapperMap
<1>7. m \subseteq H1Clients /\ d \subseteq H1Clients /\ m = p.timer \ {c} /\ d = p.deleted \cup {c}
  BY <1>4
<1>. HIDE DEF l, w, m, d
<1>8. q \in H1State
  BY <1>1, <1>4, <1>5, <1>6, <1>7 DEF H1State, H1Lists
<1>9. /\ q.stream = p.stream /\ q.pending = p.pending /\ q.ready = l /\ q.busy = p.busy /\ q.deleted = d /\ q.timer = m
      /\ q.wrapper = w /\ q.draining = p.draining /\ q.drained = p.drained
  BY <1>1 DEF H1State
<1>. HIDE DEF q
<1>10. H1Lost(p, q, c)
  BY <1>6, <1>7, <1>9 DEF H1Lost
<1>11. h1Unused(q) # {}
  <2>1. q.busy \cup H1Elements(q.ready) = (p.busy \cup H1Elements(p.ready)) \ {c}
    BY <1>2, <1>5, <1>9
  <2>. QED
    BY <1>10, <2>1, H1LostUnused
<1>12. H1Waits(q) /\ H1Served(q, {})
  BY <1>1, <1>6, <1>9 DEF H1Waits, H1Served
<1>13. H1Listed(q, {})
  BY <1>1, <1>2, <1>4, <1>5, <1>6, <1>7, <1>9 DEF H1Listed
<1>14. H1Base(q, {})
  BY <1>8, <1>12, <1>13 DEF H1Base
<1>15. H1Size(q) + 1 <= H1Limit
  <2>1. Cardinality(p.busy) \in Nat /\ Len(p.ready) \in Nat
    BY <1>1, H1Counts
  <2>. QED
    BY <1>1, <1>5, <1>9, <2>1 DEF H1Size
<1>16. p.pending = <<>>
  <2>1. p.ready # <<>>
    BY <1>1, H1Counts
  <2>. QED
    BY <1>1, <2>1 DEF H1Fed
<1>. DEFINE r == h1Replace(q)
<1>17. H1Calm(r, {}) /\ r.stream = q.stream /\ r.pending = q.pending /\ r.draining = q.draining /\ r.drained = q.drained
  BY <1>1, <1>9, <1>11, <1>14, <1>15, <1>16, H1ReplaceCalm
<1>. HIDE DEF r
<1>18. H1OK(r) /\ H1MayDrain(p, r)
  BY <1>9, <1>17 DEF H1Calm, H1OK, H1MayDrain
<1>. QED
  BY <1>3, <1>9, <1>17, <1>18 DEF r

\* A client that connects closes: every request that waits fails.
LEMMA H1CloseConnecting ==
    ASSUME NEW c \in H1Clients, NEW p, H1Calm(p, {}), h1Unused(p) # {}, c \in p.timer, NEW again \in H1Streams \cup {"none"},
           again # "none" => p.stream[again] = "new" /\ p.pending # <<>>
    PROVE  LET q == h1OnClose(p, c, "reset", again)
           IN  \E r : H1OK(q) /\ H1Purged(p, r, again) /\ H1Checked(r, q) /\ p.drained = 0
<1>1. /\ H1Base(p, {}) /\ H1Fed(p) /\ H1Size(p) <= H1Limit /\ p.drained = 0
      /\ p \in H1State /\ H1Waits(p) /\ H1Listed(p, {}) /\ H1Served(p, {})
  BY DEF H1Calm, H1Base
<1>. DEFINE w == [p.wrapper EXCEPT ![c] = "none"]
            b == p.busy \ {c}
            m == p.timer \ {c}
            d == p.deleted \cup {c}
            q == [p EXCEPT !.stream = p.stream, !.wrapper = w, !.ready = p.ready, !.busy = b, !.timer = m, !.deleted = d]
            r == h1Purge(q, again)
<1>2. c \in p.busy /\ p.wrapper[c] = "none"
  BY <1>1 DEF H1Listed
<1>3. h1OnClose(p, c, "reset", again) = h1CheckForDrained(h1Replace(r))
  BY <1>2 DEF h1OnClose
<1>4. /\ p.stream \in H1StreamMap /\ p.wrapper \in H1WrapperMap /\ p.ready \in H1Lists /\ p.busy \subseteq H1Clients
      /\ p.timer \subseteq H1Clients /\ p.deleted \subseteq H1Clients
  BY <1>1, H1Types
<1>5. w = p.wrapper /\ w \in H1WrapperMap /\ w = [p.wrapper EXCEPT ![c] = "none"]
  BY <1>2, <1>4 DEF H1WrapperMap
<1>6. /\ b \subseteq H1Clients /\ m \subseteq H1Clients /\ d \subseteq H1Clients
      /\ b = p.busy \ {c} /\ m = p.timer \ {c} /\ d = p.deleted \cup {c}
  BY <1>4
<1>. HIDE DEF w, b, m, d
<1>7. q \in H1State
  BY <1>1, <1>4, <1>5, <1>6 DEF H1State
<1>8. /\ q.stream = p.stream /\ q.pending = p.pending /\ q.ready = p.ready /\ q.busy = b /\ q.deleted = d /\ q.timer = m
      /\ q.wrapper = w /\ q.draining = p.draining /\ q.drained = p.drained
  BY <1>1 DEF H1State
<1>. HIDE DEF q
<1>9. H1Lost(p, q, c)
  BY <1>5, <1>6, <1>8 DEF H1Lost
<1>10. c \notin H1Elements(p.ready)
  BY <1>1, <1>2 DEF H1Listed
<1>11. h1Unused(q) # {}
  <2>1. q.busy \cup H1Elements(q.ready) = (p.busy \cup H1Elements(p.ready)) \ {c}
    BY <1>6, <1>8, <1>10
  <2>. QED
    BY <1>2, <1>9, <2>1, H1LostUnused
<1>12. H1Waits(q) /\ H1Served(q, {})
  BY <1>1, <1>5, <1>8 DEF H1Waits, H1Served
<1>13. H1Listed(q, {})
  BY <1>1, <1>2, <1>4, <1>5, <1>6, <1>8, <1>10 DEF H1Listed
<1>14. H1Base(q, {})
  BY <1>7, <1>12, <1>13 DEF H1Base
<1>15. H1Size(q) <= H1Limit
  <2>1. IsFiniteSet(p.busy) /\ Cardinality(p.busy) \in Nat /\ Len(p.ready) \in Nat
    BY <1>1, H1Counts
  <2>2. Cardinality(b) = Cardinality(p.busy) - 1
    BY <1>2, <1>6, <2>1, FS_RemoveElement
  <2>3. H1Limit \in Nat
    BY H1Assumption DEF H1Limit
  <2>. QED
    BY <1>1, <1>8, <2>1, <2>2, <2>3 DEF H1Size
<1>16. again # "none" => q.stream[again] = "new" /\ q.pending # <<>> /\ q.ready = <<>>
  BY <1>1, <1>8 DEF H1Fed
<1>17. H1Calm(r, {}) /\ H1Purged(q, r, again) /\ Len(r.pending) <= 1
  BY <1>1, <1>8, <1>11, <1>14, <1>15, <1>16, H1PurgeCalm
<1>. HIDE DEF r
<1>18. h1Replace(r) = r
  BY <1>17, H1ReplacesNone
<1>19. H1Purged(p, r, again)
  BY <1>8, <1>17 DEF H1Purged
<1>20. H1OK(h1CheckForDrained(r)) /\ H1Checked(r, h1CheckForDrained(r))
  BY <1>17, H1CheckDrained
<1>. QED
  BY <1>1, <1>3, <1>18, <1>19, <1>20

----------------------------------------------------------------------------
(***************************************************************************)
(* The events of the dispatcher.  Besides the invariant, each lemma says   *)
(* what the step does to the streams and to the queue, which is what the   *)
(* refinement needs.                                                       *)
(***************************************************************************)

H1Running(p) == {s \in H1Streams : p.stream[s] = "active"}

\* The streams of `ended` end, and the oldest of those that wait takes a place if k = 1.
H1Step(p, q, ended, k) ==
    /\ ended \subseteq H1Running(p) /\ k \in {0, 1} /\ (k = 1 => p.pending # <<>>)
    /\ \A x \in H1Streams : IF x \in ended THEN q.stream[x] \in {"complete", "reset"}
                            ELSE IF k = 1 /\ x = p.pending[1] THEN q.stream[x] = "active" ELSE q.stream[x] = p.stream[x]
    /\ q.pending = IF k = 0 THEN p.pending ELSE SubSeq(p.pending, 2, Len(p.pending))
    /\ H1MayDrain(p, q)

LEMMA H1InCalm ==
    ASSUME H1Inv, ~h1.draining \/ h1.busy # {} \/ h1.pending # <<>> \/ h1.ready # <<>>
    PROVE  H1Calm(h1, {})
  BY DEF H1Inv, H1OK, H1Calm, H1Over

LEMMA H1InTypes ==
    ASSUME H1Inv
    PROVE  h1 \in H1State /\ H1Base(h1, {}) /\ H1Waits(h1) /\ H1Listed(h1, {}) /\ H1Served(h1, {})
  BY DEF H1Inv, H1OK, H1Base

LEMMA H1StillStep ==
    ASSUME NEW p, NEW q, q.stream = p.stream, q.pending = p.pending, H1MayDrain(p, q)
    PROVE  H1Step(p, q, {}, 0)
  BY DEF H1Step

LEMMA H1NewStreamInv ==
    ASSUME H1Inv, NEW s \in H1Streams, NEW roomToWait, NEW room, H1NewStream(s, roomToWait, room)
    PROVE  H1Inv' /\ H1Asked(h1, h1', s) /\ h1.stream[s] = "new" /\ ~h1.draining
<1>1. h1.stream[s] = "new" /\ ~h1.draining /\ h1Unused(h1) # {} /\ h1' = h1NewStream(h1, s, roomToWait, room)
  BY DEF H1NewStream
<1>2. H1Calm(h1, {})
  BY <1>1, H1InCalm
<1>3. H1Calm(h1', {}) /\ H1Asked(h1, h1', s)
  BY <1>1, <1>2, H1NewStreamOK
<1>. QED
  BY <1>1, <1>3 DEF H1Inv, H1OK, H1Calm

LEMMA H1AdvancedStep ==
    ASSUME NEW p \in H1State, NEW p1, NEW q, NEW ended, ended \subseteq H1Running(p), H1Waits(p),
           \A x \in H1Streams : p1.stream[x] = IF x \in ended THEN "complete" ELSE p.stream[x],
           p1.stream \in H1StreamMap, p1.pending = p.pending, p1.draining = p.draining, p1.drained = p.drained,
           H1Advanced(p1, q), H1MayDrain(p1, q)
    PROVE  \E k \in {0, 1} : H1Step(p, q, ended, k)
<1>1. H1MayDrain(p, q)
  BY DEF H1MayDrain
<1>2. CASE p.pending = <<>>
  <2>1. q.stream = p1.stream /\ q.pending = p.pending
    BY <1>2 DEF H1Advanced
  <2>2. H1Step(p, q, ended, 0)
    BY <1>1, <2>1 DEF H1Step
  <2>. QED
    BY <2>2
<1>3. CASE p.pending # <<>>
  <2>1. q.stream = [p1.stream EXCEPT ![p.pending[1]] = "active"] /\ q.pending = SubSeq(p.pending, 2, Len(p.pending))
    BY <1>3 DEF H1Advanced
  <2>2. p.pending[1] \in H1Streams /\ p.pending[1] \in H1Elements(p.pending)
    <3>1. p.pending \in Seq(H1Streams)
      BY H1Types DEF H1Queues
    <3>. QED
      BY <1>3, <3>1 DEF H1Elements
  <2>3. p.pending[1] \notin ended
    BY <2>2 DEF H1Waits, H1Running
  <2>4. \A x \in H1Streams : q.stream[x] = IF x = p.pending[1] THEN "active" ELSE p1.stream[x]
    BY <2>1, <2>2 DEF H1StreamMap
  <2>5. H1Step(p, q, ended, 1)
    BY <1>1, <1>3, <2>1, <2>3, <2>4 DEF H1Step
  <2>. QED
    BY <2>5
<1>. QED
  BY <1>2, <1>3

LEMMA H1ConnectedInv ==
    ASSUME H1Inv, NEW c \in H1Clients, H1Connected(c)
    PROVE  H1Inv' /\ \E k \in {0, 1} : H1Step(h1, h1', {}, k)
<1>. DEFINE m == h1.timer \ {c}
            p == [h1 EXCEPT !.timer = m]
<1>1. c \in h1.timer /\ h1' = h1ProcessIdleClient(p, c)
  BY DEF H1Connected, h1OnConnected
<1>2. h1 \in H1State /\ H1Waits(h1) /\ H1Listed(h1, {}) /\ H1Served(h1, {})
  BY H1InTypes
<1>3. c \in h1.busy /\ h1.wrapper[c] = "none"
  BY <1>1, <1>2 DEF H1Listed
<1>4. H1Calm(h1, {})
  BY <1>3, H1InCalm
<1>5. m \subseteq H1Clients /\ m = h1.timer \ {c}
  BY <1>2, H1Types
<1>. HIDE DEF m
<1>6. p \in H1State
  BY <1>2, <1>5 DEF H1State
<1>7. /\ p.stream = h1.stream /\ p.pending = h1.pending /\ p.ready = h1.ready /\ p.busy = h1.busy /\ p.deleted = h1.deleted
      /\ p.timer = m /\ p.wrapper = h1.wrapper /\ p.draining = h1.draining /\ p.drained = h1.drained
  BY <1>2 DEF H1State
<1>. HIDE DEF p
<1>8. H1Waits(p)
  BY <1>2, <1>7 DEF H1Waits
<1>9. H1Listed(p, {c})
  BY <1>2, <1>3, <1>5, <1>7 DEF H1Listed
<1>10. H1Served(p, {c})
  BY <1>2, <1>3, <1>7, H1Assumption DEF H1Served
<1>11. H1Calm(p, {c})
  BY <1>4, <1>6, <1>7, <1>8, <1>9, <1>10 DEF H1Calm, H1Base, H1Fed, H1Size
<1>12. H1OK(h1') /\ H1Advanced(p, h1') /\ H1MayDrain(p, h1')
  BY <1>1, <1>3, <1>5, <1>7, <1>11, H1ProcessIdleOK
<1>13. \E k \in {0, 1} : H1Step(h1, h1', {}, k)
  <2>1. p.stream \in H1StreamMap
    BY <1>6, H1Types
  <2>. QED
    BY <1>2, <1>7, <1>12, <2>1, H1AdvancedStep
<1>. QED
  BY <1>12, <1>13 DEF H1Inv

\* What H1Purged and H1Checked say together.
H1Failed(p, q, again) ==
    /\ \A s \in H1Streams : q.stream[s] = IF s \in H1Elements(p.pending) THEN "failed"
                                          ELSE IF s = again THEN "pending" ELSE p.stream[s]
    /\ q.pending = IF again = "none" THEN <<>> ELSE Append(<<>>, again)
    /\ again # "none" => p.stream[again] = "new" /\ ~p.draining
    /\ H1MayDrain(p, q)

LEMMA H1ConnectFailsInv ==
    ASSUME H1Inv, NEW c \in H1Clients, NEW again \in H1Streams \cup {"none"}, H1ConnectFails(c, again)
    PROVE  H1Inv' /\ H1Failed(h1, h1', again)
<1>1. /\ c \in h1.timer /\ h1Unused(h1) # {} /\ h1' = h1OnClose(h1, c, "reset", again)
      /\ again # "none" => h1.stream[again] = "new" /\ ~h1.draining /\ h1.pending # <<>>
  BY DEF H1ConnectFails
<1>2. c \in h1.busy
  BY <1>1, H1InTypes DEF H1Listed
<1>3. H1Calm(h1, {})
  BY <1>2, H1InCalm
<1>4. PICK r : H1OK(h1') /\ H1Purged(h1, r, again) /\ H1Checked(r, h1') /\ h1.drained = 0
  BY <1>1, <1>3, H1CloseConnecting
<1>5. H1MayDrain(h1, h1')
  BY <1>4, H1CheckedDrains DEF H1Purged
<1>6. H1Failed(h1, h1', again)
  BY <1>1, <1>4, <1>5 DEF H1Failed, H1Purged, H1Checked
<1>. QED
  BY <1>4, <1>6 DEF H1Inv

LEMMA H1EncodeCompleteInv ==
    ASSUME H1Inv, NEW c \in H1Clients, H1EncodeComplete(c)
    PROVE  H1Inv' /\ H1Step(h1, h1', {}, 0)
<1>. DEFINE u == h1.sent \cup {c}
            q == [h1 EXCEPT !.sent = u]
<1>1. h1 \in H1State /\ h1' = q
  BY H1InTypes DEF H1EncodeComplete
<1>2. u \subseteq H1Clients
  BY <1>1, H1Types
<1>. HIDE DEF u
<1>3. q \in H1State
  BY <1>1, <1>2 DEF H1State
<1>4. /\ q.stream = h1.stream /\ q.pending = h1.pending /\ q.ready = h1.ready /\ q.busy = h1.busy /\ q.deleted = h1.deleted
      /\ q.timer = h1.timer /\ q.wrapper = h1.wrapper /\ q.draining = h1.draining /\ q.drained = h1.drained
  BY <1>1 DEF H1State
<1>. HIDE DEF q
<1>5. H1Inv'
  BY <1>1, <1>3, <1>4 DEF H1Inv, H1OK, H1Base, H1Waits, H1Listed, H1Served, H1Fed, H1Size, H1Over
<1>6. H1Step(h1, h1', {}, 0)
  BY <1>1, <1>4, H1StillStep DEF H1MayDrain
<1>. QED
  BY <1>5, <1>6

LEMMA H1DeferredDeleteInv ==
    ASSUME H1Inv, H1DeferredDelete
    PROVE  H1Inv' /\ H1Step(h1, h1', {}, 0)
<1>. DEFINE none == {}
            q == [h1 EXCEPT !.deleted = none]
<1>1. h1 \in H1State /\ h1' = q
  BY H1InTypes DEF H1DeferredDelete
<1>2. none \subseteq H1Clients /\ none = {}
  OBVIOUS
<1>. HIDE DEF none
<1>3. q \in H1State
  BY <1>1, <1>2 DEF H1State
<1>4. /\ q.stream = h1.stream /\ q.pending = h1.pending /\ q.ready = h1.ready /\ q.busy = h1.busy /\ q.deleted = none
      /\ q.timer = h1.timer /\ q.wrapper = h1.wrapper /\ q.draining = h1.draining /\ q.drained = h1.drained
  BY <1>1 DEF H1State
<1>. HIDE DEF q
<1>5. H1Listed(q, {})
  BY <1>2, <1>4, H1InTypes DEF H1Listed
<1>6. H1Inv'
  BY <1>1, <1>3, <1>4, <1>5 DEF H1Inv, H1OK, H1Base, H1Waits, H1Served, H1Fed, H1Size, H1Over
<1>7. H1Step(h1, h1', {}, 0)
  BY <1>1, <1>4, H1StillStep DEF H1MayDrain
<1>. QED
  BY <1>6, <1>7

LEMMA H1IdleClosesInv ==
    ASSUME H1Inv, NEW c \in H1Clients, H1IdleCloses(c)
    PROVE  H1Inv' /\ H1Step(h1, h1', {}, 0)
<1>1. c \in H1Elements(h1.ready) /\ h1Unused(h1) # {} /\ h1' = h1OnClose(h1, c, "reset", "none")
  BY DEF H1IdleCloses
<1>2. h1.ready # <<>>
  BY <1>1, H1EmptyList
<1>3. H1Calm(h1, {})
  BY <1>2, H1InCalm
<1>4. H1OK(h1') /\ h1'.stream = h1.stream /\ h1'.pending = h1.pending /\ H1MayDrain(h1, h1')
  BY <1>1, <1>3, H1CloseIdle
<1>. QED
  BY <1>4, H1StillStep DEF H1Inv

\* A stream that ends with its connection.
LEMMA H1EndedStep ==
    ASSUME NEW p \in H1State, NEW q, NEW s \in H1Running(p), NEW to \in {"complete", "reset"}, H1Ended(p, q, s, to), H1MayDrain(p, q)
    PROVE  H1Step(p, q, {s}, 0)
<1>1. s \in H1Streams /\ p.stream \in H1StreamMap
  BY H1Types DEF H1Running
<1>2. \A x \in H1Streams : q.stream[x] = IF x = s THEN to ELSE p.stream[x]
  BY <1>1 DEF H1Ended, H1StreamMap
<1>. QED
  BY <1>2 DEF H1Step, H1Ended

LEMMA H1ActiveClosesInv ==
    ASSUME H1Inv, NEW c \in H1Clients, NEW to \in {"complete", "reset"}, H1ActiveCloses(c, to)
    PROVE  H1Inv' /\ H1Step(h1, h1', {h1.wrapper[c]}, 0)
<1>1. h1.wrapper[c] # "none" /\ h1Unused(h1) # {} /\ h1' = h1OnClose(h1, c, to, "none")
  BY DEF H1ActiveCloses
<1>2. h1 \in H1State /\ H1Listed(h1, {}) /\ H1Served(h1, {})
  BY H1InTypes
<1>3. c \in h1.busy /\ h1.wrapper[c] \in H1Running(h1)
  BY <1>1, <1>2, H1Types DEF H1Listed, H1Served, H1Running
<1>4. H1Calm(h1, {})
  BY <1>3, H1InCalm
<1>5. H1Same(h1, h1)
  BY DEF H1Same
<1>6. H1OK(h1') /\ H1Ended(h1, h1', h1.wrapper[c], to) /\ H1MayDrain(h1, h1')
  BY <1>1, <1>2, <1>4, <1>5, H1CloseActive
<1>. QED
  BY <1>2, <1>3, <1>6, H1EndedStep DEF H1Inv

LEMMA H1ResponseCompleteInv ==
    ASSUME H1Inv, NEW c \in H1Clients, NEW sawClose \in BOOLEAN, H1ResponseComplete(c, sawClose)
    PROVE  H1Inv' /\ \E k \in {0, 1} : H1Step(h1, h1', {h1.wrapper[c]}, k)
<1>. DEFINE s == h1.wrapper[c]
            t == [h1.stream EXCEPT ![s] = "complete"]
            n == IF h1.remaining[c] > 0 /\ c \in h1.sent /\ ~sawClose THEN h1.remaining[c] - 1 ELSE h1.remaining[c]
            m == [h1.remaining EXCEPT ![c] = n]
            p == [h1 EXCEPT !.stream = t, !.remaining = m]
<1>1. s # "none" /\ h1Unused(h1) # {} /\ h1' = h1OnResponseComplete(h1, c, sawClose)
  BY DEF H1ResponseComplete
<1>2. h1 \in H1State /\ H1Waits(h1) /\ H1Listed(h1, {}) /\ H1Served(h1, {})
  BY H1InTypes
<1>3. c \in h1.busy /\ c \notin h1.timer /\ s \in H1Running(h1) /\ s \in H1Streams /\ h1.stream[s] = "active"
  BY <1>1, <1>2, H1Types DEF H1Listed, H1Served, H1Running
<1>4. H1Calm(h1, {})
  BY <1>3, H1InCalm
<1>5. \/ h1' = h1OnClose(p, c, "complete", "none")
      \/ h1' = h1ProcessIdleClient(p, c)
  BY <1>1 DEF h1OnResponseComplete
<1>6. h1.stream \in H1StreamMap /\ h1.remaining \in H1CountMap /\ n \in Nat
  BY <1>2, H1Types
<1>. HIDE DEF n
<1>7. /\ t \in H1StreamMap /\ m \in H1CountMap /\ t = [h1.stream EXCEPT ![s] = "complete"]
      /\ t[s] = "complete" /\ \A x \in H1Streams : x # s => t[x] = h1.stream[x]
  BY <1>3, <1>6 DEF H1StreamMap, H1CountMap, H1Outcomes
<1>. HIDE DEF t, m
<1>8. p \in H1State
  BY <1>2, <1>7 DEF H1State
<1>9. /\ p.stream = t /\ p.pending = h1.pending /\ p.ready = h1.ready /\ p.busy = h1.busy /\ p.deleted = h1.deleted
      /\ p.timer = h1.timer /\ p.wrapper = h1.wrapper /\ p.draining = h1.draining /\ p.drained = h1.drained
  BY <1>2 DEF H1State
<1>. HIDE DEF p
<1>10. CASE h1' = h1OnClose(p, c, "complete", "none")
  <2>1. H1Same(h1, p)
    BY <1>9 DEF H1Same
  <2>2. H1OK(h1') /\ H1Ended(h1, h1', s, "complete") /\ H1MayDrain(h1, h1')
    <3>1. p.stream = h1.stream \/ p.stream = [h1.stream EXCEPT ![h1.wrapper[c]] = "complete"]
      BY <1>7, <1>9
    <3>2. h1.wrapper[c] # "none" /\ h1Unused(h1) # {} /\ "complete" \in {"complete", "reset"}
      BY <1>1
    <3>3. LET q == h1OnClose(p, c, "complete", "none")
          IN  H1OK(q) /\ H1Ended(h1, q, h1.wrapper[c], "complete") /\ H1MayDrain(h1, q)
      BY <1>4, <1>8, <2>1, <3>1, <3>2, H1CloseActive
    <3>. QED
      BY <1>10, <3>3
  <2>. QED
    BY <1>2, <1>3, <2>2, H1EndedStep DEF H1Inv
<1>11. CASE h1' = h1ProcessIdleClient(p, c)
  <2>1. H1Waits(p)
    BY <1>2, <1>3, <1>7, <1>9 DEF H1Waits
  <2>2. H1Listed(p, {c})
    BY <1>2, <1>9 DEF H1Listed
  <2>3. H1Served(p, {c})
    <3>1. \A d \in H1Clients \ {c} : h1.wrapper[d] # s
      BY <1>1, <1>2 DEF H1Served
    <3>2. \A d \in H1Clients : h1.wrapper[d] \in H1Streams \cup {"none"}
      BY <1>2, H1Types
    <3>3. \A d \in H1Clients \ {c} : p.wrapper[d] # "none" => p.stream[p.wrapper[d]] = "active"
      BY <1>2, <1>7, <1>9, <3>1, <3>2 DEF H1Served
    <3>4. \A x \in H1Streams : p.stream[x] = "active" => \E d \in H1Clients \ {c} : p.wrapper[d] = x
      BY <1>2, <1>7, <1>9 DEF H1Served
    <3>. QED
      BY <1>2, <1>9, <3>3, <3>4 DEF H1Served
  <2>4. H1Calm(p, {c})
    BY <1>4, <1>8, <1>9, <2>1, <2>2, <2>3 DEF H1Calm, H1Base, H1Fed, H1Size
  <2>5. H1OK(h1') /\ H1Advanced(p, h1') /\ H1MayDrain(p, h1')
    BY <1>3, <1>9, <1>11, <2>4, H1ProcessIdleOK
  <2>6. \A x \in H1Streams : p.stream[x] = IF x \in {s} THEN "complete" ELSE h1.stream[x]
    BY <1>7, <1>9
  <2>7. {s} \subseteq H1Running(h1)
    BY <1>3
  <2>8. \E k \in {0, 1} : H1Step(h1, h1', {s}, k)
    <3>1. p.stream \in H1StreamMap /\ p.pending = h1.pending /\ p.draining = h1.draining /\ p.drained = h1.drained
      BY <1>7, <1>9
    <3>. HIDE DEF s
    <3>. QED
      BY <1>2, <2>5, <2>6, <2>7, <3>1, H1AdvancedStep
  <2>. QED
    BY <2>5, <2>8 DEF H1Inv
<1>. QED
  BY <1>5, <1>10, <1>11

\* A request that waits is cancelled.
H1Cancelled(p, q, s) ==
    /\ p.stream[s] = "pending" /\ q.stream = [p.stream EXCEPT ![s] = "cancelled"]
    /\ \E k \in 1..Len(p.pending) : p.pending[k] = s /\ q.pending = h1Removed(p.pending, k)
    /\ H1MayDrain(p, q)

LEMMA H1CancelInv ==
    ASSUME H1Inv, NEW s \in H1Streams, H1Cancel(s)
    PROVE  H1Inv' /\ H1Cancelled(h1, h1', s)
<1>. DEFINE t == [h1.stream EXCEPT ![s] = "cancelled"]
            l == h1Without(h1.pending, s)
            q == [h1 EXCEPT !.stream = t, !.pending = l]
<1>1. h1.stream[s] = "pending" /\ h1' = h1CheckForDrained(q)
  BY DEF H1Cancel
<1>2. h1 \in H1State /\ H1Waits(h1) /\ H1Listed(h1, {}) /\ H1Served(h1, {})
  BY H1InTypes
<1>3. /\ h1.pending \in Seq(H1Streams) /\ H1Distinct(h1.pending) /\ h1.stream \in H1StreamMap /\ s \in H1Elements(h1.pending)
      /\ Len(h1.pending) \in Nat /\ Len(h1.pending) <= H1MaxPending
  BY <1>1, <1>2, H1Types, H1Counts DEF H1Queues, H1Waits
<1>4. PICK k \in 1..Len(h1.pending) :
         /\ h1.pending[k] = s /\ l = h1Removed(h1.pending, k)
         /\ l \in Seq(H1Streams) /\ Len(l) = Len(h1.pending) - 1 /\ H1Distinct(l) /\ H1Elements(l) = H1Elements(h1.pending) \ {s}
  BY <1>3, H1WithoutElements
<1>5. h1.pending # <<>>
  BY <1>3, H1EmptyList
<1>6. H1Calm(h1, {})
  BY <1>5, H1InCalm
<1>7. /\ t \in H1StreamMap /\ t = [h1.stream EXCEPT ![s] = "cancelled"]
      /\ t[s] = "cancelled" /\ \A x \in H1Streams : x # s => t[x] = h1.stream[x]
  BY <1>3 DEF H1StreamMap, H1Outcomes
<1>. HIDE DEF t, l
<1>8. q \in H1State
  BY <1>2, <1>4, <1>7 DEF H1State, H1Queues
<1>9. /\ q.stream = t /\ q.pending = l /\ q.ready = h1.ready /\ q.busy = h1.busy /\ q.deleted = h1.deleted
      /\ q.timer = h1.timer /\ q.wrapper = h1.wrapper /\ q.draining = h1.draining /\ q.drained = h1.drained
  BY <1>2 DEF H1State
<1>. HIDE DEF q
<1>10. H1Waits(q)
  BY <1>2, <1>3, <1>4, <1>7, <1>9, H1Assumption DEF H1Waits
<1>11. H1Listed(q, {})
  BY <1>2, <1>9 DEF H1Listed
<1>12. H1Served(q, {})
  <2>1. \A d \in H1Clients : h1.wrapper[d] \in H1Streams \cup {"none"}
    BY <1>2, H1Types
  <2>. QED
    BY <1>1, <1>2, <1>7, <1>9, <2>1 DEF H1Served
<1>13. H1Calm(q, {})
  BY <1>5, <1>6, <1>8, <1>9, <1>10, <1>11, <1>12 DEF H1Calm, H1Base, H1Fed, H1Size
<1>14. H1OK(h1') /\ H1Checked(q, h1')
  BY <1>1, <1>13, H1CheckDrained
<1>15. H1MayDrain(h1, h1')
  BY <1>6, <1>9, <1>14, H1CheckedDrains DEF H1Calm
<1>16. H1Cancelled(h1, h1', s)
  BY <1>1, <1>4, <1>7, <1>9, <1>14, <1>15 DEF H1Cancelled, H1Checked
<1>. QED
  BY <1>14, <1>16 DEF H1Inv

\* The pool is asked to drain.
H1Asks(p, q) ==
    /\ ~p.draining /\ q.draining /\ q.stream = p.stream /\ q.pending = p.pending
    /\ q.drained = 0 \/ (q.drained = 1 /\ p.pending = <<>> /\ H1Running(p) = {})

LEMMA H1AddDrainedInv ==
    ASSUME H1Inv, H1AddDrainedCallback
    PROVE  H1Inv' /\ H1Asks(h1, h1')
<1>. DEFINE yes == TRUE
            q == [h1 EXCEPT !.draining = yes]
<1>1. ~h1.draining /\ h1' = h1CheckForDrained(q)
  BY DEF H1AddDrainedCallback
<1>2. h1 \in H1State /\ H1Waits(h1) /\ H1Listed(h1, {}) /\ H1Served(h1, {})
  BY H1InTypes
<1>3. H1Calm(h1, {})
  BY <1>1, H1InCalm
<1>4. yes \in BOOLEAN /\ yes = TRUE
  OBVIOUS
<1>. HIDE DEF yes
<1>5. q \in H1State
  BY <1>2, <1>4 DEF H1State
<1>6. /\ q.stream = h1.stream /\ q.pending = h1.pending /\ q.ready = h1.ready /\ q.busy = h1.busy /\ q.deleted = h1.deleted
      /\ q.timer = h1.timer /\ q.wrapper = h1.wrapper /\ q.drained = h1.drained
  BY <1>2 DEF H1State
<1>7. q.draining = yes
  BY <1>2 DEF H1State
<1>. HIDE DEF q
<1>8. H1Waits(q) /\ H1Listed(q, {}) /\ H1Served(q, {})
  BY <1>2, <1>6 DEF H1Waits, H1Listed, H1Served
<1>9. H1Calm(q, {})
  BY <1>3, <1>5, <1>6, <1>8 DEF H1Calm, H1Base, H1Fed, H1Size
<1>10. H1OK(h1') /\ H1Checked(q, h1')
  BY <1>1, <1>9, H1CheckDrained
<1>11. h1.drained = 0
  BY <1>3 DEF H1Calm
<1>12. h1'.draining
  BY <1>4, <1>7, <1>10 DEF H1Checked
<1>13. H1Asks(h1, h1')
  BY <1>1, <1>6, <1>10, <1>11, <1>12 DEF H1Asks, H1Checked, H1Running
<1>. QED
  BY <1>10, <1>13 DEF H1Inv

LEMMA H1InitInv == H1Init => H1Inv
<1>. SUFFICES ASSUME H1Init PROVE H1Inv
  OBVIOUS
<1>1. /\ h1.stream = [s \in H1Streams |-> "new"] /\ h1.pending = <<>> /\ h1.ready = <<>> /\ h1.busy = {} /\ h1.deleted = {}
      /\ h1.timer = {} /\ h1.wrapper = [c \in H1Clients |-> "none"] /\ h1.drained = 0
  BY DEF H1Init
<1>2. h1 \in H1State
  <2>. DEFINE st == [s \in H1Streams |-> "new"]
              wr == [c \in H1Clients |-> "none"]
              rm == [c \in H1Clients |-> 0]
              no == FALSE
              zero == 0
              emp == {}
              lst == <<>>
  <2>1. /\ st \in H1StreamMap /\ wr \in H1WrapperMap /\ rm \in H1CountMap /\ no \in BOOLEAN /\ zero \in Nat
        /\ emp \subseteq H1Clients
    BY DEF H1StreamMap, H1WrapperMap, H1CountMap, H1Outcomes
  <2>2. lst \in H1Queues /\ lst \in H1Lists
    BY H1EmptyList DEF H1Queues, H1Lists
  <2>3. h1 = [stream |-> st, pending |-> lst, ready |-> lst, busy |-> emp, deleted |-> emp, timer |-> emp, wrapper |-> wr,
              sent |-> emp, remaining |-> rm, draining |-> no, drained |-> zero]
    BY DEF H1Init
  <2>. HIDE DEF st, wr, rm, no, zero, emp, lst
  <2>. QED
    BY <2>1, <2>2, <2>3 DEF H1State
<1>3. H1Elements(h1.pending) = {} /\ H1Elements(h1.ready) = {} /\ H1Distinct(h1.pending) /\ H1Distinct(h1.ready)
      /\ Len(h1.pending) = 0 /\ Len(h1.ready) = 0
  BY <1>1, H1EmptyList
<1>4. H1Waits(h1)
  BY <1>1, <1>3, H1Assumption DEF H1Waits
<1>5. H1Listed(h1, {}) /\ H1Served(h1, {})
  BY <1>1, <1>3 DEF H1Listed, H1Served
<1>6. H1Size(h1) <= H1Limit
  <2>1. Cardinality(h1.busy) = 0
    BY <1>1, FS_EmptySet
  <2>. QED
    BY <1>3, <2>1, H1Assumption DEF H1Size, H1Limit
<1>. QED
  BY <1>1, <1>2, <1>4, <1>5, <1>6 DEF H1Inv, H1OK, H1Base, H1Fed

\* What a step of the pool is: the classes that the refinement tells apart.
H1Change ==
    \/ \E s \in H1Streams : H1Asked(h1, h1', s) /\ h1.stream[s] = "new" /\ ~h1.draining
    \/ \E ended, k : H1Step(h1, h1', ended, k)
    \/ \E again \in H1Streams \cup {"none"} : H1Failed(h1, h1', again)
    \/ \E s \in H1Streams : H1Cancelled(h1, h1', s)
    \/ H1Asks(h1, h1')

LEMMA H1NextInv == H1Inv /\ H1Next => H1Inv' /\ H1Change
<1>. SUFFICES ASSUME H1Inv, H1Next PROVE H1Inv' /\ H1Change
  OBVIOUS
<1>1. ASSUME NEW s \in H1Streams, NEW roomToWait \in BOOLEAN, NEW room \in BOOLEAN, H1NewStream(s, roomToWait, room)
      PROVE  H1Inv' /\ H1Change
  BY <1>1, H1NewStreamInv DEF H1Change
<1>2. ASSUME NEW s \in H1Streams, H1Cancel(s) PROVE H1Inv' /\ H1Change
  BY <1>2, H1CancelInv DEF H1Change
<1>3. ASSUME NEW c \in H1Clients, H1ConnectEnds(c) PROVE H1Inv' /\ H1Change
  <2>1. CASE H1Connected(c)
    BY <2>1, H1ConnectedInv DEF H1Change
  <2>2. ASSUME NEW again \in H1Streams \cup {"none"}, H1ConnectFails(c, again) PROVE H1Inv' /\ H1Change
    BY <2>2, H1ConnectFailsInv DEF H1Change
  <2>. QED
    BY <1>3, <2>1, <2>2 DEF H1ConnectEnds
<1>4. ASSUME NEW c \in H1Clients, H1StreamEnds(c) PROVE H1Inv' /\ H1Change
  <2>1. ASSUME NEW sawClose \in BOOLEAN, H1ResponseComplete(c, sawClose) PROVE H1Inv' /\ H1Change
    BY <2>1, H1ResponseCompleteInv DEF H1Change
  <2>2. ASSUME NEW to \in {"complete", "reset"}, H1ActiveCloses(c, to) PROVE H1Inv' /\ H1Change
    BY <2>2, H1ActiveClosesInv DEF H1Change
  <2>. QED
    BY <1>4, <2>1, <2>2 DEF H1StreamEnds
<1>5. ASSUME NEW c \in H1Clients, H1EncodeComplete(c) PROVE H1Inv' /\ H1Change
  BY <1>5, H1EncodeCompleteInv DEF H1Change
<1>6. ASSUME NEW c \in H1Clients, H1IdleCloses(c) PROVE H1Inv' /\ H1Change
  BY <1>6, H1IdleClosesInv DEF H1Change
<1>7. CASE H1AddDrainedCallback
  BY <1>7, H1AddDrainedInv DEF H1Change
<1>8. CASE H1DeferredDelete
  BY <1>8, H1DeferredDeleteInv DEF H1Change
<1>. QED
  BY <1>1, <1>2, <1>3, <1>4, <1>5, <1>6, <1>7, <1>8 DEF H1Next

LEMMA H1InvSound == H1Inv => H1Sound
<1>. SUFFICES ASSUME H1Inv PROVE H1Sound
  OBVIOUS
<1>1. /\ h1 \in H1State /\ H1Waits(h1) /\ H1Listed(h1, {}) /\ H1Served(h1, {}) /\ H1Fed(h1) /\ H1Size(h1) <= H1Limit
      /\ h1.drained = 0 \/ H1Over(h1)
  BY DEF H1Inv, H1OK, H1Base
<1>2. H1TypeOK
  <2>1. h1.drained \in 0..1
    BY <1>1 DEF H1Over
  <2>. QED
    BY <1>1, <2>1, H1Types DEF H1TypeOK, H1StreamMap, H1Outcomes, H1Waits
<1>3. H1ListsSound
  <2>1. /\ h1.busy \cap H1Elements(h1.ready) = {} /\ h1.deleted \cap (h1.busy \cup H1Elements(h1.ready)) = {}
    BY <1>1 DEF H1Listed
  <2>2. ASSUME NEW c \in H1Clients
        PROVE  /\ (c \in h1.busy) <=> (c \in h1.timer) # (h1.wrapper[c] # "none")
               /\ c \notin h1.busy => c \notin h1.timer /\ h1.wrapper[c] = "none"
    BY <1>1 DEF H1Listed
  <2>3. ASSUME NEW s \in H1Streams, h1.stream[s] = "active"
        PROVE  Cardinality({c \in H1Clients : h1.wrapper[c] = s}) = 1
    <3>1. PICK c \in H1Clients : h1.wrapper[c] = s
      BY <1>1, <2>3 DEF H1Served
    <3>2. s # "none"
      BY H1Assumption
    <3>3. {d \in H1Clients : h1.wrapper[d] = s} = {c}
      BY <1>1, <3>1, <3>2 DEF H1Served
    <3>. QED
      BY <3>3, FS_Singleton
  <2>. QED
    BY <2>1, <2>2, <2>3 DEF H1ListsSound
<1>4. H1NoStarvation /\ H1ConnectionBound
  BY <1>1 DEF H1NoStarvation, H1ConnectionBound, H1Fed, H1Size, H1Limit
<1>. QED
  BY <1>2, <1>3, <1>4 DEF H1Sound

\* The HTTP/1.1 pool, for any number of streams and connections and any limits: every
\* client is in one list, the one its timer and its stream say; no two have the same
\* stream; a request waits only while a connection is being made or busy, and none is
\* idle; and the pool keeps to the circuit breaker but for one connection.
THEOREM H1SoundHolds == H1Spec => []H1Sound
<1>1. H1Inv /\ UNCHANGED h1 => H1Inv'
  BY DEF H1Inv
<1>2. H1Inv /\ [H1Next]_h1 => H1Inv'
  BY <1>1, H1NextInv
<1>3. H1Spec => []H1Inv
  BY <1>2, H1InitInv, PTL DEF H1Spec
<1>. QED
  BY <1>3, H1InvSound, PTL

----------------------------------------------------------------------------
(***************************************************************************)
(* The refinement: each class of steps is a step of StreamPool.            *)
(***************************************************************************)

LEMMA H1PhaseFacts ==
    ASSUME NEW x \in H1Outcomes
    PROVE  /\ h1PhaseOf(x) = "served" <=> x = "active"
           /\ h1PhaseOf(x) = "waiting" <=> x = "pending"
           /\ x \in {"complete", "reset"} => h1PhaseOf(x) = "ended"
           /\ x \in {"new", "failed", "cancelled"} => h1PhaseOf(x) = x
           /\ x = "overflow" => h1PhaseOf(x) = "failed"
  BY DEF h1PhaseOf, H1Outcomes

LEMMA H1PhaseMap ==
    ASSUME H1Inv, H1Inv'
    PROVE  /\ h1 \in H1State /\ h1' \in H1State
           /\ \A s \in H1Streams : h1.stream[s] \in H1Outcomes /\ h1'.stream[s] \in H1Outcomes
           /\ H1Phase = [s \in H1Streams |-> h1PhaseOf(h1.stream[s])]
           /\ H1Phase' = [s \in H1Streams |-> h1PhaseOf(h1'.stream[s])]
<1>1. h1 \in H1State /\ h1' \in H1State
  BY DEF H1Inv, H1OK, H1Base
<1>2. \A s \in H1Streams : h1.stream[s] \in H1Outcomes
  BY <1>1, H1Types
<1>3. \A s \in H1Streams : h1'.stream[s] \in H1Outcomes
  BY <1>1, H1Types
<1>. QED
  BY <1>1, <1>2, <1>3 DEF H1Phase

LEMMA H1DrainRefines ==
    ASSUME H1Inv, H1Inv', H1MayDrain(h1, h1')
    PROVE  H1Abstract!MayDrain
<1>1. CASE h1'.drained = h1.drained
  BY <1>1 DEF H1MayDrain, H1Abstract!MayDrain, H1Drain
<1>2. CASE /\ h1.draining /\ h1.drained = 0 /\ h1'.drained = 1 /\ h1'.pending = <<>>
           /\ \A s \in H1Streams : h1'.stream[s] # "active"
  <2>1. H1Drain = "asked" /\ H1Drain' = "done"
    BY <1>2 DEF H1Drain, H1MayDrain
  <2>2. \A s \in H1Streams : H1Phase'[s] # "served"
    BY <1>2, H1PhaseMap, H1PhaseFacts
  <2>. QED
    BY <1>2, <2>1, <2>2 DEF H1Abstract!MayDrain
<1>. QED
  BY <1>1, <1>2 DEF H1MayDrain

LEMMA H1AskRefines ==
    ASSUME H1Inv, H1Inv', NEW s \in H1Streams, H1Asked(h1, h1', s), h1.stream[s] = "new", ~h1.draining
    PROVE  H1Abstract!Next
<1>1. PICK outcome \in {"active", "pending", "overflow"} :
         /\ h1'.stream = [h1.stream EXCEPT ![s] = outcome]
         /\ h1'.pending = IF outcome = "pending" THEN Append(h1.pending, s) ELSE h1.pending
         /\ outcome = "active" => h1.ready # <<>>
  BY DEF H1Asked
<1>2. h1.stream \in H1StreamMap
  BY H1PhaseMap, H1Types
<1>3. \A x \in H1Streams : h1'.stream[x] = IF x = s THEN outcome ELSE h1.stream[x]
  BY <1>1, <1>2 DEF H1StreamMap
<1>4. PICK o \in {"failed", "served", "waiting"} : /\ h1PhaseOf(outcome) = o
                                                   /\ o = "waiting" <=> outcome = "pending"
                                                   /\ o = "served" <=> outcome = "active"
  BY H1PhaseFacts DEF H1Outcomes
<1>5. o = "served" => h1.pending = <<>>
  BY <1>1, <1>4 DEF H1Inv, H1OK, H1Fed
<1>6. H1Phase' = [x \in H1Streams |-> IF x = s THEN o ELSE IF x \in {} THEN "ended" ELSE H1Phase[x]]
  BY <1>3, <1>4, H1PhaseMap
<1>7. H1Phase[s] = "new"
  BY H1PhaseMap, H1PhaseFacts
<1>8. H1Drain = "no" /\ H1Drain' = H1Drain
  BY DEF H1Drain, H1Asked
<1>9. h1'.pending = IF o = "waiting" THEN Append(h1.pending, s) ELSE h1.pending
  BY <1>1, <1>4
<1>10. H1Abstract!Ask(s, {})
  BY <1>5, <1>6, <1>7, <1>8, <1>9 DEF H1Abstract!Ask
<1>. QED
  BY <1>10 DEF H1Abstract!Next

LEMMA H1Prefixes ==
    ASSUME NEW S, NEW q \in Seq(S)
    PROVE  /\ SubSeq(q, 0 + 1, Len(q)) = q /\ H1Abstract!Elements(SubSeq(q, 1, 0)) = {} /\ 0 \in 0..Len(q)
           /\ q # <<>> => H1Abstract!Elements(SubSeq(q, 1, 1)) = {q[1]} /\ 1 \in 0..Len(q)
<1>1. SubSeq(q, 0 + 1, Len(q)) = q /\ SubSeq(q, 1, 0) = <<>> /\ 0 \in 0..Len(q)
  OBVIOUS
<1>2. H1Abstract!Elements(<<>>) = {}
  BY DEF H1Abstract!Elements
<1>3. ASSUME q # <<>> PROVE H1Abstract!Elements(SubSeq(q, 1, 1)) = {q[1]} /\ 1 \in 0..Len(q)
  <2>. DEFINE r == SubSeq(q, 1, 1)
  <2>1. Len(q) \in Nat /\ Len(q) > 0
    BY <1>3
  <2>2. DOMAIN r = 1..1 /\ r[1] = q[1]
    BY <2>1
  <2>. HIDE DEF r
  <2>3. H1Abstract!Elements(r) = {q[1]}
    BY <2>2 DEF H1Abstract!Elements
  <2>. QED
    BY <2>1, <2>3 DEF r
<1>. QED
  BY <1>1, <1>2, <1>3

LEMMA H1StepRefines ==
    ASSUME H1Inv, H1Inv', NEW ended, NEW k, H1Step(h1, h1', ended, k)
    PROVE  H1Abstract!Next
<1>. DEFINE first == SubSeq(h1.pending, 1, k)
<1>1. h1.pending \in Seq(H1Streams) /\ k \in {0, 1} /\ (k = 1 => h1.pending # <<>>)
  BY H1PhaseMap, H1Types DEF H1Queues, H1Step
<1>2. /\ H1Abstract!Elements(first) = IF k = 1 THEN {h1.pending[1]} ELSE {}
      /\ h1'.pending = SubSeq(h1.pending, k + 1, Len(h1.pending)) /\ k \in 0..Len(h1.pending)
  <2>1. CASE k = 0
    BY <1>1, <2>1, H1Prefixes DEF H1Step
  <2>2. CASE k = 1
    BY <1>1, <2>2, H1Prefixes DEF H1Step
  <2>. QED
    BY <1>1, <2>1, <2>2
<1>. HIDE DEF first
<1>3. \A x \in H1Streams : h1PhaseOf(h1'.stream[x]) = IF x \in ended THEN "ended"
                              ELSE IF x \in H1Abstract!Elements(first) THEN "served" ELSE h1PhaseOf(h1.stream[x])
  <2>. SUFFICES ASSUME NEW x \in H1Streams
                PROVE  h1PhaseOf(h1'.stream[x]) = IF x \in ended THEN "ended"
                          ELSE IF x \in H1Abstract!Elements(first) THEN "served" ELSE h1PhaseOf(h1.stream[x])
    OBVIOUS
  <2>1. h1.stream[x] \in H1Outcomes /\ h1'.stream[x] \in H1Outcomes
    BY H1PhaseMap
  <2>2. x \in H1Abstract!Elements(first) <=> k = 1 /\ x = h1.pending[1]
    BY <1>2
  <2>3. IF x \in ended THEN h1'.stream[x] \in {"complete", "reset"}
        ELSE IF x \in H1Abstract!Elements(first) THEN h1'.stream[x] = "active" ELSE h1'.stream[x] = h1.stream[x]
    BY <2>2 DEF H1Step
  <2>. QED
    BY <2>1, <2>3, H1PhaseFacts
<1>4. H1Phase' = [x \in H1Streams |-> IF x \in ended THEN "ended"
                      ELSE IF x \in H1Abstract!Elements(first) THEN "served" ELSE H1Phase[x]]
  BY <1>3, H1PhaseMap
<1>5. ended \in SUBSET H1Abstract!In("served")
  <2>1. ended \subseteq {x \in H1Streams : h1.stream[x] = "active"}
    BY DEF H1Step, H1Running
  <2>. QED
    BY <2>1, H1PhaseMap, H1PhaseFacts DEF H1Abstract!In
<1>6. H1Abstract!MayDrain
  BY H1DrainRefines DEF H1Step
<1>7. H1Abstract!Proceed(ended, k)
  BY <1>2, <1>4, <1>6 DEF H1Abstract!Proceed, first
<1>. QED
  BY <1>2, <1>5, <1>7 DEF H1Abstract!Next

LEMMA H1FailRefines ==
    ASSUME H1Inv, H1Inv', NEW again \in H1Streams \cup {"none"}, H1Failed(h1, h1', again)
    PROVE  H1Abstract!Next
<1>. DEFINE A == IF again = "none" THEN {} ELSE {again}
<1>1. A \in {{}} \cup {{s} : s \in H1Streams} /\ \A x \in H1Streams : x \in A <=> x = again
  BY H1Assumption
<1>2. H1Abstract!Elements(h1.pending) = H1Elements(h1.pending)
  BY DEF H1Abstract!Elements, H1Elements
<1>3. \A x \in H1Streams : h1PhaseOf(h1'.stream[x]) = IF x \in H1Elements(h1.pending) THEN "failed"
                              ELSE IF x \in A THEN "waiting" ELSE h1PhaseOf(h1.stream[x])
  <2>. SUFFICES ASSUME NEW x \in H1Streams
                PROVE  h1PhaseOf(h1'.stream[x]) = IF x \in H1Elements(h1.pending) THEN "failed"
                          ELSE IF x \in A THEN "waiting" ELSE h1PhaseOf(h1.stream[x])
    OBVIOUS
  <2>1. h1.stream[x] \in H1Outcomes /\ h1'.stream[x] \in H1Outcomes
    BY H1PhaseMap
  <2>. HIDE DEF A
  <2>2. h1'.stream[x] = IF x \in H1Elements(h1.pending) THEN "failed" ELSE IF x \in A THEN "pending" ELSE h1.stream[x]
    BY <1>1 DEF H1Failed
  <2>. QED
    BY <2>1, <2>2, H1PhaseFacts
<1>4. H1Phase' = [x \in H1Streams |-> IF x \in H1Abstract!Elements(h1.pending) THEN "failed"
                      ELSE IF x \in A THEN "waiting" ELSE H1Phase[x]]
  <2>. HIDE DEF A
  <2>. QED
    BY <1>2, <1>3, H1PhaseMap
<1>5. \E q \in [1..(IF A = {} THEN 0 ELSE 1) -> A] : h1'.pending = q
  <2>1. CASE again = "none"
    <3>1. h1'.pending = <<>> /\ A = {}
      BY <2>1 DEF H1Failed
    <3>2. <<>> \in [1..0 -> {}]
      OBVIOUS
    <3>. QED
      BY <3>1, <3>2
  <2>2. CASE again # "none"
    <3>1. h1'.pending = Append(<<>>, again) /\ A = {again}
      BY <2>2 DEF H1Failed
    <3>2. Append(<<>>, again) \in [1..1 -> {again}]
      OBVIOUS
    <3>. QED
      BY <3>1, <3>2
  <2>. QED
    BY <2>1, <2>2
<1>6. \A x \in A : H1Phase[x] = "new" /\ H1Drain = "no"
  <2>. SUFFICES ASSUME again # "none" PROVE H1Phase[again] = "new" /\ H1Drain = "no"
    OBVIOUS
  <2>1. again \in H1Streams /\ h1.stream[again] = "new" /\ ~h1.draining
    BY DEF H1Failed
  <2>2. H1Phase[again] = "new"
    BY <2>1, H1PhaseMap, H1PhaseFacts
  <2>3. H1Drain = "no"
    BY <2>1 DEF H1Drain
  <2>. QED
    BY <2>2, <2>3
<1>7. H1Abstract!MayDrain
  BY H1DrainRefines DEF H1Failed
<1>. HIDE DEF A
<1>8. H1Abstract!Purge(A)
  BY <1>4, <1>5, <1>6, <1>7 DEF H1Abstract!Purge
<1>. QED
  BY <1>1, <1>8 DEF H1Abstract!Next

LEMMA H1CancelRefines ==
    ASSUME H1Inv, H1Inv', NEW s \in H1Streams, H1Cancelled(h1, h1', s)
    PROVE  H1Abstract!Next
<1>1. h1.stream \in H1StreamMap /\ h1.pending \in Seq(H1Streams)
  BY H1PhaseMap, H1Types DEF H1Queues
<1>2. h1.stream[s] = "pending" /\ \A x \in H1Streams : h1'.stream[x] = IF x = s THEN "cancelled" ELSE h1.stream[x]
  BY <1>1 DEF H1Cancelled, H1StreamMap
<1>3. H1Phase[s] = "waiting"
  BY <1>2, H1PhaseMap, H1PhaseFacts
<1>4. \A x \in H1Streams : h1PhaseOf(h1'.stream[x]) = IF x = s THEN "cancelled" ELSE h1PhaseOf(h1.stream[x])
  BY <1>2, H1PhaseFacts DEF H1Outcomes
<1>5. H1Phase' = [H1Phase EXCEPT ![s] = "cancelled"]
  BY <1>4, H1PhaseMap
<1>6. PICK k \in 1..Len(h1.pending) : h1.pending[k] = s /\ h1'.pending = h1Removed(h1.pending, k)
  BY DEF H1Cancelled
<1>7. k \in DOMAIN h1.pending
  BY <1>1
<1>8. H1Abstract!MayDrain
  BY H1DrainRefines DEF H1Cancelled
<1>9. H1Abstract!Cancel(s)
  BY <1>3, <1>5, <1>6, <1>7, <1>8 DEF H1Abstract!Cancel, h1Removed
<1>. QED
  BY <1>9 DEF H1Abstract!Next

LEMMA H1AsksRefines ==
    ASSUME H1Inv, H1Inv', H1Asks(h1, h1')
    PROVE  H1Abstract!Next
<1>1. H1Drain = "no" /\ H1Drain' = IF h1'.drained = 0 THEN "asked" ELSE "done"
  BY DEF H1Asks, H1Drain
<1>2. H1Phase' = H1Phase /\ h1'.pending = h1.pending
  BY H1PhaseMap DEF H1Asks
<1>3. H1Running(h1) = {} => H1Abstract!In("served") = {}
  BY H1PhaseMap, H1PhaseFacts DEF H1Running, H1Abstract!In
<1>4. H1Abstract!Drain
  BY <1>1, <1>2, <1>3 DEF H1Asks, H1Abstract!Drain
<1>. QED
  BY <1>4 DEF H1Abstract!Next

LEMMA H1NextRefines == H1Inv /\ H1Inv' /\ [H1Next]_h1 => [H1Abstract!Next]_(H1Abstract!vars)
<1>. SUFFICES ASSUME H1Inv, H1Inv', [H1Next]_h1 PROVE [H1Abstract!Next]_(H1Abstract!vars)
  OBVIOUS
<1>1. CASE UNCHANGED h1
  BY <1>1 DEF H1Abstract!vars, H1Phase, H1Drain
<1>2. CASE H1Next
  <2>1. H1Change
    BY <1>2, H1NextInv
  <2>2. H1Abstract!Next
    BY <2>1, H1AskRefines, H1StepRefines, H1FailRefines, H1CancelRefines, H1AsksRefines DEF H1Change
  <2>. QED
    BY <2>2
<1>. QED
  BY <1>1, <1>2

LEMMA H1InitRefines == H1Init => H1Abstract!Init
  BY DEF H1Init, H1Abstract!Init, H1Phase, H1Drain, h1PhaseOf

\* The HTTP/1.1 pool implements StreamPool, for any number of streams and connections and
\* any limits: requests that wait are served in the order they came, a new one overtakes
\* none, each has one outcome, and the drained callback is called once, when nothing
\* waits or runs.
THEOREM H1Implements == H1Spec => H1ImplementsStreamPool
<1>1. H1Inv /\ UNCHANGED h1 => H1Inv'
  BY DEF H1Inv
<1>2. H1Inv /\ [H1Next]_h1 => H1Inv'
  BY <1>1, H1NextInv
<1>. QED
  BY <1>2, H1InitInv, H1NextRefines, H1InitRefines, PTL DEF H1Spec, H1ImplementsStreamPool, H1Abstract!Safety

----------------------------------------------------------------------------
(***************************************************************************)
(* The HTTP/2 connection pool.                                             *)
(***************************************************************************)

H2Phases == {"new", "active", "complete", "reset", "overflow"}
H2StreamMap == [H2Streams -> H2Phases]
H2ActiveMap == [H2Clients -> SUBSET H2Streams]
H2TotalMap == [H2Clients -> Nat]
H2Client == H2Clients \cup {"none"}
H2State == [stream : H2StreamMap, primary : H2Client, old : H2Client, active : H2ActiveMap, total : H2TotalMap,
            timer : SUBSET H2Clients, away : SUBSET H2Clients, deleted : SUBSET H2Clients, requests : Int,
            draining : BOOLEAN, drained : Nat]

H2Running(p) == {s \in H2Streams : p.stream[s] = "active"}

\* What holds between any two calls inside a handler: streams are on one connection
\* of the pool each and counted once.
H2Books(p) ==
    /\ IsFiniteSet(H2Running(p)) /\ p.requests = Cardinality(H2Running(p)) /\ p.requests <= H2MaxRequests
    /\ \A c \in H2Clients : p.active[c] \subseteq H2Running(p)
    /\ \A s \in H2Running(p) : \E c \in H2Clients : s \in p.active[c]
    /\ \A c, d \in H2Clients : c # d => p.active[c] \cap p.active[d] = {}

H2Pool(p) ==
    /\ \A c \in H2Clients : p.active[c] # {} => c \in {p.primary, p.old}
    /\ p.primary # "none" => p.primary # p.old
    /\ p.away \subseteq {p.primary, p.old}

H2Base(p) == p \in H2State /\ H2Books(p) /\ H2Pool(p)

\* What holds in addition at the end of a handler; during one a primary may have seen
\* a GOAWAY.
H2OldBusy(p) == p.old # "none" => p.active[p.old] # {}
H2DrainBusy(p) == p.draining /\ p.primary # "none" => p.active[p.primary] # {}
H2Once(p) == /\ p.drained \in 0..1
             /\ p.drained = 1 => p.draining /\ p.primary = "none" /\ p.old = "none"
H2Calm(p) == H2Base(p) /\ H2OldBusy(p) /\ H2DrainBusy(p) /\ H2Once(p)

H2OK(p) == H2Calm(p) /\ (p.primary # "none" => p.primary \notin p.away)
H2Inv == H2OK(h2)

\* From p to q the streams of `ended` end, and the drained callbacks are called if no
\* stream is left.
H2Step(p, q, ended) ==
    /\ ended \subseteq H2Running(p)
    /\ \A s \in H2Streams : IF s \in ended THEN q.stream[s] \in {"complete", "reset"} ELSE q.stream[s] = p.stream[s]
    /\ q.draining = p.draining
    /\ \/ q.drained = p.drained
       \/ p.draining /\ p.drained = 0 /\ q.drained = 1 /\ H2Running(q) = {}

LEMMA H2Types ==
    ASSUME NEW p \in H2State
    PROVE  /\ p.stream \in H2StreamMap /\ p.active \in H2ActiveMap /\ p.total \in H2TotalMap
           /\ p.primary \in H2Client /\ p.old \in H2Client /\ p.requests \in Int /\ p.draining \in BOOLEAN
           /\ p.drained \in Nat /\ p.timer \subseteq H2Clients /\ p.away \subseteq H2Clients
           /\ p.deleted \subseteq H2Clients
           /\ \A s \in H2Streams : p.stream[s] \in H2Phases
           /\ \A c \in H2Clients : p.active[c] \subseteq H2Streams /\ p.total[c] \in Nat
<1>1. /\ p.stream \in H2StreamMap /\ p.active \in H2ActiveMap /\ p.total \in H2TotalMap
      /\ p.primary \in H2Client /\ p.old \in H2Client /\ p.requests \in Int /\ p.draining \in BOOLEAN
      /\ p.drained \in Nat /\ p.timer \subseteq H2Clients /\ p.away \subseteq H2Clients /\ p.deleted \subseteq H2Clients
  BY DEF H2State
<1>. QED
  BY <1>1 DEF H2StreamMap, H2ActiveMap, H2TotalMap

LEMMA H2RemoveFields ==
    ASSUME NEW p \in H2State, NEW c \in H2Clients
    PROVE  LET q == h2Remove(p, c)
           IN  /\ q \in H2State /\ q.stream = p.stream /\ q.active = p.active /\ q.total = p.total
               /\ q.requests = p.requests /\ q.draining = p.draining /\ q.drained = p.drained
               /\ q.primary = (IF c = p.primary THEN "none" ELSE p.primary)
               /\ q.old = (IF c = p.primary THEN p.old ELSE "none")
               /\ q.away = p.away \ {c} /\ q.deleted = p.deleted \cup {c}
<1>. DEFINE a == IF c = p.primary THEN "none" ELSE p.primary
            b == IF c = p.primary THEN p.old ELSE "none"
            t == p.timer \ {c}
            w == p.away \ {c}
            d == p.deleted \cup {c}
            q == [p EXCEPT !.primary = a, !.old = b, !.timer = t, !.away = w, !.deleted = d]
<1>1. h2Remove(p, c) = q
  BY DEF h2Remove
<1>2. a \in H2Client /\ b \in H2Client /\ t \subseteq H2Clients /\ w \subseteq H2Clients /\ d \subseteq H2Clients
  BY H2Types DEF H2Client
<1>. HIDE DEF a, b, t, w, d
<1>3. q \in H2State
  BY <1>2 DEF H2State
<1>4. /\ q.stream = p.stream /\ q.active = p.active /\ q.total = p.total
      /\ q.requests = p.requests /\ q.draining = p.draining /\ q.drained = p.drained
      /\ q.primary = a /\ q.old = b /\ q.away = w /\ q.deleted = d
  BY DEF H2State
<1>. QED
  BY <1>1, <1>3, <1>4 DEF a, b, w, d

\* The books only look at streams, connections and the count.
LEMMA H2BooksFrame ==
    ASSUME NEW p, NEW q, H2Books(p), q.stream = p.stream, q.active = p.active, q.requests = p.requests
    PROVE  H2Books(q) /\ H2Running(q) = H2Running(p)
  BY DEF H2Books, H2Running

\* A client without streams leaves.
LEMMA H2RemoveBase ==
    ASSUME NEW p, H2Base(p), NEW c \in H2Clients, c \in {p.primary, p.old}, p.active[c] = {}
    PROVE  H2Base(h2Remove(p, c))
<1>. DEFINE q == h2Remove(p, c)
<1>1. p \in H2State /\ H2Books(p) /\ H2Pool(p)
  BY DEF H2Base
<1>2. /\ q \in H2State /\ q.stream = p.stream /\ q.active = p.active /\ q.requests = p.requests
      /\ q.primary = (IF c = p.primary THEN "none" ELSE p.primary)
      /\ q.old = (IF c = p.primary THEN p.old ELSE "none")
      /\ q.away = p.away \ {c}
  BY <1>1, H2RemoveFields
<1>. HIDE DEF q
<1>3. H2Books(q)
  BY <1>1, <1>2, H2BooksFrame
<1>4. c # "none"
  BY H2Assumption
<1>5. H2Pool(q)
  <2>1. CASE c = p.primary
    BY <1>1, <1>2, <1>4, <2>1 DEF H2Pool
  <2>2. CASE c # p.primary
    <3>1. c = p.old /\ q.primary = p.primary /\ q.old = "none"
      BY <1>2, <2>2
    <3>. QED
      BY <1>1, <1>2, <1>4, <3>1 DEF H2Pool
  <2>. QED
    BY <2>1, <2>2
<1>. QED
  BY <1>2, <1>3, <1>5 DEF H2Base, q

\* The streams of a client are reset.
h2Reset(p, c) ==
    [p EXCEPT !.stream = [s \in H2Streams |-> IF s \in p.active[c] THEN "reset" ELSE p.stream[s]],
              !.active[c] = {}, !.requests = @ - Cardinality(p.active[c])]

LEMMA H2ResetBase ==
    ASSUME NEW p, H2Base(p), NEW c \in H2Clients
    PROVE  LET q == h2Reset(p, c)
           IN  /\ H2Base(q) /\ q.active = [p.active EXCEPT ![c] = {}] /\ q.primary = p.primary /\ q.old = p.old
               /\ q.draining = p.draining /\ q.drained = p.drained /\ q.deleted = p.deleted /\ q.total = p.total
               /\ H2Running(q) = H2Running(p) \ p.active[c]
               /\ \A s \in H2Streams : q.stream[s] = IF s \in p.active[c] THEN "reset" ELSE p.stream[s]
<1>. DEFINE gone == p.active[c]
            st == [s \in H2Streams |-> IF s \in gone THEN "reset" ELSE p.stream[s]]
            ac == [p.active EXCEPT ![c] = {}]
            n == p.requests - Cardinality(gone)
            q == [p EXCEPT !.stream = st, !.active = ac, !.requests = n]
<1>1. p \in H2State /\ H2Books(p) /\ H2Pool(p)
  BY DEF H2Base
<1>2. h2Reset(p, c) = q
  BY DEF h2Reset
<1>3. p.stream \in H2StreamMap /\ p.active \in H2ActiveMap /\ p.requests \in Int /\ gone \subseteq H2Streams
  BY <1>1, H2Types
<1>4. gone \subseteq H2Running(p) /\ IsFiniteSet(gone) /\ Cardinality(gone) \in Nat
  BY <1>1, FS_Subset, FS_CardinalityType DEF H2Books
<1>5. st \in H2StreamMap /\ ac \in H2ActiveMap /\ n \in Int
  BY <1>3, <1>4 DEF H2StreamMap, H2ActiveMap, H2Phases
<1>6. /\ \A s \in H2Streams : st[s] = IF s \in gone THEN "reset" ELSE p.stream[s]
      /\ ac[c] = {} /\ \A d \in H2Clients : d # c => ac[d] = p.active[d]
  BY <1>3 DEF H2ActiveMap
<1>. HIDE DEF st, ac, n
<1>7. q \in H2State
  BY <1>1, <1>5 DEF H2State
<1>8. /\ q.stream = st /\ q.active = ac /\ q.requests = n /\ q.primary = p.primary /\ q.old = p.old
      /\ q.draining = p.draining /\ q.drained = p.drained /\ q.away = p.away /\ q.deleted = p.deleted /\ q.total = p.total
  BY <1>1 DEF H2State
<1>. HIDE DEF q
<1>9. H2Running(q) = H2Running(p) \ gone
  BY <1>6, <1>8 DEF H2Running
<1>10. IsFiniteSet(H2Running(q)) /\ Cardinality(H2Running(q)) = n /\ n <= H2MaxRequests
  <2>. DEFINE r == H2Running(p)
  <2>1. IsFiniteSet(r) /\ p.requests = Cardinality(r) /\ p.requests <= H2MaxRequests
    BY <1>1 DEF H2Books
  <2>. HIDE DEF r, gone
  <2>2. IsFiniteSet(r \ gone) /\ Cardinality(r \ gone) = Cardinality(r) - Cardinality(r \cap gone)
    BY <2>1, FS_Difference
  <2>3. r \cap gone = gone
    BY <1>4 DEF r
  <2>. QED
    BY <1>3, <1>4, <1>9, <2>1, <2>2, <2>3, H2Assumption DEF r, n
<1>11. H2Books(q)
  <2>1. \A d \in H2Clients : q.active[d] \subseteq H2Running(q)
    <3>. SUFFICES ASSUME NEW d \in H2Clients, d # c PROVE p.active[d] \subseteq H2Running(p) \ gone
      BY <1>6, <1>8, <1>9
    <3>. QED
      BY <1>1 DEF H2Books
  <2>2. \A s \in H2Running(q) : \E d \in H2Clients : s \in q.active[d]
    BY <1>1, <1>6, <1>8, <1>9 DEF H2Books
  <2>3. \A d, e \in H2Clients : d # e => q.active[d] \cap q.active[e] = {}
    BY <1>1, <1>6, <1>8 DEF H2Books
  <2>. QED
    BY <1>8, <1>10, <2>1, <2>2, <2>3 DEF H2Books
<1>12. H2Pool(q)
  BY <1>1, <1>6, <1>8 DEF H2Pool
<1>. QED
  BY <1>2, <1>6, <1>7, <1>8, <1>9, <1>11, <1>12 DEF H2Base, ac

\* The primary of q is that of p, or there is none, and no client of q saw a GOAWAY that
\* none of p saw.
H2Keeps(p, q) == q.primary \in {p.primary, "none"} /\ q.away \subseteq p.away

LEMMA H2RunningStep ==
    ASSUME NEW p, NEW q, NEW ended, H2Step(p, q, ended)
    PROVE  H2Running(q) = H2Running(p) \ ended
  BY DEF H2Step, H2Running

LEMMA H2StepTwice ==
    ASSUME NEW p, NEW q, NEW r, NEW e, NEW f, H2Step(p, q, e), H2Step(q, r, f)
    PROVE  H2Step(p, r, e \cup f)
<1>1. H2Running(q) = H2Running(p) \ e /\ H2Running(r) = H2Running(q) \ f
  BY H2RunningStep
<1>2. e \cup f \subseteq H2Running(p) /\ e \cap f = {}
  BY <1>1 DEF H2Step
<1>3. \A s \in H2Streams : IF s \in e \cup f THEN r.stream[s] \in {"complete", "reset"} ELSE r.stream[s] = p.stream[s]
  BY <1>2 DEF H2Step
<1>4. r.draining = p.draining
  BY DEF H2Step
<1>5. \/ r.drained = p.drained
      \/ p.draining /\ p.drained = 0 /\ r.drained = 1 /\ H2Running(r) = {}
  BY <1>1 DEF H2Step
<1>. QED
  BY <1>2, <1>3, <1>4, <1>5 DEF H2Step

LEMMA H2Still ==
    ASSUME NEW p, NEW q, q.stream = p.stream, q.draining = p.draining, q.drained = p.drained
    PROVE  H2Step(p, q, {})
  BY DEF H2Step

\* checkForDrained(): an idle primary of a pool that drains is closed.
LEMMA H2CheckDrained ==
    ASSUME NEW p, H2Base(p), H2OldBusy(p), p.drained = 0
    PROVE  LET q == h2CheckForDrained(p)
           IN  /\ H2Calm(q) /\ H2Step(p, q, {}) /\ H2Keeps(p, q)
               /\ ~p.draining \/ (p.primary # "none" /\ p.active[p.primary] # {}) => q = p
<1>1. p \in H2State /\ H2Books(p) /\ H2Pool(p)
  BY DEF H2Base
<1>2. p.primary \in H2Client /\ p.old \in H2Client /\ p.draining \in BOOLEAN
  BY <1>1, H2Types
<1>3. ASSUME ~p.draining \/ (p.primary # "none" /\ p.active[p.primary] # {})
      PROVE  h2CheckForDrained(p) = p
  BY <1>3 DEF h2CheckForDrained
<1>4. CASE ~p.draining \/ (p.primary # "none" /\ p.active[p.primary] # {})
  <2>1. H2Calm(p)
    BY <1>4 DEF H2Calm, H2DrainBusy, H2Once
  <2>2. H2Step(p, p, {}) /\ H2Keeps(p, p)
    BY H2Still DEF H2Keeps
  <2>. QED
    BY <1>3, <1>4, <2>1, <2>2
<1>5. CASE p.draining /\ (p.primary = "none" \/ p.active[p.primary] = {})
  <2>. DEFINE r == IF p.primary # "none" THEN h2Remove(p, p.primary) ELSE p
  <2>1. /\ H2Base(r) /\ r.primary = "none" /\ r.old = p.old /\ r.active = p.active /\ r.stream = p.stream
        /\ r.draining = p.draining /\ r.drained = 0 /\ r.away \subseteq p.away
    <3>1. CASE p.primary = "none"
      BY <3>1
    <3>2. CASE p.primary # "none"
      <4>1. p.primary \in H2Clients /\ p.active[p.primary] = {}
        BY <1>2, <1>5, <3>2 DEF H2Client
      <4>2. H2Base(h2Remove(p, p.primary))
        BY <4>1, H2RemoveBase
      <4>. QED
        BY <1>1, <3>2, <4>1, <4>2, H2RemoveFields
    <3>. QED
      BY <3>1, <3>2
  <2>. DEFINE empty == r.old = "none" \/ r.active[r.old] = {}
              q == [r EXCEPT !.drained = @ + 1]
  <2>2. h2CheckForDrained(p) = IF empty THEN q ELSE r
    <3>1. r = IF p.primary # "none" /\ p.active[p.primary] = {} THEN h2Remove(p, p.primary) ELSE p
      BY <1>5
    <3>. HIDE DEF r
    <3>. QED
      BY <1>5, <2>1, <3>1 DEF h2CheckForDrained
  <2>3. empty <=> r.old = "none"
    BY <2>1 DEF H2OldBusy
  <2>. HIDE DEF r
  <2>4. r \in H2State /\ H2Books(r) /\ H2Pool(r)
    BY <2>1 DEF H2Base
  <2>5. CASE r.old = "none"
    <3>1. q \in H2State
      BY <2>1, <2>4 DEF H2State
    <3>2. /\ q.drained = 1 /\ q.primary = "none" /\ q.old = "none" /\ q.active = r.active /\ q.stream = r.stream
          /\ q.draining = r.draining /\ q.requests = r.requests /\ q.away = r.away
      BY <2>1, <2>4, <2>5 DEF H2State
    <3>. HIDE DEF q
    <3>3. H2Books(q)
      BY <2>4, <3>2, H2BooksFrame
    <3>4. H2Pool(q)
      BY <2>1, <2>4, <2>5, <3>2 DEF H2Pool
    <3>5. H2Calm(q)
      BY <1>5, <2>1, <3>1, <3>2, <3>3, <3>4 DEF H2Calm, H2Base, H2OldBusy, H2DrainBusy, H2Once
    <3>6. H2Running(q) = {}
      <4>1. \A c \in H2Clients : c # "none"
        BY H2Assumption
      <4>. QED
        BY <3>2, <3>3, <3>4, <4>1 DEF H2Books, H2Pool
    <3>7. H2Step(p, q, {})
      BY <1>5, <2>1, <3>2, <3>6 DEF H2Step
    <3>8. H2Keeps(p, q)
      BY <2>1, <3>2 DEF H2Keeps
    <3>9. h2CheckForDrained(p) = q
      BY <2>2, <2>3, <2>5
    <3>. QED
      BY <1>5, <3>5, <3>7, <3>8, <3>9
  <2>6. CASE r.old # "none"
    <3>1. H2Calm(r)
      BY <2>1 DEF H2Calm, H2OldBusy, H2DrainBusy, H2Once
    <3>2. H2Step(p, r, {})
      BY <2>1, H2Still
    <3>3. H2Keeps(p, r)
      BY <2>1 DEF H2Keeps
    <3>4. h2CheckForDrained(p) = r
      BY <2>2, <2>3, <2>6
    <3>. QED
      BY <1>5, <3>1, <3>2, <3>3, <3>4
  <2>. QED
    BY <2>5, <2>6
<1>. QED
  BY <1>2, <1>4, <1>5

\* A client of the pool goes, with its streams.
h2Shut(p, c) == h2Remove(h2Reset(p, c), c)

LEMMA H2ShutBase ==
    ASSUME NEW p, H2Base(p), NEW c \in H2Clients, c \in {p.primary, p.old}
    PROVE  LET r == h2Shut(p, c)
           IN  /\ H2Base(r) /\ H2Step(p, r, p.active[c]) /\ H2Keeps(p, r)
               /\ r.active = [p.active EXCEPT ![c] = {}]
               /\ r.primary = (IF c = p.primary THEN "none" ELSE p.primary)
               /\ r.old = (IF c = p.primary THEN p.old ELSE "none")
               /\ r.draining = p.draining /\ r.drained = p.drained
               /\ r.deleted = p.deleted \cup {c} /\ r.total = p.total
               /\ h2Close(p, c) = IF p.active[c] # {} THEN h2CheckForDrained(r) ELSE r
<1>. DEFINE q == h2Reset(p, c)
            r == h2Remove(q, c)
<1>1. p \in H2State /\ p.active \in H2ActiveMap /\ H2Books(p)
  BY H2Types DEF H2Base
<1>2. /\ H2Base(q) /\ q.active = [p.active EXCEPT ![c] = {}] /\ q.primary = p.primary /\ q.old = p.old
      /\ q.draining = p.draining /\ q.drained = p.drained /\ q.deleted = p.deleted /\ q.total = p.total
      /\ \A s \in H2Streams : q.stream[s] = IF s \in p.active[c] THEN "reset" ELSE p.stream[s]
  BY H2ResetBase
<1>3. q \in H2State /\ q.active[c] = {}
  BY <1>1, <1>2 DEF H2Base, H2ActiveMap
<1>4. h2Close(p, c) = IF p.active[c] # {} THEN h2CheckForDrained(r) ELSE r
  BY DEF h2Close, h2Reset
<1>5. q.away = p.away
  BY <1>1 DEF h2Reset, H2State
<1>. HIDE DEF q
<1>6. H2Base(r)
  BY <1>2, <1>3, H2RemoveBase
<1>7. /\ r.stream = q.stream /\ r.active = q.active /\ r.total = q.total
      /\ r.draining = q.draining /\ r.drained = q.drained
      /\ r.primary = (IF c = q.primary THEN "none" ELSE q.primary)
      /\ r.old = (IF c = q.primary THEN q.old ELSE "none")
      /\ r.away = q.away \ {c} /\ r.deleted = q.deleted \cup {c}
  BY <1>3, H2RemoveFields
<1>. HIDE DEF r
<1>8. H2Step(p, r, p.active[c])
  BY <1>1, <1>2, <1>7 DEF H2Step, H2Books
<1>9. H2Keeps(p, r)
  BY <1>2, <1>5, <1>7 DEF H2Keeps
<1>. QED
  BY <1>2, <1>4, <1>6, <1>7, <1>8, <1>9 DEF h2Shut, q, r

LEMMA H2CloseCalm ==
    ASSUME NEW p, H2Calm(p), NEW c \in H2Clients, c \in {p.primary, p.old}
    PROVE  LET q == h2Close(p, c)
               r == h2Shut(p, c)
           IN  /\ H2Calm(q) /\ H2Step(p, q, p.active[c]) /\ H2Keeps(p, q)
               /\ ~p.draining \/ (c # p.primary /\ p.primary # "none") => q = r
<1>. DEFINE q == h2Close(p, c)
            r == h2Shut(p, c)
<1>1. /\ H2Base(p) /\ p \in H2State /\ p.active \in H2ActiveMap /\ p.draining \in BOOLEAN /\ H2Pool(p)
      /\ H2OldBusy(p) /\ H2DrainBusy(p) /\ H2Once(p)
  BY H2Types DEF H2Base, H2Calm
<1>2. /\ H2Base(r) /\ H2Step(p, r, p.active[c]) /\ H2Keeps(p, r)
      /\ r.active = [p.active EXCEPT ![c] = {}]
      /\ r.primary = (IF c = p.primary THEN "none" ELSE p.primary)
      /\ r.old = (IF c = p.primary THEN p.old ELSE "none")
      /\ r.draining = p.draining /\ r.drained = p.drained
      /\ q = IF p.active[c] # {} THEN h2CheckForDrained(r) ELSE r
  BY <1>1, H2ShutBase
<1>. HIDE DEF q, r
<1>3. c # "none" /\ r.active[c] = {} /\ \A d \in H2Clients : d # c => r.active[d] = p.active[d]
  BY <1>1, <1>2, H2Assumption DEF H2ActiveMap
<1>4. r.drained = 0
  BY <1>1, <1>2, <1>3 DEF H2Once
<1>5. H2OldBusy(r)
  <2>1. CASE c = p.primary
    <3>1. r.old = p.old /\ (p.old # "none" => p.old \in H2Clients /\ p.old # c)
      BY <1>1, <1>2, <1>3, <2>1, H2Types DEF H2Pool, H2Client
    <3>. QED
      BY <1>1, <1>3, <3>1 DEF H2OldBusy
  <2>2. CASE c # p.primary
    BY <1>2, <2>2 DEF H2OldBusy
  <2>. QED
    BY <2>1, <2>2
<1>6. CASE p.active[c] = {}
  <2>1. c = p.primary /\ ~p.draining
    BY <1>1, <1>3, <1>6 DEF H2OldBusy, H2DrainBusy
  <2>2. q = r
    BY <1>2, <1>6
  <2>3. H2Calm(r)
    BY <1>2, <1>4, <1>5, <2>1 DEF H2Calm, H2DrainBusy, H2Once
  <2>. QED
    BY <1>2, <2>2, <2>3 DEF q, r
<1>7. CASE p.active[c] # {}
  <2>1. q = h2CheckForDrained(r)
    BY <1>2, <1>7
  <2>2. /\ H2Calm(q) /\ H2Step(r, q, {}) /\ H2Keeps(r, q)
        /\ ~r.draining \/ (r.primary # "none" /\ r.active[r.primary] # {}) => q = r
    BY <1>2, <1>4, <1>5, <2>1, H2CheckDrained
  <2>3. H2Step(p, q, p.active[c])
    <3>1. H2Step(p, q, p.active[c] \cup {})
      BY <1>2, <2>2, H2StepTwice
    <3>2. p.active[c] \cup {} = p.active[c]
      OBVIOUS
    <3>. QED
      BY <3>1, <3>2
  <2>4. H2Keeps(p, q)
    BY <1>2, <2>2 DEF H2Keeps
  <2>5. ~p.draining \/ (c # p.primary /\ p.primary # "none") => q = r
    <3>1. CASE ~p.draining
      BY <1>2, <2>2, <3>1
    <3>2. CASE p.draining /\ c # p.primary /\ p.primary # "none"
      <4>1. p.primary \in H2Clients
        BY <1>1, <3>2, H2Types DEF H2Client
      <4>2. r.primary = p.primary /\ r.active[p.primary] = p.active[p.primary]
        BY <1>2, <1>3, <3>2, <4>1
      <4>3. p.active[p.primary] # {}
        BY <1>1, <3>2 DEF H2DrainBusy
      <4>. QED
        BY <2>2, <3>2, <4>2, <4>3
    <3>. QED
      BY <1>1, <3>1, <3>2
  <2>. QED
    BY <2>2, <2>3, <2>4, <2>5 DEF q, r
<1>. QED
  BY <1>6, <1>7

\* movePrimaryClientToDraining(): there is no primary afterwards, and the clients of the
\* pool are among those it had.
LEMMA H2MoveCalm ==
    ASSUME NEW p, H2Calm(p), p.primary # "none"
    PROVE  LET q == h2MovePrimaryClientToDraining(p)
           IN  /\ H2Calm(q) /\ q.primary = "none" /\ (\E e : H2Step(p, q, e))
               /\ ~p.draining => h2Unused(p) \subseteq h2Unused(q)
<1>. DEFINE r == IF p.old # "none" THEN h2Close(p, p.old) ELSE p
            q == h2MovePrimaryClientToDraining(p)
            a == p.primary
<1>1. /\ H2Base(p) /\ p \in H2State /\ p.active \in H2ActiveMap /\ p.draining \in BOOLEAN /\ H2Pool(p)
      /\ H2OldBusy(p) /\ H2DrainBusy(p) /\ H2Once(p) /\ a \in H2Clients /\ p.old \in H2Client
  BY H2Types DEF H2Base, H2Calm, H2Client
<1>2. /\ H2Calm(r) /\ r.primary = a /\ r.old = "none" /\ r.active[a] = p.active[a]
      /\ r.draining = p.draining /\ (\E e : H2Step(p, r, e)) /\ h2Unused(p) \subseteq h2Unused(r)
  <2>1. CASE p.old = "none"
    <3>1. r = p
      BY <2>1
    <3>2. H2Step(p, p, {})
      BY H2Still
    <3>. QED
      BY <2>1, <3>1, <3>2
  <2>2. CASE p.old # "none"
    <3>. DEFINE c == p.old
    <3>1. c \in H2Clients /\ c # a /\ r = h2Close(p, c)
      BY <1>1, <2>2 DEF H2Client, H2Pool
    <3>2. H2Calm(r) /\ H2Step(p, r, p.active[c]) /\ r = h2Shut(p, c)
      BY <3>1, H2CloseCalm
    <3>3. /\ h2Shut(p, c).active = [p.active EXCEPT ![c] = {}] /\ h2Shut(p, c).primary = a /\ h2Shut(p, c).old = "none"
          /\ h2Shut(p, c).draining = p.draining /\ h2Shut(p, c).deleted = p.deleted \cup {c}
      BY <1>1, <3>1, H2ShutBase
    <3>. HIDE DEF r
    <3>4. r.active[a] = p.active[a]
      BY <1>1, <3>1, <3>2, <3>3 DEF H2ActiveMap
    <3>5. h2Unused(p) \subseteq h2Unused(r)
      BY <3>2, <3>3, H2Assumption DEF h2Unused
    <3>. QED
      BY <3>2, <3>3, <3>4, <3>5
  <2>. QED
    BY <2>1, <2>2
<1>3. q = IF r.active[r.primary] = {} THEN h2Close(r, r.primary) ELSE [r EXCEPT !.old = r.primary, !.primary = "none"]
  BY DEF h2MovePrimaryClientToDraining
<1>. HIDE DEF r, q
<1>4. PICK e : H2Step(p, r, e)
  BY <1>2
<1>5. H2Base(r) /\ r \in H2State /\ H2OldBusy(r) /\ H2DrainBusy(r) /\ H2Once(r) /\ H2Books(r) /\ H2Pool(r)
  BY <1>2 DEF H2Calm, H2Base
<1>6. CASE r.active[a] = {}
  <2>1. ~r.draining
    BY <1>1, <1>2, <1>5, <1>6, H2Assumption DEF H2DrainBusy
  <2>2. H2Calm(q) /\ H2Step(r, q, r.active[a]) /\ q = h2Shut(r, a)
    BY <1>1, <1>2, <1>3, <1>6, <2>1, H2CloseCalm
  <2>3. h2Shut(r, a).primary = "none" /\ h2Shut(r, a).old = "none" /\ h2Shut(r, a).deleted = r.deleted \cup {a}
    <3>1. a \in {r.primary, r.old} /\ a = r.primary
      BY <1>2
    <3>. HIDE DEF a
    <3>2. /\ h2Shut(r, a).primary = (IF a = r.primary THEN "none" ELSE r.primary)
          /\ h2Shut(r, a).old = (IF a = r.primary THEN r.old ELSE "none")
          /\ h2Shut(r, a).deleted = r.deleted \cup {a}
      BY <1>1, <1>5, <3>1, H2ShutBase
    <3>. QED
      BY <1>2, <3>1, <3>2
  <2>4. H2Step(p, q, e \cup r.active[a])
    BY <1>4, <2>2, H2StepTwice
  <2>5. h2Unused(r) \subseteq h2Unused(q)
    BY <1>2, <2>2, <2>3, H2Assumption DEF h2Unused
  <2>. QED
    BY <1>2, <2>2, <2>3, <2>4, <2>5 DEF q
<1>7. CASE r.active[a] # {}
  <2>1. q = [r EXCEPT !.old = a, !.primary = "none"]
    BY <1>2, <1>3, <1>7
  <2>2. a \in H2Client /\ "none" \in H2Client
    BY <1>1 DEF H2Client
  <2>3. q \in H2State
    BY <1>5, <2>1, <2>2 DEF H2State
  <2>4. /\ q.old = a /\ q.primary = "none" /\ q.active = r.active /\ q.stream = r.stream /\ q.requests = r.requests
        /\ q.draining = r.draining /\ q.drained = r.drained /\ q.away = r.away /\ q.deleted = r.deleted
    BY <1>5, <2>1 DEF H2State
  <2>5. H2Books(q)
    BY <1>5, <2>4, H2BooksFrame
  <2>6. H2Pool(q)
    BY <1>2, <1>5, <2>4 DEF H2Pool
  <2>7. a # "none" /\ q.drained = 0
    BY <1>1, <1>2, <1>5, <2>4, H2Assumption DEF H2Once
  <2>8. H2Calm(q)
    BY <1>7, <2>3, <2>4, <2>5, <2>6, <2>7 DEF H2Calm, H2Base, H2OldBusy, H2DrainBusy, H2Once
  <2>9. H2Step(p, q, e \cup {})
    BY <1>4, <2>4, H2Still, H2StepTwice
  <2>10. h2Unused(r) \subseteq h2Unused(q)
    BY <1>2, <2>4 DEF h2Unused
  <2>. QED
    BY <1>2, <2>4, <2>8, <2>9, <2>10 DEF q
<1>. QED
  BY <1>6, <1>7

LEMMA H2WithPrimaryOK ==
    ASSUME NEW p, H2OK(p), ~p.draining, h2Unused(p) # {}
    PROVE  LET q == h2WithPrimary(p)
           IN  H2OK(q) /\ q.primary \in H2Clients /\ ~q.draining /\ \E e : H2Step(p, q, e)
<1>. DEFINE r == IF p.primary # "none" /\ p.total[p.primary] >= H2MaxStreams
                 THEN h2MovePrimaryClientToDraining(p) ELSE p
            c == CHOOSE c \in h2Unused(r) : TRUE
            q == h2WithPrimary(p)
<1>1. q = IF r.primary # "none" THEN r ELSE [r EXCEPT !.primary = c, !.timer = @ \cup {c}, !.total[c] = 0]
  BY DEF h2WithPrimary
<1>2. /\ H2Calm(r) /\ (\E e : H2Step(p, r, e)) /\ h2Unused(p) \subseteq h2Unused(r)
      /\ r.primary # "none" => r = p
  <2>1. CASE r = p
    BY <2>1, H2Still DEF H2OK
  <2>2. CASE p.primary # "none" /\ r = h2MovePrimaryClientToDraining(p)
    BY <2>2, H2MoveCalm DEF H2OK
  <2>. QED
    BY <2>1, <2>2
<1>. HIDE DEF r, q
<1>3. PICK e : H2Step(p, r, e)
  BY <1>2
<1>4. ~r.draining
  BY <1>3 DEF H2Step
<1>5. /\ H2Base(r) /\ r \in H2State /\ H2OldBusy(r) /\ H2DrainBusy(r) /\ H2Once(r) /\ H2Books(r) /\ H2Pool(r)
      /\ r.total \in H2TotalMap /\ r.timer \subseteq H2Clients /\ r.primary \in H2Client /\ r.away \subseteq H2Clients
  BY <1>2, H2Types DEF H2Calm, H2Base
<1>6. CASE r.primary # "none"
  BY <1>1, <1>2, <1>3, <1>4, <1>5, <1>6 DEF H2OK, H2Client, q
<1>7. CASE r.primary = "none"
  <2>1. c \in h2Unused(r)
    BY <1>2
  <2>2. c \in H2Clients /\ c # r.old /\ c # "none"
    BY <2>1, H2Assumption DEF h2Unused
  <2>. DEFINE ts == r.timer \cup {c}
              ns == [r.total EXCEPT ![c] = 0]
  <2>3. ts \subseteq H2Clients /\ ns \in H2TotalMap /\ c \in H2Client
    BY <1>5, <2>2 DEF H2TotalMap, H2Client
  <2>4. q = [r EXCEPT !.primary = c, !.timer = ts, !.total = ns]
    BY <1>1, <1>7
  <2>. HIDE DEF ts, ns, c
  <2>5. q \in H2State
    BY <1>5, <2>3, <2>4 DEF H2State
  <2>6. /\ q.primary = c /\ q.old = r.old /\ q.active = r.active /\ q.stream = r.stream /\ q.requests = r.requests
        /\ q.draining = r.draining /\ q.drained = r.drained /\ q.away = r.away
    BY <1>5, <2>4 DEF H2State
  <2>7. H2Books(q)
    BY <1>5, <2>6, H2BooksFrame
  <2>8. H2Pool(q) /\ c \notin r.away
    BY <1>5, <1>7, <2>2, <2>6, H2Assumption DEF H2Pool
  <2>9. H2OldBusy(q) /\ H2DrainBusy(q) /\ H2Once(q)
    BY <1>4, <1>5, <2>6 DEF H2OldBusy, H2DrainBusy, H2Once
  <2>10. H2OK(q)
    BY <2>5, <2>6, <2>7, <2>8, <2>9 DEF H2OK, H2Calm, H2Base
  <2>11. H2Step(p, q, e \cup {})
    BY <1>3, <2>6, H2Still, H2StepTwice
  <2>. QED
    BY <1>4, <2>2, <2>6, <2>10, <2>11 DEF q
<1>. QED
  BY <1>6, <1>7

----------------------------------------------------------------------------
(***************************************************************************)
(* The actions.  What a step does to the streams is the refinement's       *)
(* concern: a new stream takes one of its outcomes, or streams end.        *)
(***************************************************************************)

H2Asked(p, q, s, ended) ==
    /\ p.stream[s] = "new" /\ ended \subseteq H2Running(p)
    /\ q.stream[s] \in {"active", "overflow"}
    /\ \A x \in H2Streams \ {s} : IF x \in ended THEN q.stream[x] \in {"complete", "reset"} ELSE q.stream[x] = p.stream[x]
    /\ ~p.draining /\ ~q.draining

LEMMA H2NewStreamOK ==
    ASSUME H2Inv, NEW s \in H2Streams, NEW room \in BOOLEAN, H2NewStream(s, room)
    PROVE  H2Inv' /\ \E e : H2Asked(h2, h2', s, e)
<1>. DEFINE q == h2WithPrimary(h2)
            c == q.primary
<1>1. h2.stream[s] = "new" /\ ~h2.draining /\ H2OK(h2)
  BY DEF H2NewStream, H2Inv
<1>2. H2OK(q) /\ c \in H2Clients /\ ~q.draining /\ \E e : H2Step(h2, q, e)
  BY <1>1, H2WithPrimaryOK DEF H2NewStream
<1>3. h2' = IF room /\ q.requests < H2MaxRequests
            THEN [q EXCEPT !.total[c] = @ + 1, !.requests = @ + 1, !.active[c] = @ \cup {s}, !.stream[s] = "active"]
            ELSE [q EXCEPT !.stream[s] = "overflow"]
  BY DEF H2NewStream, h2NewStream
<1>. HIDE DEF q
<1>4. PICK e : H2Step(h2, q, e)
  BY <1>2
<1>5. /\ H2Base(q) /\ q \in H2State /\ H2OldBusy(q) /\ H2DrainBusy(q) /\ H2Once(q) /\ H2Books(q) /\ H2Pool(q)
      /\ c \notin q.away
  BY <1>2, H2Assumption DEF H2OK, H2Calm, H2Base
<1>6. /\ q.stream \in H2StreamMap /\ q.active \in H2ActiveMap /\ q.total \in H2TotalMap /\ q.requests \in Int
      /\ q.total[c] \in Nat /\ q.active[c] \subseteq H2Streams
  BY <1>2, <1>5, H2Types
<1>7. q.stream[s] = "new" /\ s \notin e /\ s \notin H2Running(q)
  BY <1>1, <1>4 DEF H2Step, H2Running
<1>8. CASE room /\ q.requests < H2MaxRequests
  <2>. DEFINE n == q.total[c] + 1
              ns == [q.total EXCEPT ![c] = n]
              k == q.requests + 1
              as == q.active[c] \cup {s}
              ac == [q.active EXCEPT ![c] = as]
              st == [q.stream EXCEPT ![s] = "active"]
              r == [q EXCEPT !.total = ns, !.requests = k, !.active = ac, !.stream = st]
  <2>1. h2' = r
    BY <1>3, <1>8
  <2>2. n \in Nat /\ as \subseteq H2Streams
    BY <1>6
  <2>3. ns \in H2TotalMap /\ k \in Int /\ ac \in H2ActiveMap /\ st \in H2StreamMap
    BY <1>2, <1>6, <2>2 DEF H2TotalMap, H2ActiveMap, H2StreamMap, H2Phases
  <2>4. /\ ac[c] = q.active[c] \cup {s} /\ \A d \in H2Clients : d # c => ac[d] = q.active[d]
        /\ st[s] = "active" /\ \A x \in H2Streams : x # s => st[x] = q.stream[x]
    BY <1>2, <1>6 DEF H2ActiveMap, H2StreamMap
  <2>. HIDE DEF ns, k, ac, st
  <2>5. r \in H2State
    BY <1>5, <2>3 DEF H2State
  <2>6. /\ r.requests = k /\ r.active = ac /\ r.stream = st /\ r.primary = c /\ r.old = q.old /\ r.away = q.away
        /\ r.draining = q.draining /\ r.drained = q.drained
    BY <1>5 DEF H2State
  <2>. HIDE DEF r
  <2>7. H2Running(r) = H2Running(q) \cup {s}
    BY <2>4, <2>6 DEF H2Running
  <2>8. H2Books(r)
    <3>1. IsFiniteSet(H2Running(q)) /\ q.requests = Cardinality(H2Running(q))
      BY <1>5 DEF H2Books
    <3>2. IsFiniteSet(H2Running(r)) /\ Cardinality(H2Running(r)) = Cardinality(H2Running(q)) + 1
      BY <1>7, <2>7, <3>1, FS_AddElement
    <3>3. k <= H2MaxRequests
      BY <1>6, <1>8, H2Assumption DEF k
    <3>4. \A d \in H2Clients : r.active[d] \subseteq H2Running(r)
      BY <1>5, <2>4, <2>6, <2>7 DEF H2Books
    <3>5. \A x \in H2Running(r) : \E d \in H2Clients : x \in r.active[d]
      BY <1>2, <1>5, <2>4, <2>6, <2>7 DEF H2Books
    <3>6. \A d, f \in H2Clients : d # f => r.active[d] \cap r.active[f] = {}
      <4>1. \A d \in H2Clients : s \notin q.active[d]
        BY <1>5, <1>7 DEF H2Books
      <4>. QED
        BY <1>5, <2>4, <2>6, <4>1 DEF H2Books
    <3>. QED
      BY <2>6, <3>1, <3>2, <3>3, <3>4, <3>5, <3>6 DEF H2Books, k
  <2>9. H2Pool(r) /\ H2DrainBusy(r) /\ H2Once(r)
    BY <1>2, <1>5, <2>4, <2>6 DEF H2Pool, H2DrainBusy, H2Once
  <2>10. H2OldBusy(r)
    <3>1. q.old # "none" => q.old \in H2Clients /\ q.old # c
      BY <1>2, <1>5, H2Types, H2Assumption DEF H2Client, H2Pool
    <3>. QED
      BY <1>5, <2>4, <2>6, <3>1 DEF H2OldBusy
  <2>11. H2OK(r)
    BY <1>5, <2>5, <2>6, <2>8, <2>9, <2>10 DEF H2OK, H2Calm, H2Base
  <2>12. H2Asked(h2, r, s, e)
    BY <1>1, <1>2, <1>4, <2>4, <2>6 DEF H2Asked, H2Step
  <2>. QED
    BY <2>1, <2>11, <2>12 DEF H2Inv
<1>9. CASE ~(room /\ q.requests < H2MaxRequests)
  <2>. DEFINE st == [q.stream EXCEPT ![s] = "overflow"]
              r == [q EXCEPT !.stream = st]
  <2>1. h2' = r
    BY <1>3, <1>9
  <2>2. st \in H2StreamMap /\ st[s] = "overflow" /\ \A x \in H2Streams : x # s => st[x] = q.stream[x]
    BY <1>6 DEF H2StreamMap, H2Phases
  <2>. HIDE DEF st
  <2>3. r \in H2State
    BY <1>5, <2>2 DEF H2State
  <2>4. /\ r.requests = q.requests /\ r.active = q.active /\ r.stream = st /\ r.primary = c /\ r.old = q.old
        /\ r.away = q.away /\ r.draining = q.draining /\ r.drained = q.drained
    BY <1>5 DEF H2State
  <2>. HIDE DEF r
  <2>5. H2Running(r) = H2Running(q)
    BY <1>7, <2>2, <2>4 DEF H2Running
  <2>6. H2Books(r)
    BY <1>5, <2>4, <2>5 DEF H2Books
  <2>7. H2Pool(r) /\ H2DrainBusy(r) /\ H2Once(r) /\ H2OldBusy(r)
    BY <1>5, <2>4 DEF H2Pool, H2DrainBusy, H2Once, H2OldBusy
  <2>8. H2OK(r)
    BY <1>5, <2>3, <2>4, <2>6, <2>7 DEF H2OK, H2Calm, H2Base
  <2>9. H2Asked(h2, r, s, e)
    BY <1>1, <1>2, <1>4, <2>2, <2>4 DEF H2Asked, H2Step
  <2>. QED
    BY <2>1, <2>8, <2>9 DEF H2Inv
<1>. QED
  BY <1>8, <1>9

\* Steps that touch neither streams nor connections.
LEMMA H2FrameOK ==
    ASSUME H2Inv, NEW q \in H2State, q.stream = h2.stream, q.active = h2.active, q.requests = h2.requests,
           q.primary = h2.primary, q.old = h2.old, q.away = h2.away, q.draining = h2.draining, q.drained = h2.drained
    PROVE  H2OK(q) /\ H2Step(h2, q, {})
<1>1. H2OK(h2) /\ H2Books(h2)
  BY DEF H2Inv, H2OK, H2Calm, H2Base
<1>2. H2Books(q)
  BY <1>1, H2BooksFrame
<1>. QED
  BY <1>1, <1>2, H2Still DEF H2OK, H2Calm, H2Base, H2Pool, H2OldBusy, H2DrainBusy, H2Once

LEMMA H2ConnectedOK ==
    ASSUME H2Inv, NEW c \in H2Clients, H2Connected(c) \/ H2DeferredDelete
    PROVE  H2Inv' /\ H2Step(h2, h2', {})
<1>1. h2 \in H2State /\ h2.timer \subseteq H2Clients
  BY H2Types DEF H2Inv, H2OK, H2Calm, H2Base
<1>2. /\ h2' \in H2State /\ h2'.stream = h2.stream /\ h2'.active = h2.active /\ h2'.requests = h2.requests
      /\ h2'.primary = h2.primary /\ h2'.old = h2.old /\ h2'.away = h2.away /\ h2'.draining = h2.draining
      /\ h2'.drained = h2.drained
  BY <1>1 DEF H2Connected, H2DeferredDelete, H2State
<1>. QED
  BY <1>2, H2FrameOK DEF H2Inv

LEMMA H2ClosesOK ==
    ASSUME H2Inv, NEW c \in H2Clients, H2Closes(c)
    PROVE  H2Inv' /\ \E e : H2Step(h2, h2', e)
<1>1. H2Calm(h2) /\ (h2.primary # "none" => h2.primary \notin h2.away)
  BY DEF H2Inv, H2OK
<1>2. H2Calm(h2') /\ H2Step(h2, h2', h2.active[c]) /\ H2Keeps(h2, h2')
  BY <1>1, H2CloseCalm DEF H2Closes
<1>. QED
  BY <1>1, <1>2 DEF H2Inv, H2OK, H2Keeps

\* The draining connection goes when it has lost its last stream.
LEMMA H2IdleOldCloses ==
    ASSUME NEW p, H2Base(p), NEW c \in H2Clients, c \in {p.primary, p.old}, c # p.primary, p.active[c] = {}
    PROVE  LET q == h2Close(p, c)
           IN  H2Base(q) /\ q.old = "none" /\ q.drained = p.drained /\ H2Keeps(p, q) /\ H2Step(p, q, {})
<1>. DEFINE r == h2Shut(p, c)
<1>1. /\ H2Base(r) /\ H2Step(p, r, p.active[c]) /\ H2Keeps(p, r)
      /\ r.active = [p.active EXCEPT ![c] = {}]
      /\ r.primary = (IF c = p.primary THEN "none" ELSE p.primary)
      /\ r.old = (IF c = p.primary THEN p.old ELSE "none")
      /\ r.draining = p.draining /\ r.drained = p.drained
      /\ r.deleted = p.deleted \cup {c} /\ r.total = p.total
      /\ h2Close(p, c) = IF p.active[c] # {} THEN h2CheckForDrained(r) ELSE r
  BY H2ShutBase
<1>2. h2Close(p, c) = r
  BY <1>1
<1>. HIDE DEF r
<1>. QED
  BY <1>1, <1>2

LEMMA H2EndsOK ==
    ASSUME H2Inv, NEW c \in H2Clients, NEW s \in H2Streams, NEW to \in {"complete", "reset"}, H2StreamEnds(c, s, to)
    PROVE  H2Inv' /\ \E e : H2Step(h2, h2', e)
<1>. DEFINE as == h2.active[c] \ {s}
            ac == [h2.active EXCEPT ![c] = as]
            st == [h2.stream EXCEPT ![s] = to]
            k == h2.requests - 1
            u == [h2 EXCEPT !.active = ac, !.stream = st, !.requests = k]
            v == IF c = u.old /\ u.active[c] = {} THEN h2Close(u, c) ELSE u
<1>1. /\ H2Calm(h2) /\ H2Base(h2) /\ h2 \in H2State /\ H2OldBusy(h2) /\ H2DrainBusy(h2) /\ H2Once(h2) /\ H2Books(h2)
      /\ H2Pool(h2) /\ (h2.primary # "none" => h2.primary \notin h2.away)
  BY DEF H2Inv, H2OK, H2Calm, H2Base
<1>2. s \in h2.active[c] /\ c \in {h2.primary, h2.old} /\ c # "none" /\ h2.drained = 0 /\ s \in H2Running(h2)
  BY <1>1, H2Assumption DEF H2StreamEnds, H2Pool, H2Once, H2Books
<1>3. h2' = h2CheckForDrained(v)
  <2>. DEFINE p == [h2 EXCEPT !.active[c] = @ \ {s}, !.stream[s] = to]
  <2>1. [p EXCEPT !.requests = @ - 1] = u
    BY <1>1 DEF H2State
  <2>. QED
    BY <2>1 DEF H2StreamEnds, h2OnStreamDestroy
<1>4. /\ h2.stream \in H2StreamMap /\ h2.active \in H2ActiveMap /\ h2.requests \in Int
      /\ h2.active[c] \subseteq H2Streams /\ h2.old \in H2Client
  BY <1>1, H2Types
<1>5. ac \in H2ActiveMap /\ st \in H2StreamMap /\ k \in Int
  BY <1>4 DEF H2ActiveMap, H2StreamMap, H2Phases
<1>6. /\ ac[c] = h2.active[c] \ {s} /\ \A d \in H2Clients : d # c => ac[d] = h2.active[d]
      /\ st[s] = to /\ \A x \in H2Streams : x # s => st[x] = h2.stream[x]
  BY <1>4 DEF H2ActiveMap, H2StreamMap
<1>. HIDE DEF ac, st, k
<1>7. u \in H2State
  BY <1>1, <1>5 DEF H2State
<1>8. /\ u.requests = k /\ u.active = ac /\ u.stream = st /\ u.primary = h2.primary /\ u.old = h2.old
      /\ u.away = h2.away /\ u.draining = h2.draining /\ u.drained = h2.drained
  BY <1>1 DEF H2State
<1>. HIDE DEF u
<1>9. H2Step(h2, u, {s})
  BY <1>2, <1>6, <1>8 DEF H2Step
<1>10. H2Books(u)
  <2>1. H2Running(u) = H2Running(h2) \ {s}
    BY <1>9, H2RunningStep
  <2>2. IsFiniteSet(H2Running(h2)) /\ h2.requests = Cardinality(H2Running(h2)) /\ h2.requests <= H2MaxRequests
    BY <1>1 DEF H2Books
  <2>3. IsFiniteSet(H2Running(u)) /\ Cardinality(H2Running(u)) = Cardinality(H2Running(h2)) - 1
    BY <1>2, <2>1, <2>2, FS_RemoveElement
  <2>4. k <= H2MaxRequests
    BY <1>4, <2>2, H2Assumption DEF k
  <2>5. \A d \in H2Clients : d # c => s \notin h2.active[d]
    BY <1>1, <1>2 DEF H2Books
  <2>6. \A d \in H2Clients : u.active[d] = h2.active[d] \ {s}
    BY <1>6, <1>8, <2>5
  <2>7. \A d \in H2Clients : u.active[d] \subseteq H2Running(u)
    BY <1>1, <2>1, <2>6 DEF H2Books
  <2>8. \A x \in H2Running(u) : \E d \in H2Clients : x \in u.active[d]
    BY <1>1, <2>1, <2>6 DEF H2Books
  <2>9. \A d, f \in H2Clients : d # f => u.active[d] \cap u.active[f] = {}
    BY <1>1, <2>6 DEF H2Books
  <2>. QED
    BY <1>8, <2>2, <2>3, <2>4, <2>7, <2>8, <2>9 DEF H2Books, k
<1>11. H2Base(u)
  <2>1. H2Pool(u)
    BY <1>1, <1>2, <1>6, <1>8 DEF H2Pool
  <2>. QED
    BY <1>7, <1>10, <2>1 DEF H2Base
<1>12. /\ H2Base(v) /\ H2OldBusy(v) /\ v.drained = 0 /\ H2Keeps(h2, v) /\ \E e : H2Step(h2, v, e)
  <2>1. CASE c = u.old /\ u.active[c] = {}
    <3>1. c # u.primary
      BY <1>1, <1>2, <1>8, <2>1 DEF H2Pool
    <3>2. v = h2Close(u, c)
      BY <2>1
    <3>3. H2Base(v) /\ v.old = "none" /\ v.drained = u.drained /\ H2Keeps(u, v) /\ H2Step(u, v, {})
      <4>1. c \in {u.primary, u.old} /\ u.active[c] = {}
        BY <2>1
      <4>. HIDE DEF v
      <4>. QED
        BY <1>11, <3>1, <3>2, <4>1, H2IdleOldCloses
    <3>4. H2Step(h2, v, {s} \cup {})
      BY <1>9, <3>3, H2StepTwice
    <3>. HIDE DEF v
    <3>. QED
      BY <1>2, <1>8, <3>3, <3>4 DEF H2OldBusy, H2Keeps
  <2>2. CASE ~(c = u.old /\ u.active[c] = {})
    <3>1. v = u
      BY <2>2
    <3>2. H2OldBusy(u)
      <4>1. u.old # "none" /\ u.old # c => u.old \in H2Clients /\ u.active[u.old] = h2.active[h2.old]
        BY <1>4, <1>6, <1>8 DEF H2Client
      <4>. QED
        BY <1>1, <1>8, <2>2, <4>1 DEF H2OldBusy
    <3>. HIDE DEF v
    <3>. QED
      BY <1>2, <1>8, <1>9, <1>11, <3>1, <3>2 DEF H2Keeps
  <2>. QED
    BY <2>1, <2>2
<1>. HIDE DEF v
<1>13. PICK e : H2Step(h2, v, e)
  BY <1>12
<1>14. H2Calm(h2') /\ H2Step(v, h2', {}) /\ H2Keeps(v, h2')
  BY <1>3, <1>12, H2CheckDrained
<1>15. H2Step(h2, h2', e \cup {})
  BY <1>13, <1>14, H2StepTwice
<1>. QED
  BY <1>1, <1>12, <1>14, <1>15 DEF H2Inv, H2OK, H2Keeps

LEMMA H2GoAwayOK ==
    ASSUME H2Inv, NEW c \in H2Clients, H2OnGoAway(c)
    PROVE  H2Inv' /\ \E e : H2Step(h2, h2', e)
<1>. DEFINE w == h2.away \cup {c}
            p == [h2 EXCEPT !.away = w]
<1>1. /\ H2Base(h2) /\ h2 \in H2State /\ H2OldBusy(h2) /\ H2DrainBusy(h2) /\ H2Once(h2) /\ H2Books(h2)
      /\ H2Pool(h2) /\ (h2.primary # "none" => h2.primary \notin h2.away) /\ h2.away \subseteq H2Clients
  BY H2Types DEF H2Inv, H2OK, H2Calm, H2Base
<1>2. c \in {h2.primary, h2.old} /\ c # "none" /\ h2' = IF c = p.primary THEN h2MovePrimaryClientToDraining(p) ELSE p
  BY H2Assumption DEF H2OnGoAway
<1>3. w \subseteq H2Clients /\ w \subseteq {h2.primary, h2.old}
  BY <1>1, <1>2 DEF H2Pool
<1>4. p \in H2State
  BY <1>1, <1>3 DEF H2State
<1>5. /\ p.requests = h2.requests /\ p.active = h2.active /\ p.stream = h2.stream /\ p.primary = h2.primary
      /\ p.old = h2.old /\ p.away = w /\ p.draining = h2.draining /\ p.drained = h2.drained
  BY <1>1 DEF H2State
<1>. HIDE DEF p
<1>6. H2Books(p)
  BY <1>1, <1>5, H2BooksFrame
<1>7. H2Calm(p) /\ H2Step(h2, p, {})
  BY <1>1, <1>3, <1>4, <1>5, <1>6, H2Still DEF H2Calm, H2Base, H2Pool, H2OldBusy, H2DrainBusy, H2Once
<1>8. CASE c = p.primary
  <2>1. h2' = h2MovePrimaryClientToDraining(p) /\ p.primary # "none"
    BY <1>2, <1>8
  <2>2. H2Calm(h2') /\ h2'.primary = "none" /\ \E e : H2Step(p, h2', e)
    BY <1>7, <2>1, H2MoveCalm
  <2>3. PICK e : H2Step(p, h2', e)
    BY <2>2
  <2>4. H2Step(h2, h2', {} \cup e)
    BY <1>7, <2>3, H2StepTwice
  <2>. QED
    BY <2>2, <2>4 DEF H2Inv, H2OK
<1>9. CASE c # p.primary
  <2>1. h2' = p /\ c = h2.old
    BY <1>2, <1>5, <1>9
  <2>2. p.primary # "none" => p.primary \notin p.away
    BY <1>1, <1>5, <2>1 DEF H2Pool
  <2>. QED
    BY <1>7, <2>1, <2>2 DEF H2Inv, H2OK
<1>. QED
  BY <1>8, <1>9

\* The pool is asked to drain: q is what is left of it.
LEMMA H2AddDrainedOK ==
    ASSUME H2Inv, H2AddDrainedCallback
    PROVE  /\ H2Inv' /\ h2'.draining /\ ~h2.draining /\ \A s \in H2Streams : h2'.stream[s] = h2.stream[s]
           /\ h2'.drained = 0 \/ (h2'.drained = 1 /\ H2Running(h2) = {})
<1>. DEFINE yes == TRUE
            p == [h2 EXCEPT !.draining = yes]
<1>1. /\ H2Base(h2) /\ h2 \in H2State /\ H2OldBusy(h2) /\ H2Once(h2) /\ H2Books(h2) /\ h2.drained = 0
      /\ H2Pool(h2) /\ (h2.primary # "none" => h2.primary \notin h2.away) /\ ~h2.draining
  BY DEF H2Inv, H2OK, H2Calm, H2Base, H2Once, H2AddDrainedCallback
<1>2. h2' = h2CheckForDrained(p) /\ yes \in BOOLEAN /\ yes = TRUE
  BY DEF H2AddDrainedCallback
<1>. HIDE DEF yes
<1>3. p \in H2State
  BY <1>1, <1>2 DEF H2State
<1>4. /\ p.requests = h2.requests /\ p.active = h2.active /\ p.stream = h2.stream /\ p.primary = h2.primary
      /\ p.old = h2.old /\ p.away = h2.away /\ p.draining = yes /\ p.drained = h2.drained
  BY <1>1 DEF H2State
<1>. HIDE DEF p
<1>5. H2Books(p) /\ H2Running(p) = H2Running(h2)
  BY <1>1, <1>4, H2BooksFrame
<1>6. H2Base(p) /\ H2OldBusy(p)
  BY <1>1, <1>3, <1>4, <1>5 DEF H2Base, H2Pool, H2OldBusy
<1>7. H2Calm(h2') /\ H2Step(p, h2', {}) /\ H2Keeps(p, h2')
  BY <1>1, <1>2, <1>4, <1>6, H2CheckDrained
<1>8. H2Running(h2') = H2Running(p) \ {}
  BY <1>7, H2RunningStep
<1>9. H2Inv'
  BY <1>1, <1>4, <1>7 DEF H2Inv, H2OK, H2Keeps
<1>10. h2'.draining /\ \A s \in H2Streams : h2'.stream[s] = h2.stream[s]
  BY <1>2, <1>4, <1>7 DEF H2Step
<1>11. h2'.drained = 0 \/ (h2'.drained = 1 /\ H2Running(h2) = {})
  BY <1>1, <1>4, <1>5, <1>7, <1>8 DEF H2Step
<1>. QED
  BY <1>1, <1>9, <1>10, <1>11

LEMMA H2InitInv == H2Init => H2Inv
<1>. SUFFICES ASSUME H2Init PROVE H2Inv
  OBVIOUS
<1>. DEFINE st == [s \in H2Streams |-> "new"]
            ac == [c \in H2Clients |-> {}]
            ns == [c \in H2Clients |-> 0]
<1>1. st \in H2StreamMap /\ ac \in H2ActiveMap /\ ns \in H2TotalMap
  BY DEF H2StreamMap, H2ActiveMap, H2TotalMap, H2Phases
<1>2. (\A s \in H2Streams : st[s] = "new") /\ (\A c \in H2Clients : ac[c] = {})
  OBVIOUS
<1>3. h2 = [stream |-> st, primary |-> "none", old |-> "none", active |-> ac, total |-> ns, timer |-> {}, away |-> {},
            deleted |-> {}, requests |-> 0, draining |-> FALSE, drained |-> 0]
  BY DEF H2Init
<1>. HIDE DEF st, ac, ns
<1>4. h2 \in H2State
  <2>1. "none" \in H2Client
    BY DEF H2Client
  <2>. QED
    BY <1>1, <1>3, <2>1 DEF H2State
<1>5. /\ h2.stream = st /\ h2.active = ac /\ h2.primary = "none" /\ h2.old = "none" /\ h2.away = {} /\ h2.requests = 0
      /\ h2.draining = FALSE /\ h2.drained = 0
  BY <1>3
<1>6. H2Running(h2) = {}
  BY <1>2, <1>5 DEF H2Running
<1>7. H2Books(h2)
  BY <1>2, <1>5, <1>6, FS_EmptySet, H2Assumption DEF H2Books
<1>. QED
  BY <1>2, <1>4, <1>5, <1>7 DEF H2Inv, H2OK, H2Calm, H2Base, H2Pool, H2OldBusy, H2DrainBusy, H2Once

\* What a step of the pool is: the classes that the refinement tells apart.
H2Change ==
    \/ \E s \in H2Streams : \E e : H2Asked(h2, h2', s, e)
    \/ \E e : H2Step(h2, h2', e)
    \/ /\ h2'.draining /\ ~h2.draining /\ \A s \in H2Streams : h2'.stream[s] = h2.stream[s]
       /\ h2'.drained = 0 \/ (h2'.drained = 1 /\ H2Running(h2) = {})

LEMMA H2NextInv == H2Inv /\ H2Next => H2Inv' /\ H2Change
<1>. SUFFICES ASSUME H2Inv, H2Next PROVE H2Inv' /\ H2Change
  OBVIOUS
<1>1. ASSUME NEW s \in H2Streams, NEW room \in BOOLEAN, H2NewStream(s, room) PROVE H2Inv' /\ H2Change
  BY <1>1, H2NewStreamOK DEF H2Change
<1>2. ASSUME NEW c \in H2Clients, H2Connected(c) \/ H2DeferredDelete PROVE H2Inv' /\ H2Change
  BY <1>2, H2ConnectedOK DEF H2Change
<1>3. ASSUME NEW c \in H2Clients, H2Closes(c) PROVE H2Inv' /\ H2Change
  BY <1>3, H2ClosesOK DEF H2Change
<1>4. ASSUME NEW c \in H2Clients, H2OnGoAway(c) PROVE H2Inv' /\ H2Change
  BY <1>4, H2GoAwayOK DEF H2Change
<1>5. ASSUME NEW c \in H2Clients, H2Ends(c) PROVE H2Inv' /\ H2Change
  BY <1>5, H2EndsOK DEF H2Change, H2Ends
<1>6. CASE H2AddDrainedCallback
  BY <1>6, H2AddDrainedOK DEF H2Change
<1>7. CASE H2DeferredDelete
  <2>1. \E c : c \in H2Clients
    <3>1. h2.deleted # {} /\ h2.deleted \subseteq H2Clients
      BY <1>7, H2Types DEF H2DeferredDelete, H2Inv, H2OK, H2Calm, H2Base
    <3>. QED
      BY <3>1
  <2>. QED
    BY <1>2, <1>7, <2>1
<1>. QED
  BY <1>1, <1>2, <1>3, <1>4, <1>5, <1>6, <1>7 DEF H2Next

LEMMA H2InvSound == H2Inv => H2Sound
<1>. SUFFICES ASSUME H2Inv PROVE H2Sound
  OBVIOUS
<1>1. /\ h2 \in H2State /\ H2OldBusy(h2) /\ H2DrainBusy(h2) /\ H2Once(h2) /\ H2Books(h2)
      /\ H2Pool(h2) /\ (h2.primary # "none" => h2.primary \notin h2.away)
  BY DEF H2Inv, H2OK, H2Calm, H2Base
<1>2. h2.stream \in H2StreamMap /\ h2.primary \in H2Client /\ h2.old \in H2Client /\ h2.requests \in Int
  BY <1>1, H2Types
<1>3. Cardinality(H2Running(h2)) \in Nat
  BY <1>1, FS_CardinalityType DEF H2Books
<1>4. H2TypeOK
  BY <1>1, <1>2, <1>3, H2Assumption DEF H2TypeOK, H2StreamMap, H2Phases, H2Client, H2Books, H2Once
<1>5. UNION {h2.active[c] : c \in H2Clients} = H2Running(h2)
  BY <1>1 DEF H2Books
<1>6. h2.requests = Cardinality(H2Running(h2))
  BY <1>1 DEF H2Books
<1>. QED
  BY <1>1, <1>4, <1>5, <1>6 DEF H2Sound, H2Pool, H2OldBusy, H2DrainBusy, H2Running

\* The HTTP/2 pool, for any number of streams and connections and any limits: every
\* stream is on one connection of the pool and counted once against the breaker, the
\* draining connection has streams, and no primary is left that saw a GOAWAY or, in a
\* pool that drains, is idle.
THEOREM H2SoundHolds == H2Spec => []H2Sound
<1>1. H2Inv /\ UNCHANGED h2 => H2Inv'
  BY DEF H2Inv
<1>2. H2Inv /\ [H2Next]_h2 => H2Inv'
  BY <1>1, H2NextInv
<1>3. H2Spec => []H2Inv
  BY <1>2, H2InitInv, PTL DEF H2Spec
<1>. QED
  BY <1>3, H2InvSound, PTL

----------------------------------------------------------------------------
(***************************************************************************)
(* The refinement.  Nothing waits in this pool, a stream is served at once *)
(* or refused.                                                             *)
(***************************************************************************)

LEMMA H2NothingWaits ==
    /\ SubSeq(<<>>, 1, 0) = <<>> /\ SubSeq(<<>>, 0 + 1, Len(<<>>)) = <<>> /\ Len(<<>>) = 0 /\ 0 \in 0..Len(<<>>)
    /\ H2Abstract!Elements(SubSeq(<<>>, 1, 0)) = {}
<1>1. SubSeq(<<>>, 1, 0) = <<>> /\ SubSeq(<<>>, 0 + 1, Len(<<>>)) = <<>> /\ Len(<<>>) = 0 /\ 0 \in 0..Len(<<>>)
  OBVIOUS
<1>2. H2Abstract!Elements(<<>>) = {}
  BY DEF H2Abstract!Elements
<1>. QED
  BY <1>1, <1>2

LEMMA H2PhaseFacts ==
    ASSUME NEW p \in H2State, NEW s \in H2Streams
    PROVE  /\ h2PhaseOf(p.stream[s]) = "served" <=> s \in H2Running(p)
           /\ p.stream[s] \in {"complete", "reset"} => h2PhaseOf(p.stream[s]) = "ended"
           /\ p.stream[s] = "new" => h2PhaseOf(p.stream[s]) = "new"
           /\ p.stream[s] = "active" => h2PhaseOf(p.stream[s]) = "served"
           /\ p.stream[s] = "overflow" => h2PhaseOf(p.stream[s]) = "failed"
<1>1. p.stream[s] \in H2Phases
  BY H2Types
<1>. QED
  BY <1>1 DEF h2PhaseOf, H2Phases, H2Running

LEMMA H2StepRefines ==
    ASSUME H2Inv, H2Inv', NEW e, H2Step(h2, h2', e)
    PROVE  H2Abstract!Next
<1>1. h2 \in H2State /\ h2' \in H2State /\ H2Once(h2) /\ H2Once(h2)'
  BY DEF H2Inv, H2OK, H2Calm, H2Base
<1>2. e \in SUBSET H2Abstract!In("served")
  BY <1>1, H2PhaseFacts DEF H2Step, H2Abstract!In, H2Phase, H2Running
<1>3. H2Phase' = [s \in H2Streams |-> IF s \in e THEN "ended"
                                      ELSE IF s \in H2Abstract!Elements(SubSeq(<<>>, 1, 0)) THEN "served" ELSE H2Phase[s]]
  <2>1. \A s \in H2Streams : h2PhaseOf(h2'.stream[s]) = IF s \in e THEN "ended" ELSE h2PhaseOf(h2.stream[s])
    BY <1>1, H2PhaseFacts DEF H2Step
  <2>. QED
    BY <2>1, H2NothingWaits DEF H2Phase
<1>4. H2Abstract!MayDrain
  <2>1. CASE h2'.drained = h2.drained
    BY <2>1 DEF H2Step, H2Abstract!MayDrain, H2Drain
  <2>2. CASE h2.draining /\ h2.drained = 0 /\ h2'.drained = 1 /\ H2Running(h2') = {}
    <3>1. H2Drain = "asked" /\ H2Drain' = "done"
      BY <2>2 DEF H2Drain, H2Step
    <3>2. \A s \in H2Streams : H2Phase'[s] # "served"
      BY <1>1, <2>2, H2PhaseFacts DEF H2Phase
    <3>. QED
      BY <3>1, <3>2 DEF H2Abstract!MayDrain
  <2>. QED
    BY <2>1, <2>2 DEF H2Step
<1>5. H2Abstract!Proceed(e, 0)
  BY <1>3, <1>4, H2NothingWaits DEF H2Abstract!Proceed
<1>. QED
  BY <1>2, <1>5, H2NothingWaits DEF H2Abstract!Next

LEMMA H2AskRefines ==
    ASSUME H2Inv, H2Inv', NEW s \in H2Streams, NEW e, H2Asked(h2, h2', s, e)
    PROVE  H2Abstract!Next
<1>1. h2 \in H2State /\ h2' \in H2State
  BY DEF H2Inv, H2OK, H2Calm, H2Base
<1>2. e \in SUBSET H2Abstract!In("served")
  BY <1>1, H2PhaseFacts DEF H2Asked, H2Abstract!In, H2Phase, H2Running
<1>3. H2Phase[s] = "new" /\ H2Drain = "no" /\ H2Drain' = "no"
  BY <1>1, H2PhaseFacts DEF H2Asked, H2Phase, H2Drain
<1>4. PICK outcome \in {"failed", "served"} : h2PhaseOf(h2'.stream[s]) = outcome
  BY <1>1, H2PhaseFacts DEF H2Asked
<1>5. \A x \in H2Streams : h2PhaseOf(h2'.stream[x]) = IF x = s THEN outcome ELSE IF x \in e THEN "ended" ELSE h2PhaseOf(h2.stream[x])
  BY <1>1, <1>4, H2PhaseFacts DEF H2Asked
<1>6. H2Phase' = [x \in H2Streams |-> IF x = s THEN outcome ELSE IF x \in e THEN "ended" ELSE H2Phase[x]]
  BY <1>5 DEF H2Phase
<1>7. H2Abstract!Ask(s, e)
  BY <1>3, <1>4, <1>6 DEF H2Abstract!Ask
<1>. QED
  BY <1>2, <1>7 DEF H2Abstract!Next

LEMMA H2NextRefines == H2Inv /\ H2Inv' /\ [H2Next]_h2 => [H2Abstract!Next]_(H2Abstract!vars)
<1>. SUFFICES ASSUME H2Inv, H2Inv', [H2Next]_h2 PROVE [H2Abstract!Next]_(H2Abstract!vars)
  OBVIOUS
<1>1. CASE UNCHANGED h2
  BY <1>1 DEF H2Abstract!vars, H2Phase, H2Drain
<1>2. ASSUME NEW s \in H2Streams, NEW e, H2Asked(h2, h2', s, e) PROVE H2Abstract!Next
  BY <1>2, H2AskRefines
<1>3. ASSUME NEW e, H2Step(h2, h2', e) PROVE H2Abstract!Next
  BY <1>3, H2StepRefines
<1>4. ASSUME h2'.draining, ~h2.draining, \A s \in H2Streams : h2'.stream[s] = h2.stream[s],
             h2'.drained = 0 \/ (h2'.drained = 1 /\ H2Running(h2) = {})
      PROVE  H2Abstract!Next
  <2>1. h2 \in H2State
    BY DEF H2Inv, H2OK, H2Calm, H2Base
  <2>2. H2Drain = "no" /\ H2Drain' = IF h2'.drained = 0 THEN "asked" ELSE "done"
    BY <1>4 DEF H2Drain
  <2>3. H2Phase' = H2Phase
    BY <1>4 DEF H2Phase
  <2>4. H2Running(h2) = {} => H2Abstract!In("served") = {}
    BY <2>1, H2PhaseFacts DEF H2Abstract!In, H2Phase
  <2>. QED
    BY <1>4, <2>2, <2>3, <2>4 DEF H2Abstract!Next, H2Abstract!Drain
<1>5. CASE H2Next
  <2>1. H2Change
    BY <1>5, H2NextInv
  <2>. QED
    BY <1>2, <1>3, <1>4, <2>1 DEF H2Change
<1>. QED
  BY <1>1, <1>5

LEMMA H2InitRefines == H2Init => H2Abstract!Init
  BY DEF H2Init, H2Abstract!Init, H2Phase, H2Drain, h2PhaseOf

\* The HTTP/2 pool implements StreamPool, for any number of streams and connections and
\* any limits: every stream has one outcome, and the drained callback is called once,
\* when no connection has a stream.
THEOREM H2Implements == H2Spec => H2ImplementsStreamPool
<1>1. H2Inv /\ UNCHANGED h2 => H2Inv'
  BY DEF H2Inv
<1>2. H2Inv /\ [H2Next]_h2 => H2Inv'
  BY <1>1, H2NextInv
<1>. QED
  BY <1>2, H2InitInv, H2NextRefines, H2InitRefines, PTL DEF H2Spec, H2ImplementsStreamPool, H2Abstract!Safety

\* Both pools of a host keep what they promise to the code that asks them for streams.
THEOREM PoolsImplement == H1Spec /\ H2Spec => ImplementStreamPool
  BY H1Implements, H2Implements, PTL DEF ImplementStreamPool

----------------------------------------------------------------------------
(***************************************************************************)
(* The router.  Its handlers call each other, so the lemmas follow its     *)
(* functions: RtBooks holds between any two calls, RtOK at the end of a    *)
(* handler.                                                                *)
(***************************************************************************)

\* The types of upstream_request_, of retry_state_ and of the whole state.
RtUpType == [st : {"none", "pending", "ready", "closed"}, host : BOOLEAN, got : Nat, complete : BOOLEAN, perTry : BOOLEAN]
RtRetryType == [on : BOOLEAN, remaining : Nat, callback : BOOLEAN, timer : BOOLEAN]
RtState == [down : {"new", "open", "answered", "reset", "gone"}, alt : BOOLEAN, chunks : Nat, buffer : Nat,
            endStream : BOOLEAN, started : BOOLEAN, up : RtUpType, retry : RtRetryType, retries : Int,
            response : BOOLEAN, shadow : BOOLEAN, shadowed : Nat, attempts : Nat, dangling : BOOLEAN, crashed : BOOLEAN]

RtOne(b) == IF b THEN 1 ELSE 0

\* What holds between any two calls inside a handler.
RtBooks(p) ==
    /\ p \in RtState /\ ~p.dangling
    /\ p.retries = RtOne(p.retry.callback)
    /\ p.attempts + p.retry.remaining + RtOne(p.retry.timer) <= 1 + RtNumRetries
    /\ p.retry.remaining <= RtNumRetries
    /\ p.buffer <= p.chunks /\ p.chunks <= RtChunks

\* The stream is answered, reset or gone: nothing of the filter is left.
RtOver(p) ==
    /\ RtBooks(p) /\ p.down \in {"answered", "reset", "gone"}
    /\ ~p.response /\ p.up = NoUpstream /\ p.retry = NoRetry

\* No headers yet.
RtFresh(p) ==
    /\ RtBooks(p) /\ p.down = "new" /\ p.attempts = 0 /\ p.chunks = 0 /\ ~p.started /\ ~p.endStream
    /\ ~p.response /\ p.up = NoUpstream /\ p.retry = NoRetry

\* The request is with an upstream.
RtTrying(p) ==
    /\ p.up.st \in {"pending", "ready"} /\ p.up.got = p.chunks /\ (p.up.complete <=> p.endStream)
    /\ ~p.retry.timer
    /\ p.started => p.up.st = "ready" /\ ~p.retry.on

\* The retry timer runs.
RtWaiting(p) ==
    /\ p.up = NoUpstream /\ p.retry.timer /\ p.retry.callback /\ p.retry.on /\ p.endStream /\ ~p.started

\* The stream is open.  Whoever may retry still has all of the body buffered.
RtActive(p) ==
    /\ RtBooks(p) /\ p.down = "open"
    /\ p.retry.on => p.buffer = p.chunks
    /\ ~p.retry.on => p.retry = NoRetry
    /\ RtTrying(p) \/ RtWaiting(p)

\* The inductive invariant: RtSound does not say that a stream is in one of these
\* three states, nor that the body is whole while a retry is possible, and without
\* that a retry could be given less than what arrived.
RtOK(p) == RtFresh(p) \/ RtActive(p) \/ RtOver(p)
RtInv == RtOK(rt)

----------------------------------------------------------------------------
\* The fields of a state have their types.
LEMMA RtTypes ==
    ASSUME NEW p \in RtState
    PROVE  /\ p.up \in RtUpType /\ p.retry \in RtRetryType /\ p.retries \in Int /\ p.attempts \in Nat
           /\ p.chunks \in Nat /\ p.buffer \in Nat /\ p.shadowed \in Nat
           /\ p.endStream \in BOOLEAN /\ p.started \in BOOLEAN /\ p.response \in BOOLEAN /\ p.shadow \in BOOLEAN
           /\ p.dangling \in BOOLEAN /\ p.crashed \in BOOLEAN /\ p.alt \in BOOLEAN
  BY DEF RtState

\* No request and no retry are well typed.
LEMMA RtNones == NoUpstream \in RtUpType /\ NoRetry \in RtRetryType
  BY DEF NoUpstream, NoRetry, RtUpType, RtRetryType

\* What only the retry state and the breaker lose.
RtSame(p, q) ==
    /\ q.down = p.down /\ q.chunks = p.chunks /\ q.buffer = p.buffer /\ q.endStream = p.endStream
    /\ q.started = p.started /\ q.attempts = p.attempts

\* retry_state_.reset() gives back the share of the breaker.
LEMMA RtDropRetryOK ==
    ASSUME NEW p, RtBooks(p)
    PROVE  LET q == rtDropRetry(p)
           IN  RtBooks(q) /\ RtSame(p, q) /\ q.retry = NoRetry /\ q.up = p.up /\ q.response = p.response
<1>. DEFINE no == FALSE
            n == IF p.retry.callback THEN p.retries - 1 ELSE p.retries
            r == [p.retry EXCEPT !.callback = no]
            q1 == [p EXCEPT !.retries = n, !.retry = r]
            q == [q1 EXCEPT !.retry = NoRetry]
<1>1. p \in RtState /\ p.retry \in RtRetryType /\ p.attempts \in Nat
  BY RtTypes DEF RtBooks
<1>2. n = 0
  BY <1>1 DEF RtBooks, RtOne, RtRetryType
<1>3. rtDropRetry(p) = q
  BY <1>1 DEF rtDropRetry, rtResetRetry, RtState
<1>. HIDE DEF n, r
<1>4. q \in RtState
  <2>1. q1.retries = n /\ n \in Int
    BY <1>1, <1>2 DEF RtState
  <2>. QED
    BY <1>1, <2>1, RtNones DEF RtState
<1>5. /\ q.retry = NoRetry /\ q.retries = n /\ q.up = p.up /\ q.response = p.response /\ q.dangling = p.dangling
      /\ RtSame(p, q)
  BY <1>1 DEF RtState, RtSame
<1>6. NoRetry.remaining = 0 /\ ~NoRetry.timer /\ ~NoRetry.callback
  BY DEF NoRetry
<1>7. RtBooks(q)
  <2>1. q.attempts + 0 + 0 <= 1 + RtNumRetries
    BY <1>1, <1>5, RtAssumption DEF RtBooks, RtSame, RtOne, RtRetryType
  <2>2. q.retries = RtOne(q.retry.callback) /\ RtOne(q.retry.timer) = 0 /\ q.retry.remaining = 0
    BY <1>2, <1>5, <1>6 DEF RtOne
  <2>3. ~q.dangling /\ q.buffer <= q.chunks /\ q.chunks <= RtChunks
    BY <1>5 DEF RtBooks, RtSame
  <2>. HIDE DEF q
  <2>. QED
    BY <1>4, <2>1, <2>2, <2>3, RtAssumption DEF RtBooks
<1>. QED
  BY <1>3, <1>5, <1>7

\* upstream_request_.reset() of a request nobody will call again leaves nothing dangling.
LEMMA RtDropUpstreamOK ==
    ASSUME NEW p, RtBooks(p), p.up.st \in {"none", "closed"}
    PROVE  LET q == rtDropUpstream(p)
           IN  RtBooks(q) /\ RtSame(p, q) /\ q.retry = p.retry /\ q.up = NoUpstream /\ q.response = p.response
<1>. DEFINE d == p.dangling \/ p.up.st \in {"pending", "ready"}
            q == [p EXCEPT !.up = NoUpstream, !.dangling = d]
<1>1. p \in RtState /\ ~d /\ d \in BOOLEAN
  BY DEF RtBooks
<1>2. rtDropUpstream(p) = q
  BY DEF rtDropUpstream
<1>. HIDE DEF d
<1>3. q \in RtState
  BY <1>1, RtNones DEF RtState
<1>4. /\ q.retry = p.retry /\ q.retries = p.retries /\ q.up = NoUpstream /\ q.response = p.response /\ q.dangling = d
      /\ RtSame(p, q)
  BY <1>1 DEF RtState, RtSame
<1>. HIDE DEF q
<1>5. RtBooks(q)
  BY <1>1, <1>3, <1>4 DEF RtBooks, RtSame
<1>. QED
  BY <1>2, <1>4, <1>5

\* cleanup() stops the timers and keeps the books.
LEMMA RtCleanupOK ==
    ASSUME NEW p, RtBooks(p), p.up.st \in {"none", "closed"}
    PROVE  LET q == rtCleanup(p)
           IN  RtBooks(q) /\ RtSame(p, q) /\ q.retry = NoRetry /\ q.up = NoUpstream /\ ~q.response
<1>. DEFINE no == FALSE
            q1 == rtDropUpstream(p)
            q2 == rtDropRetry(q1)
            q == [q2 EXCEPT !.response = no]
<1>1. RtBooks(q1) /\ RtSame(p, q1) /\ q1.up = NoUpstream
  BY RtDropUpstreamOK
<1>2. RtBooks(q2) /\ RtSame(q1, q2) /\ q2.up = NoUpstream /\ q2.retry = NoRetry
  BY <1>1, RtDropRetryOK
<1>3. rtCleanup(p) = q
  BY DEF rtCleanup
<1>. HIDE DEF q2, q1
<1>4. no \in BOOLEAN /\ ~no
  OBVIOUS
<1>. HIDE DEF no
<1>5. q2 \in RtState
  BY <1>2 DEF RtBooks
<1>6. q \in RtState
  BY <1>4, <1>5 DEF RtState
<1>7. /\ q.retry = q2.retry /\ q.retries = q2.retries /\ q.up = q2.up /\ q.response = no /\ q.dangling = q2.dangling
      /\ RtSame(q2, q)
  BY <1>5 DEF RtState, RtSame
<1>. HIDE DEF q
<1>8. RtBooks(q)
  BY <1>2, <1>6, <1>7 DEF RtBooks, RtSame
<1>. QED
  BY <1>1, <1>2, <1>3, <1>4, <1>7, <1>8 DEF RtSame

\* After resetStream() nobody will call the request again.
LEMMA RtResetStreamOK ==
    ASSUME NEW p, RtBooks(p)
    PROVE  LET q == rtResetStream(p)
           IN  /\ RtBooks(q) /\ RtSame(p, q) /\ q.retry = p.retry /\ q.response = p.response /\ q.alt = p.alt
               /\ q.up.st \in {"none", "closed"} /\ (q.up.st = "none" => q = p)
<1>1. p \in RtState /\ p.up \in RtUpType
  BY RtTypes DEF RtBooks
<1>2. CASE p.up.st = "none"
  BY <1>2 DEF rtResetStream, RtSame
<1>3. CASE p.up.st # "none"
  <2>. DEFINE closed == "closed"
              u == [p.up EXCEPT !.st = closed]
              q == [p EXCEPT !.up = u]
  <2>1. rtResetStream(p) = q
    BY <1>1, <1>3 DEF rtResetStream, RtState
  <2>2. u \in RtUpType /\ u.st = "closed"
    BY <1>1 DEF RtUpType
  <2>. HIDE DEF u
  <2>3. q \in RtState
    BY <1>1, <2>2 DEF RtState
  <2>4. /\ q.retry = p.retry /\ q.retries = p.retries /\ q.up = u /\ q.response = p.response
        /\ q.dangling = p.dangling /\ q.alt = p.alt /\ RtSame(p, q)
    BY <1>1 DEF RtState, RtSame
  <2>. HIDE DEF q
  <2>5. RtBooks(q)
    BY <1>1, <2>3, <2>4 DEF RtBooks, RtSame
  <2>. QED
    BY <2>1, <2>2, <2>4, <2>5
<1>. QED
  BY <1>2, <1>3

\* onDestroy() ends the stream from any state with sound books.
LEMMA RtOnDestroyOK ==
    ASSUME NEW p, RtBooks(p), NEW down \in {"answered", "reset", "gone"}
    PROVE  RtOver(rtOnDestroy(p, down))
<1>. DEFINE q1 == rtResetStream(p)
            q2 == rtCleanup(q1)
            q == [q2 EXCEPT !.down = down]
<1>1. RtBooks(q1) /\ q1.up.st \in {"none", "closed"}
  BY RtResetStreamOK
<1>2. RtBooks(q2) /\ q2.retry = NoRetry /\ q2.up = NoUpstream /\ ~q2.response
  BY <1>1, RtCleanupOK
<1>3. rtOnDestroy(p, down) = q
  BY DEF rtOnDestroy
<1>. HIDE DEF q1, q2
<1>4. q2 \in RtState
  BY <1>2 DEF RtBooks
<1>5. q \in RtState
  BY <1>4 DEF RtState
<1>6. /\ q.retry = q2.retry /\ q.retries = q2.retries /\ q.up = q2.up /\ q.response = q2.response
      /\ q.dangling = q2.dangling /\ q.buffer = q2.buffer /\ q.chunks = q2.chunks /\ q.attempts = q2.attempts
      /\ q.down = down
  BY <1>4 DEF RtState
<1>. HIDE DEF q
<1>. QED
  BY <1>2, <1>3, <1>5, <1>6 DEF RtBooks, RtOver

\* p with another share of the breaker and another retry state.
RtPut(p, k, r) == [p EXCEPT !.retries = k, !.retry = r]

\* What RtPut changes, and that it changes nothing else.
LEMMA RtWithRetry ==
    ASSUME NEW p \in RtState, NEW k \in Int, NEW r \in RtRetryType
    PROVE  LET q == RtPut(p, k, r)
           IN  /\ q \in RtState /\ RtSame(p, q) /\ q.up = p.up /\ q.response = p.response /\ q.alt = p.alt
               /\ q.retry = r /\ q.retries = k /\ q.dangling = p.dangling
  BY DEF RtState, RtSame, RtPut

\* shouldRetry(): a retry it grants is one of those left, has its callback and its
\* timer, and one share of the breaker.
LEMMA RtShouldRetryOK ==
    ASSUME NEW p, RtBooks(p), ~p.retry.timer, NEW cause, NEW allowed \in BOOLEAN
    PROVE  LET a == rtShouldRetry(p, cause, allowed)
               q == a.state
           IN  /\ RtBooks(q) /\ RtSame(p, q) /\ q.up = p.up /\ q.response = p.response /\ q.alt = p.alt
               /\ q.retry.on = p.retry.on
               /\ a.yes => q.retry.timer /\ q.retry.callback
               /\ ~a.yes => ~q.retry.timer
<1>. DEFINE no == FALSE
            is == TRUE
            n == IF p.retry.callback THEN p.retries - 1 ELSE p.retries
            r1 == [p.retry EXCEPT !.callback = no]
            q1 == RtPut(p, n, r1)
            left == rtRemaining(p, cause)
            r2 == [r1 EXCEPT !.remaining = left, !.callback = is, !.timer = is]
            r3 == [r1 EXCEPT !.remaining = left]
            m == n + 1
            q2 == RtPut(p, m, r2)
            q3 == RtPut(p, n, r3)
            yes == p.retry.remaining > 0 /\ rtWouldRetry(cause) /\ allowed
            a == rtShouldRetry(p, cause, allowed)
<1>1. p \in RtState /\ p.retry \in RtRetryType /\ p.attempts \in Nat /\ p.retries \in Int /\ p.retry.remaining \in Nat
  BY RtTypes DEF RtBooks, RtRetryType
<1>2. n = 0 /\ m = 1
  BY <1>1 DEF RtBooks, RtOne, RtRetryType
<1>3. left \in Nat /\ left <= p.retry.remaining /\ (yes => left + 1 = p.retry.remaining)
  BY <1>1 DEF rtRemaining
<1>4. rtResetRetry(p) = q1
  BY <1>1 DEF rtResetRetry, RtState, RtPut
<1>5. r1 \in RtRetryType /\ r1.on = p.retry.on /\ r1.callback = no /\ r1.timer = p.retry.timer
  BY <1>1 DEF RtRetryType
<1>6. q1 \in RtState /\ q1.retry = r1 /\ q1.retries = n
  <2>1. n \in Int
    BY <1>2
  <2>. QED
    BY <1>1, <1>5, <2>1, RtWithRetry
<1>7. a.state = (IF yes THEN q2 ELSE q3) /\ a.yes = yes
  <2>1. [q1 EXCEPT !.retry.remaining = left, !.retry.callback = is, !.retry.timer = is, !.retries = @ + 1] = q2
    <3>. HIDE DEF r1, n, left, is
    <3>. QED
      BY <1>1, <1>6 DEF RtState, RtPut
  <2>2. [q1 EXCEPT !.retry.remaining = left] = q3
    <3>. HIDE DEF r1, n, left
    <3>. QED
      BY <1>1, <1>6 DEF RtState, RtPut
  <2>. QED
    BY <1>4, <2>1, <2>2 DEF rtShouldRetry
<1>8. is \in BOOLEAN /\ is /\ no \in BOOLEAN /\ ~no /\ yes \in BOOLEAN
  OBVIOUS
<1>. HIDE DEF is, no, left, r1, yes
<1>9. r2 \in RtRetryType /\ r2.on = p.retry.on /\ r2.callback = is /\ r2.timer = is /\ r2.remaining = left
  BY <1>3, <1>5, <1>8 DEF RtRetryType
<1>10. r3 \in RtRetryType /\ r3.on = p.retry.on /\ r3.callback = no /\ r3.timer = p.retry.timer /\ r3.remaining = left
  BY <1>3, <1>5, <1>8 DEF RtRetryType
<1>. HIDE DEF r2, r3, n, m
<1>11. n \in Int /\ m \in Int
  BY <1>2
<1>16. /\ q2 \in RtState /\ RtSame(p, q2) /\ q2.up = p.up /\ q2.response = p.response /\ q2.alt = p.alt
       /\ q2.retry = r2 /\ q2.retries = m /\ q2.dangling = p.dangling
  <2>. HIDE DEF q1, q3, a
  <2>. QED
    BY <1>1, <1>9, <1>11, RtWithRetry
<1>12. ASSUME yes PROVE RtBooks(q2)
  <2>1. /\ q2 \in RtState /\ RtSame(p, q2) /\ q2.retry = r2 /\ q2.retries = m /\ q2.dangling = p.dangling
    BY <1>16
  <2>. HIDE DEF q2
  <2>2. q2.attempts + q2.retry.remaining + 1 <= 1 + RtNumRetries
    BY <1>1, <1>3, <1>9, <1>12, <2>1, RtAssumption DEF RtBooks, RtSame, RtOne
  <2>3. RtOne(q2.retry.timer) = 1 /\ q2.retries = RtOne(q2.retry.callback)
    BY <1>2, <1>8, <1>9, <2>1 DEF RtOne
  <2>4. q2.retry.remaining <= RtNumRetries
    BY <1>1, <1>3, <1>9, <2>1, RtAssumption DEF RtBooks
  <2>. QED
    BY <2>1, <2>2, <2>3, <2>4 DEF RtBooks, RtSame
<1>13. RtBooks(q3)
  <2>1. /\ q3 \in RtState /\ RtSame(p, q3) /\ q3.retry = r3 /\ q3.retries = n /\ q3.dangling = p.dangling
    BY <1>1, <1>10, <1>11, RtWithRetry
  <2>. HIDE DEF q3
  <2>2. q3.attempts + q3.retry.remaining + 0 <= 1 + RtNumRetries
    BY <1>1, <1>3, <1>10, <2>1, RtAssumption DEF RtBooks, RtSame, RtOne
  <2>3. RtOne(q3.retry.timer) = 0 /\ q3.retries = RtOne(q3.retry.callback)
    BY <1>2, <1>8, <1>10, <2>1 DEF RtOne
  <2>4. q3.retry.remaining <= RtNumRetries
    BY <1>1, <1>3, <1>10, <2>1, RtAssumption DEF RtBooks
  <2>. QED
    BY <2>1, <2>2, <2>3, <2>4 DEF RtBooks, RtSame
<1>14. CASE yes
  <2>1. a.state = q2 /\ a.yes = yes
    BY <1>7, <1>14
  <2>2. /\ RtSame(p, q2) /\ q2.up = p.up /\ q2.response = p.response /\ q2.alt = p.alt /\ q2.retry = r2
    BY <1>16
  <2>. HIDE DEF q2
  <2>. QED
    BY <1>8, <1>9, <1>12, <1>14, <2>1, <2>2
<1>15. CASE ~yes
  <2>1. a.state = q3 /\ a.yes = yes
    BY <1>7, <1>15
  <2>2. /\ RtSame(p, q3) /\ q3.up = p.up /\ q3.response = p.response /\ q3.alt = p.alt /\ q3.retry = r3
    BY <1>1, <1>10, <1>11, RtWithRetry
  <2>. HIDE DEF q3
  <2>. QED
    BY <1>10, <1>13, <1>15, <2>1, <2>2
<1>. QED
  BY <1>14, <1>15

\* The upstream request is of no more use.
RtLost(p) ==
    /\ RtBooks(p) /\ p.down = "open" /\ p.up.st \in {"none", "closed"}
    /\ p.retry.on => p.buffer = p.chunks
    /\ ~p.retry.on => p.retry = NoRetry
    /\ p.started => ~p.retry.on

\* It waits for the retry timer.
RtRetrying(p) == RtActive(p) /\ RtWaiting(p)

\* onUpstreamReset() ends the stream or sets up a retry, and nothing else.
LEMMA RtOnUpstreamResetOK ==
    ASSUME NEW p, RtLost(p), NEW type, type # "GlobalTimeout" => ~p.retry.timer, NEW reason, NEW allowed \in BOOLEAN
    PROVE  LET q == rtOnUpstreamReset(p, type, reason, allowed) IN RtOver(q) \/ RtRetrying(q)
<1>. DEFINE asked == type # "GlobalTimeout" /\ ~p.started /\ p.retry.on
            answer == IF asked THEN rtShouldRetry(p, reason, allowed) ELSE [state |-> p, yes |-> FALSE]
            q == answer.state
            nullHost == type # "Reset" /\ p.alt /\ ~p.up.host
<1>1. RtBooks(q) /\ RtSame(p, q) /\ q.up = p.up /\ q.retry.on = p.retry.on
  <2>1. CASE asked
    BY <2>1, RtShouldRetryOK DEF RtLost
  <2>2. CASE ~asked
    BY <2>2 DEF RtLost, RtSame
  <2>. QED
    BY <2>1, <2>2
<1>2. answer.yes => asked /\ q.retry.timer /\ q.retry.callback
  <2>1. CASE asked
    BY <2>1, RtShouldRetryOK DEF RtLost
  <2>2. CASE ~asked
    BY <2>2
  <2>. QED
    BY <2>1, <2>2
<1>3. p.alt \in BOOLEAN /\ p.up.host \in BOOLEAN
  BY RtTypes DEF RtLost, RtBooks, RtUpType
<1>. DEFINE res == rtOnUpstreamReset(p, type, reason, allowed)
<1>4. res = IF answer.yes /\ q.endStream THEN rtSetupRetry(q, TRUE)
            ELSE IF q.started THEN rtOnDestroy(rtCleanup(q), "reset")
            ELSE [rtSendLocalReply(rtCleanup(q)) EXCEPT !.crashed = nullHost]
  BY DEF rtOnUpstreamReset
<1>5. nullHost \in BOOLEAN
  OBVIOUS
<1>. HIDE DEF answer, nullHost
<1>6. q.up.st \in {"none", "closed"} /\ q.down = "open"
  BY <1>1 DEF RtLost, RtSame
<1>7. RtBooks(rtCleanup(q))
  BY <1>1, <1>6, RtCleanupOK
<1>8. CASE answer.yes /\ q.endStream
  <2>1. res = rtDropUpstream(q)
    BY <1>4, <1>8 DEF rtSetupRetry
  <2>2. RtBooks(res) /\ RtSame(q, res) /\ res.retry = q.retry /\ res.up = NoUpstream
    BY <1>1, <1>6, <2>1, RtDropUpstreamOK
  <2>3. res.retry.timer /\ res.retry.callback /\ res.retry.on /\ ~res.started /\ res.endStream
    BY <1>1, <1>2, <1>8, <2>2 DEF RtSame
  <2>4. res.down = "open" /\ res.buffer = res.chunks
    BY <1>1, <1>2, <1>8, <2>2 DEF RtSame, RtLost
  <2>. QED
    BY <2>2, <2>3, <2>4 DEF RtRetrying, RtActive, RtWaiting
<1>9. CASE ~(answer.yes /\ q.endStream) /\ q.started
  BY <1>4, <1>7, <1>9, RtOnDestroyOK
<1>10. CASE ~(answer.yes /\ q.endStream) /\ ~q.started
  <2>. DEFINE s == rtSendLocalReply(rtCleanup(q))
              t == [s EXCEPT !.crashed = nullHost]
  <2>1. RtOver(s)
    BY <1>7, RtOnDestroyOK DEF rtSendLocalReply
  <2>2. res = t
    BY <1>4, <1>10
  <2>. HIDE DEF s
  <2>3. s \in RtState
    BY <2>1 DEF RtOver, RtBooks
  <2>4. t \in RtState
    BY <1>5, <2>3 DEF RtState
  <2>5. /\ t.retry = s.retry /\ t.retries = s.retries /\ t.up = s.up /\ t.response = s.response
        /\ t.dangling = s.dangling /\ RtSame(s, t)
    BY <2>3 DEF RtState, RtSame
  <2>. HIDE DEF t
  <2>. QED
    BY <2>1, <2>2, <2>4, <2>5 DEF RtOver, RtBooks, RtSame
<1>. QED
  BY <1>8, <1>9, <1>10

\* UpstreamRequest::onResetStream() and onPoolFailure(), of a request that is under way.
RtUnderway(p) ==
    /\ RtBooks(p) /\ p.down = "open" /\ p.up.st \in {"pending", "ready"} /\ ~p.retry.timer
    /\ p.retry.on => p.buffer = p.chunks
    /\ ~p.retry.on => p.retry = NoRetry
    /\ p.started => ~p.retry.on

\* p with another upstream request.
RtWithUp(p, u) == [p EXCEPT !.up = u]

\* What RtWithUp changes, and that it changes nothing else.
LEMMA RtUpChanges ==
    ASSUME NEW p, RtBooks(p), NEW u \in RtUpType
    PROVE  LET q == RtWithUp(p, u)
           IN  RtBooks(q) /\ RtSame(p, q) /\ q.up = u /\ q.response = p.response /\ q.alt = p.alt /\ q.retry = p.retry
               /\ q.shadow = p.shadow
<1>. DEFINE q == RtWithUp(p, u)
<1>1. p \in RtState
  BY DEF RtBooks
<1>2. /\ q \in RtState /\ q.up = u /\ q.response = p.response /\ q.alt = p.alt /\ q.retry = p.retry
      /\ q.shadow = p.shadow /\ q.dangling = p.dangling /\ q.retries = p.retries /\ RtSame(p, q)
  BY <1>1 DEF RtState, RtWithUp, RtSame
<1>. HIDE DEF q
<1>3. RtBooks(q)
  BY <1>2 DEF RtBooks, RtSame
<1>. QED
  BY <1>2, <1>3 DEF q

\* A reset of a request that is under way ends the stream or sets up a retry.
LEMMA RtOnResetStreamOK ==
    ASSUME NEW p, RtUnderway(p), NEW reason, NEW allowed \in BOOLEAN
    PROVE  LET q == rtOnResetStream(p, reason, allowed) IN RtOver(q) \/ RtRetrying(q)
<1>. DEFINE closed == "closed"
            u == [p.up EXCEPT !.st = closed]
            q == RtWithUp(p, u)
<1>1. p \in RtState /\ p.up \in RtUpType
  BY RtTypes DEF RtUnderway, RtBooks
<1>2. u \in RtUpType /\ u.st = closed
  BY <1>1 DEF RtUpType
<1>3. rtOnResetStream(p, reason, allowed) = rtOnUpstreamReset(q, "Reset", reason, allowed)
  BY <1>1 DEF rtOnResetStream, RtState, RtWithUp
<1>. HIDE DEF u, q
<1>4. RtLost(q) /\ ~q.retry.timer
  BY <1>2, RtUpChanges DEF q, RtUnderway, RtLost, RtSame
<1>. QED
  BY <1>3, <1>4, RtOnUpstreamResetOK

\* encodeHeaders() of a first or a further attempt.
RtReady(p) ==
    /\ RtBooks(p) /\ p.down = "open" /\ ~p.retry.timer /\ ~p.started
    /\ p.attempts + 1 + p.retry.remaining <= 1 + RtNumRetries
    /\ p.retry.on => p.buffer = p.chunks
    /\ ~p.retry.on => p.retry = NoRetry

\* The request before the pool's answer is acted upon.
RtAttempt(p, pool, got, complete) ==
    [p EXCEPT !.attempts = @ + 1,
              !.up = [st |-> IF pool = "pending" THEN "pending" ELSE "ready",
                      host |-> pool \in {"ready", "readyReset"},
                      got |-> got, complete |-> complete, perTry |-> FALSE]]

\* An attempt is under way, or it was refused inside the call and the stream is over
\* or retried.
LEMMA RtNewUpstreamOK ==
    ASSUME NEW p, RtReady(p), NEW pool \in RtPoolAnswers, NEW got \in Nat, NEW complete \in BOOLEAN,
           NEW allowed \in BOOLEAN
    PROVE  LET q == rtNewUpstream(p, pool, got, complete, allowed)
           IN  \/ RtOver(q) \/ RtRetrying(q)
               \/ /\ RtUnderway(q) /\ q.up.got = got /\ q.up.complete = complete
                  /\ q.chunks = p.chunks /\ q.endStream = p.endStream /\ ~q.started /\ q.shadow = p.shadow
<1>. DEFINE no == FALSE
            u == [st |-> IF pool = "pending" THEN "pending" ELSE "ready", host |-> pool \in {"ready", "readyReset"},
                  got |-> got, complete |-> complete, perTry |-> no]
            n == p.attempts + 1
            q == [p EXCEPT !.attempts = n, !.up = u]
<1>1. p \in RtState /\ p.retry \in RtRetryType /\ p.attempts \in Nat /\ n \in Nat
  BY RtTypes DEF RtReady, RtBooks
<1>2. u \in RtUpType /\ u.st \in {"pending", "ready"} /\ u.got = got /\ u.complete = complete
  BY DEF RtUpType
<1>3. RtAttempt(p, pool, got, complete) = q
  BY DEF RtAttempt
<1>. HIDE DEF u, n
<1>4. /\ q \in RtState /\ q.up = u /\ q.attempts = n /\ q.down = p.down /\ q.chunks = p.chunks /\ q.buffer = p.buffer
      /\ q.endStream = p.endStream /\ q.started = p.started /\ q.retry = p.retry /\ q.retries = p.retries
      /\ q.dangling = p.dangling /\ q.shadow = p.shadow
  BY <1>1, <1>2 DEF RtState
<1>. HIDE DEF q
<1>5. RtBooks(q)
  <2>1. q.attempts + q.retry.remaining + 0 <= 1 + RtNumRetries
    BY <1>1, <1>4, RtAssumption DEF RtReady, n, RtRetryType
  <2>2. RtOne(q.retry.timer) = 0
    BY <1>4 DEF RtReady, RtOne
  <2>. QED
    BY <1>4, <2>1, <2>2 DEF RtBooks, RtReady
<1>6. RtUnderway(q)
  BY <1>2, <1>4, <1>5 DEF RtUnderway, RtReady
<1>7. CASE pool \in {"pending", "ready"}
  <2>1. rtNewUpstream(p, pool, got, complete, allowed) = q
    BY <1>3, <1>7 DEF rtNewUpstream, RtAttempt
  <2>. QED
    BY <1>2, <1>4, <1>6, <2>1 DEF RtReady
<1>8. CASE pool \in {"overflow", "readyReset"}
  <2>1. \E reason : rtNewUpstream(p, pool, got, complete, allowed) = rtOnResetStream(q, reason, allowed)
    BY <1>3, <1>8 DEF rtNewUpstream, RtAttempt
  <2>. QED
    BY <1>6, <2>1, RtOnResetStreamOK
<1>. QED
  BY <1>7, <1>8 DEF RtPoolAnswers

\* onRequestComplete() marks the end and arms the timers.
LEMMA RtRequestCompletes ==
    ASSUME NEW p, RtBooks(p), p.up.st # "none"
    PROVE  LET q == rtOnRequestComplete(p)
           IN  /\ RtBooks(q) /\ q.endStream /\ q.down = p.down /\ q.chunks = p.chunks /\ q.buffer = p.buffer
               /\ q.started = p.started /\ q.retry = p.retry /\ q.attempts = p.attempts
               /\ q.up.st = p.up.st /\ q.up.got = p.up.got /\ q.up.complete = p.up.complete
<1>. DEFINE is == TRUE
            q1 == [p EXCEPT !.endStream = is]
            n == IF p.shadow THEN p.shadowed + 1 + p.buffer ELSE p.shadowed
            u == [p.up EXCEPT !.perTry = RtPerTryTimeout]
            q == [p EXCEPT !.endStream = is, !.shadowed = n, !.up = u, !.response = RtGlobalTimeout]
<1>1. p \in RtState /\ p.up \in RtUpType
  BY RtTypes DEF RtBooks
<1>2. u \in RtUpType /\ u.st = p.up.st /\ u.got = p.up.got /\ u.complete = p.up.complete
  BY <1>1, RtAssumption DEF RtUpType
<1>3. is \in BOOLEAN /\ is
  OBVIOUS
<1>. HIDE DEF is
<1>4. q1 \in RtState /\ q1.up = p.up /\ q1.shadow = p.shadow /\ q1.shadowed = p.shadowed /\ q1.buffer = p.buffer
  BY <1>1, <1>3 DEF RtState
<1>5. n \in Nat
  BY <1>1, RtTypes
<1>6. rtOnRequestComplete(p) = q
  <2>1. [q1 EXCEPT !.shadowed = n, !.up.perTry = RtPerTryTimeout, !.response = RtGlobalTimeout] = q
    <3>. HIDE DEF n
    <3>. QED
      BY <1>1, <1>4 DEF RtState
  <2>3. (IF q1.shadow THEN q1.shadowed + 1 + q1.buffer ELSE q1.shadowed) = n
    BY <1>4
  <2>2. q1.up.st # "none"
    BY <1>4
  <2>4. rtOnRequestComplete(p) =
          IF q1.up.st = "none" THEN q1
          ELSE [q1 EXCEPT !.shadowed = IF q1.shadow THEN q1.shadowed + 1 + q1.buffer ELSE q1.shadowed,
                          !.up.perTry = RtPerTryTimeout, !.response = RtGlobalTimeout]
    BY DEF rtOnRequestComplete, is
  <2>. HIDE DEF q, u, n, q1
  <2>. QED
    BY <2>1, <2>2, <2>3, <2>4
<1>. HIDE DEF u, n
<1>7. /\ q \in RtState /\ q.up = u /\ q.endStream = is /\ q.attempts = p.attempts /\ q.down = p.down
      /\ q.chunks = p.chunks /\ q.buffer = p.buffer /\ q.started = p.started /\ q.retry = p.retry
      /\ q.retries = p.retries /\ q.dangling = p.dangling
  <2>1. RtGlobalTimeout \in BOOLEAN
    BY RtAssumption
  <2>. QED
    BY <1>1, <1>2, <1>3, <1>5, <2>1 DEF RtState
<1>. HIDE DEF q
<1>8. RtBooks(q)
  BY <1>7 DEF RtBooks
<1>. QED
  BY <1>2, <1>3, <1>6, <1>7, <1>8

\* ... and so keeps an open stream in order.
LEMMA RtOnRequestCompleteOK ==
    ASSUME NEW p, RtUnderway(p), p.up.got = p.chunks, p.up.complete, p.started => p.up.st = "ready"
    PROVE  RtActive(rtOnRequestComplete(p))
<1>. DEFINE q == rtOnRequestComplete(p)
<1>1. /\ RtBooks(q) /\ q.endStream /\ q.down = p.down /\ q.chunks = p.chunks /\ q.buffer = p.buffer
      /\ q.started = p.started /\ q.retry = p.retry
      /\ q.up.st = p.up.st /\ q.up.got = p.up.got /\ q.up.complete = p.up.complete
  BY RtRequestCompletes DEF RtUnderway
<1>. HIDE DEF q
<1>2. RtActive(q)
  BY <1>1 DEF RtUnderway, RtActive, RtTrying
<1>. QED
  BY <1>2 DEF q

\* "we got an immediate reset"
LEMMA RtNothingCompletes ==
    ASSUME NEW p, RtOver(p) \/ RtRetrying(p)
    PROVE  RtOK(rtOnRequestComplete(p))
<1>. DEFINE is == TRUE
            q == [p EXCEPT !.endStream = is]
<1>1. p \in RtState /\ p.up = NoUpstream /\ NoUpstream.st = "none"
  BY DEF RtOver, RtRetrying, RtActive, RtBooks, RtWaiting, NoUpstream
<1>2. is \in BOOLEAN /\ is
  OBVIOUS
<1>. HIDE DEF is
<1>3. /\ q \in RtState /\ q.up = p.up /\ q.endStream = is /\ q.attempts = p.attempts /\ q.down = p.down
      /\ q.chunks = p.chunks /\ q.buffer = p.buffer /\ q.started = p.started /\ q.retry = p.retry
      /\ q.retries = p.retries /\ q.dangling = p.dangling /\ q.response = p.response
  BY <1>1, <1>2 DEF RtState
<1>4. rtOnRequestComplete(p) = q
  <2>1. q.up.st = "none"
    BY <1>1, <1>3
  <2>. QED
    BY <2>1 DEF rtOnRequestComplete, is
<1>. HIDE DEF q
<1>5. CASE RtOver(p)
  <2>1. RtBooks(q)
    BY <1>3, <1>5 DEF RtBooks, RtOver
  <2>. QED
    BY <1>3, <1>4, <1>5, <2>1 DEF RtOver, RtOK
<1>6. CASE RtRetrying(p)
  <2>1. RtBooks(q)
    BY <1>3, <1>6 DEF RtBooks, RtRetrying, RtActive
  <2>2. RtWaiting(q)
    BY <1>2, <1>3, <1>6 DEF RtRetrying, RtActive, RtWaiting
  <2>. QED
    BY <1>3, <1>4, <1>6, <2>1, <2>2 DEF RtRetrying, RtActive, RtOK
<1>. QED
  BY <1>5, <1>6

----------------------------------------------------------------------------
(***************************************************************************)
(* The steps.                                                              *)
(***************************************************************************)

\* The first state.
LEMMA RtInitOK == RtInit => RtInv
<1>. SUFFICES ASSUME NEW alt \in RtAltResponses,
                     rt = [down |-> "new", alt |-> alt, chunks |-> 0, buffer |-> 0, endStream |-> FALSE, started |-> FALSE,
                           up |-> NoUpstream, retry |-> NoRetry, retries |-> 0, response |-> FALSE, shadow |-> FALSE,
                           shadowed |-> 0, attempts |-> 0, dangling |-> FALSE, crashed |-> FALSE]
              PROVE  RtInv
  BY DEF RtInit
<1>1. alt \in BOOLEAN
  BY RtAssumption
<1>2. rt \in RtState
  BY <1>1, RtNones DEF RtState
<1>3. NoRetry.remaining = 0 /\ RtOne(NoRetry.timer) = 0 /\ RtOne(NoRetry.callback) = 0
  BY DEF NoRetry, RtOne
<1>4. /\ rt.down = "new" /\ rt.attempts = 0 /\ rt.chunks = 0 /\ rt.buffer = 0 /\ ~rt.started /\ ~rt.endStream
      /\ ~rt.response /\ rt.up = NoUpstream /\ rt.retry = NoRetry /\ rt.retries = 0 /\ ~rt.dangling
  OBVIOUS
<1>5. RtBooks(rt)
  BY <1>2, <1>3, <1>4, RtAssumption DEF RtBooks
<1>. QED
  BY <1>4, <1>5 DEF RtInv, RtOK, RtFresh

\* An upstream request is there only while the stream is open; its parts.
LEMMA RtInOpen ==
    ASSUME RtInv, rt.up.st # "none" \/ rt.retry.timer \/ rt.response \/ rt.up.perTry \/ rt.down = "open"
    PROVE  RtActive(rt)
  BY DEF RtInv, RtOK, RtFresh, RtOver, NoUpstream, NoRetry

\* A request the pool or the codec knows belongs to an open stream.
LEMMA RtIsUnderway ==
    ASSUME RtInv, rt.up.st \in {"pending", "ready"}
    PROVE  RtActive(rt) /\ RtUnderway(rt) /\ RtTrying(rt)
<1>1. RtActive(rt)
  BY RtInOpen
<1>2. NoUpstream.st = "none"
  BY DEF NoUpstream
<1>. QED
  BY <1>1, <1>2 DEF RtActive, RtUnderway, RtTrying, RtWaiting

\* decodeHeaders() with a local reply.
LEMMA RtDecodeHeadersLocalInv == RtInv /\ RtDecodeHeadersLocal => RtInv'
<1>. SUFFICES ASSUME RtInv, RtDecodeHeadersLocal PROVE RtInv'
  OBVIOUS
<1>1. RtBooks(rt)
  BY DEF RtInv, RtOK, RtFresh, RtActive, RtOver
<1>. QED
  BY <1>1, RtOnDestroyOK DEF RtDecodeHeadersLocal, rtSendLocalReply, RtInv, RtOK

\* onDestroy().
LEMMA RtDestroyedInv == RtInv /\ RtDestroyed => RtInv'
<1>. SUFFICES ASSUME RtInv, RtDestroyed PROVE RtInv'
  OBVIOUS
<1>1. RtBooks(rt)
  BY DEF RtInv, RtOK, RtFresh, RtActive, RtOver
<1>. QED
  BY <1>1, RtOnDestroyOK DEF RtDestroyed, RtInv, RtOK

\* onResetStream().
LEMMA RtUpstreamResetInv == RtInv /\ (\E reason \in RtReasons, allowed \in BOOLEAN : RtUpstreamReset(reason, allowed)) => RtInv'
<1>. SUFFICES ASSUME RtInv, NEW reason \in RtReasons, NEW allowed \in BOOLEAN, RtUpstreamReset(reason, allowed) PROVE RtInv'
  OBVIOUS
<1>1. RtUnderway(rt)
  BY RtIsUnderway DEF RtUpstreamReset
<1>. QED
  BY <1>1, RtOnResetStreamOK DEF RtUpstreamReset, RtInv, RtOK, RtRetrying

\* onResponseTimeout().
LEMMA RtResponseTimeoutInv == RtInv /\ RtResponseTimeout => RtInv'
<1>. SUFFICES ASSUME RtInv, RtResponseTimeout PROVE RtInv'
  OBVIOUS
<1>. DEFINE q == rtResetStream(rt)
<1>1. RtActive(rt)
  BY RtInOpen DEF RtResponseTimeout
<1>2. RtBooks(q) /\ RtSame(rt, q) /\ q.retry = rt.retry /\ q.up.st \in {"none", "closed"}
  BY <1>1, RtResetStreamOK DEF RtActive
<1>. HIDE DEF q
<1>3. RtLost(q)
  BY <1>1, <1>2 DEF RtActive, RtLost, RtSame, RtTrying, RtWaiting
<1>4. rt' = rtOnUpstreamReset(q, "GlobalTimeout", "localReset", TRUE)
  BY DEF RtResponseTimeout, q
<1>5. RtOver(rt') \/ RtRetrying(rt')
  BY <1>3, <1>4, RtOnUpstreamResetOK
<1>. QED
  BY <1>5 DEF RtInv, RtOK, RtRetrying

\* onPerTryTimeout().
LEMMA RtPerTryInv == RtInv /\ (\E allowed \in BOOLEAN : RtPerTry(allowed)) => RtInv'
<1>. SUFFICES ASSUME RtInv, NEW allowed \in BOOLEAN, RtPerTry(allowed) PROVE RtInv'
  OBVIOUS
<1>. DEFINE q == rtResetStream(rt)
<1>1. RtActive(rt) /\ RtTrying(rt)
  <2>1. RtActive(rt)
    BY RtInOpen DEF RtPerTry
  <2>2. ~NoUpstream.perTry
    BY DEF NoUpstream
  <2>. QED
    BY <2>1, <2>2 DEF RtActive, RtPerTry, RtWaiting
<1>2. RtBooks(q) /\ RtSame(rt, q) /\ q.retry = rt.retry /\ q.up.st \in {"none", "closed"}
  BY <1>1, RtResetStreamOK DEF RtActive
<1>. HIDE DEF q
<1>3. RtLost(q) /\ ~q.retry.timer
  BY <1>1, <1>2 DEF RtActive, RtLost, RtSame, RtTrying
<1>4. rt' = rtOnUpstreamReset(q, "PerTryTimeout", "localReset", allowed)
  BY DEF RtPerTry, q
<1>5. RtOver(rt') \/ RtRetrying(rt')
  BY <1>3, <1>4, RtOnUpstreamResetOK
<1>. QED
  BY <1>5 DEF RtInv, RtOK, RtRetrying

\* onPoolReady().
LEMMA RtPoolReadyInv == RtInv /\ (\E resets, allowed \in BOOLEAN : RtPoolReady(resets, allowed)) => RtInv'
<1>. SUFFICES ASSUME RtInv, NEW resets \in BOOLEAN, NEW allowed \in BOOLEAN, RtPoolReady(resets, allowed) PROVE RtInv'
  OBVIOUS
<1>. DEFINE is == TRUE
            ready == "ready"
            u == [rt.up EXCEPT !.st = ready, !.host = is]
            p == RtWithUp(rt, u)
<1>1. RtActive(rt) /\ RtUnderway(rt) /\ RtTrying(rt)
  BY RtIsUnderway DEF RtPoolReady
<1>2. rt \in RtState /\ rt.up \in RtUpType
  BY <1>1, RtTypes DEF RtActive, RtBooks
<1>3. u \in RtUpType /\ u.st = ready /\ u.got = rt.up.got /\ u.complete = rt.up.complete
  BY <1>2 DEF RtUpType
<1>4. rt' = IF resets THEN rtOnResetStream(p, "localReset", allowed) ELSE p
  <2>1. [rt EXCEPT !.up.st = "ready", !.up.host = TRUE] = p
    BY <1>2 DEF RtState, RtWithUp
  <2>. HIDE DEF p
  <2>. QED
    BY <2>1 DEF RtPoolReady
<1>. HIDE DEF u
<1>5. RtBooks(p) /\ RtSame(rt, p) /\ p.up = u /\ p.retry = rt.retry
  BY <1>1, <1>3, RtUpChanges DEF RtActive
<1>. HIDE DEF p
<1>6. RtUnderway(p) /\ RtActive(p)
  BY <1>1, <1>3, <1>5 DEF RtUnderway, RtActive, RtTrying, RtSame
<1>. QED
  BY <1>4, <1>6, RtOnResetStreamOK DEF RtInv, RtOK, RtRetrying

\* onPoolFailure().
LEMMA RtPoolFailureInv == RtInv /\ (\E allowed \in BOOLEAN : RtPoolFailure(allowed)) => RtInv'
<1>. SUFFICES ASSUME RtInv, NEW allowed \in BOOLEAN, RtPoolFailure(allowed) PROVE RtInv'
  OBVIOUS
<1>. DEFINE is == TRUE
            u == [rt.up EXCEPT !.host = is]
            p == RtWithUp(rt, u)
<1>1. RtActive(rt) /\ RtUnderway(rt)
  BY RtIsUnderway DEF RtPoolFailure
<1>2. rt \in RtState /\ rt.up \in RtUpType
  BY <1>1, RtTypes DEF RtActive, RtBooks
<1>3. u \in RtUpType /\ u.st = rt.up.st
  BY <1>2 DEF RtUpType
<1>4. rt' = rtOnResetStream(p, "connectionFailure", allowed)
  <2>1. [rt EXCEPT !.up.host = TRUE] = p
    BY <1>2 DEF RtState, RtWithUp
  <2>. HIDE DEF p
  <2>. QED
    BY <2>1 DEF RtPoolFailure
<1>. HIDE DEF u
<1>5. RtBooks(p) /\ RtSame(rt, p) /\ p.up = u /\ p.retry = rt.retry
  BY <1>1, <1>3, RtUpChanges DEF RtActive
<1>. HIDE DEF p
<1>6. RtUnderway(p)
  BY <1>1, <1>3, <1>5 DEF RtUnderway, RtSame
<1>. QED
  BY <1>4, <1>6, RtOnResetStreamOK DEF RtInv, RtOK, RtRetrying

\* The request still arrives: it is with an upstream, no retry waits.
LEMMA RtArriving ==
    ASSUME RtInv, rt.down = "open", ~rt.endStream
    PROVE  RtActive(rt) /\ RtTrying(rt) /\ RtUnderway(rt)
<1>1. RtActive(rt)
  BY RtInOpen
<1>. QED
  BY <1>1 DEF RtActive, RtWaiting, RtUnderway, RtTrying

\* decodeTrailers().
LEMMA RtDecodeTrailersInv == RtInv /\ RtDecodeTrailers => RtInv'
<1>. SUFFICES ASSUME RtInv, RtDecodeTrailers PROVE RtInv'
  OBVIOUS
<1>. DEFINE is == TRUE
            u == [rt.up EXCEPT !.complete = is]
            p == RtWithUp(rt, u)
<1>1. RtActive(rt) /\ RtUnderway(rt) /\ RtTrying(rt)
  BY RtArriving DEF RtDecodeTrailers
<1>2. rt \in RtState /\ rt.up \in RtUpType
  BY <1>1, RtTypes DEF RtActive, RtBooks
<1>3. u \in RtUpType /\ u.st = rt.up.st /\ u.complete /\ u.got = rt.up.got
  BY <1>2 DEF RtUpType
<1>4. rt' = rtOnRequestComplete(p)
  <2>1. [rt EXCEPT !.up.complete = TRUE] = p
    BY <1>2 DEF RtState, RtWithUp
  <2>. HIDE DEF p
  <2>. QED
    BY <2>1 DEF RtDecodeTrailers
<1>. HIDE DEF u
<1>5. RtBooks(p) /\ RtSame(rt, p) /\ p.up = u /\ p.retry = rt.retry
  BY <1>1, <1>3, RtUpChanges DEF RtActive
<1>. HIDE DEF p
<1>6. RtUnderway(p) /\ p.up.got = p.chunks /\ p.up.complete /\ (p.started => p.up.st = "ready")
  BY <1>1, <1>3, <1>5 DEF RtUnderway, RtTrying, RtSame
<1>. QED
  BY <1>4, <1>6, RtOnRequestCompleteOK DEF RtInv, RtOK

\* decodeHeaders() with an upstream.
LEMMA RtDecodeHeadersInv ==
    RtInv /\ (\E endStream, shadow, allowed \in BOOLEAN, pool \in RtPoolAnswers :
                 RtDecodeHeaders(endStream, shadow, pool, allowed)) => RtInv'
<1>. SUFFICES ASSUME RtInv, NEW endStream \in BOOLEAN, NEW shadow \in BOOLEAN, NEW allowed \in BOOLEAN,
                     NEW pool \in RtPoolAnswers, RtDecodeHeaders(endStream, shadow, pool, allowed)
              PROVE  RtInv'
  OBVIOUS
<1>. DEFINE no == FALSE
            open == "open"
            r == IF RtRetryOn = {} THEN NoRetry ELSE [NoRetry EXCEPT !.on = TRUE, !.remaining = RtNumRetries]
            p == [rt EXCEPT !.down = open, !.shadow = shadow, !.endStream = no, !.retry = r]
            zero == 0
            q == rtNewUpstream(p, pool, zero, endStream, allowed)
<1>1. RtFresh(rt)
  BY DEF RtInv, RtOK, RtActive, RtOver, RtDecodeHeaders
<1>2. rt \in RtState
  BY <1>1 DEF RtFresh, RtBooks
<1>3. /\ r \in RtRetryType /\ ~r.timer /\ ~r.callback /\ r.remaining \in Nat /\ r.remaining <= RtNumRetries
      /\ (~r.on => r = NoRetry)
  <2>1. CASE RtRetryOn = {}
    BY <2>1, RtNones, RtAssumption DEF NoRetry
  <2>2. CASE RtRetryOn # {}
    <3>. DEFINE is == TRUE
                s == [NoRetry EXCEPT !.on = is, !.remaining = RtNumRetries]
    <3>1. r = s
      BY <2>2
    <3>4. NoRetry \in RtRetryType /\ NoRetry.callback = no /\ NoRetry.timer = no
      BY RtNones DEF NoRetry
    <3>2. is \in BOOLEAN /\ is /\ no \in BOOLEAN /\ ~no
      OBVIOUS
    <3>. HIDE DEF is, no
    <3>3. s \in RtRetryType /\ s.on = is /\ s.callback = no /\ s.timer = no /\ s.remaining = RtNumRetries
      BY <3>2, <3>4, RtAssumption DEF RtRetryType
    <3>. HIDE DEF s, r
    <3>. QED
      BY <3>1, <3>2, <3>3, RtAssumption
  <2>. QED
    BY <2>1, <2>2
<1>4. rt' = IF endStream THEN rtOnRequestComplete(q) ELSE q
  BY DEF RtDecodeHeaders
<1>5. ~no /\ no \in BOOLEAN /\ open = "open" /\ zero = 0
  OBVIOUS
<1>. HIDE DEF r, no, open, zero
<1>6. /\ p \in RtState /\ p.down = open /\ p.shadow = shadow /\ p.endStream = no /\ p.retry = r /\ p.up = rt.up
      /\ p.chunks = rt.chunks /\ p.buffer = rt.buffer /\ p.started = rt.started /\ p.attempts = rt.attempts
      /\ p.retries = rt.retries /\ p.dangling = rt.dangling
  BY <1>2, <1>3, <1>5 DEF RtState
<1>. HIDE DEF p
<1>7. RtReady(p) /\ p.chunks = 0
  <2>1. p.attempts = 0 /\ p.chunks = 0 /\ p.buffer = 0 /\ ~p.started
    BY <1>1, <1>2, <1>6, RtTypes DEF RtFresh, RtBooks
  <2>2. RtOne(p.retry.callback) = 0 /\ RtOne(p.retry.timer) = 0 /\ p.retries = 0
    <3>1. RtOne(NoRetry.callback) = 0
      BY DEF NoRetry, RtOne
    <3>. QED
      BY <1>1, <1>3, <1>6, <3>1 DEF RtOne, RtFresh, RtBooks
  <2>3. RtBooks(p)
    BY <1>1, <1>3, <1>6, <2>1, <2>2, RtAssumption DEF RtBooks, RtFresh
  <2>. QED
    BY <1>3, <1>5, <1>6, <2>1, <2>3, RtAssumption DEF RtReady
<1>8. \/ RtOver(q) \/ RtRetrying(q)
      \/ /\ RtUnderway(q) /\ q.up.got = zero /\ q.up.complete = endStream
         /\ q.chunks = p.chunks /\ q.endStream = p.endStream /\ ~q.started /\ q.shadow = p.shadow
  <2>1. zero \in Nat
    BY <1>5
  <2>. QED
    BY <1>7, <2>1, RtNewUpstreamOK
<1>. HIDE DEF q
<1>9. CASE RtOver(q) \/ RtRetrying(q)
  BY <1>4, <1>9, RtNothingCompletes DEF RtInv, RtOK, RtRetrying
<1>10. CASE ~(RtOver(q) \/ RtRetrying(q)) /\ endStream
  BY <1>4, <1>5, <1>7, <1>8, <1>10, RtOnRequestCompleteOK DEF RtInv, RtOK
<1>11. CASE ~(RtOver(q) \/ RtRetrying(q)) /\ ~endStream
  <2>1. RtActive(q)
    BY <1>5, <1>6, <1>7, <1>8, <1>11 DEF RtUnderway, RtActive, RtTrying
  <2>. QED
    BY <1>4, <1>11, <2>1 DEF RtInv, RtOK
<1>. QED
  BY <1>9, <1>10, <1>11

\* doRetry() without a host.
LEMMA RtDoRetryNoHostInv == RtInv /\ RtDoRetryNoHost => RtInv'
<1>. SUFFICES ASSUME RtInv, RtDoRetryNoHost PROVE RtInv'
  OBVIOUS
<1>. DEFINE p == rtSendLocalReply(rt)
            q == rtCleanup(p)
<1>1. RtActive(rt)
  BY RtInOpen DEF RtDoRetryNoHost
<1>2. RtOver(p)
  BY <1>1, RtOnDestroyOK DEF RtActive, rtSendLocalReply
<1>. HIDE DEF p
<1>3. p.up.st = "none"
  BY <1>2 DEF RtOver, NoUpstream
<1>4. RtBooks(q) /\ RtSame(p, q) /\ q.retry = NoRetry /\ q.up = NoUpstream /\ ~q.response
  BY <1>2, <1>3, RtCleanupOK DEF RtOver
<1>5. rt' = q
  BY DEF RtDoRetryNoHost, p
<1>. HIDE DEF q
<1>. QED
  BY <1>2, <1>4, <1>5 DEF RtOver, RtSame, RtInv, RtOK

\* doRetry() when its timer is off.
RtRetried(p, pool, allowed) ==
    LET q == rtNewUpstream(p, pool, p.buffer, TRUE, allowed)
    IN  IF q.up.st = "none" THEN q ELSE [q EXCEPT !.up.perTry = RtPerTryTimeout]

\* doRetry().
LEMMA RtDoRetryInv == RtInv /\ (\E pool \in RtPoolAnswers, allowed \in BOOLEAN : RtDoRetry(pool, allowed)) => RtInv'
<1>. SUFFICES ASSUME RtInv, NEW pool \in RtPoolAnswers, NEW allowed \in BOOLEAN, RtDoRetry(pool, allowed) PROVE RtInv'
  OBVIOUS
<1>. DEFINE no == FALSE
            is == TRUE
            r == [rt.retry EXCEPT !.timer = no]
            k == rt.retries
            p == RtPut(rt, k, r)
            b == p.buffer
            q == rtNewUpstream(p, pool, b, is, allowed)
            u == [q.up EXCEPT !.perTry = RtPerTryTimeout]
            s == RtWithUp(q, u)
<1>1. RtActive(rt) /\ RtWaiting(rt)
  <2>1. RtActive(rt)
    BY RtInOpen DEF RtDoRetry
  <2>. QED
    BY <2>1 DEF RtActive, RtTrying, RtDoRetry
<1>2. rt \in RtState /\ rt.retry \in RtRetryType /\ rt.attempts \in Nat /\ rt.retries \in Int /\ rt.buffer \in Nat
  BY <1>1, RtTypes DEF RtActive, RtBooks
<1>3. /\ r \in RtRetryType /\ ~r.timer /\ r.on = rt.retry.on /\ r.callback = rt.retry.callback
      /\ r.remaining = rt.retry.remaining /\ r.remaining \in Nat
  BY <1>2 DEF RtRetryType
<1>4. [rt EXCEPT !.retry.timer = FALSE] = p
  BY <1>2 DEF RtState, RtPut
<1>5. is /\ ~no
  OBVIOUS
<1>12. is \in BOOLEAN
  OBVIOUS
<1>6. rt' = IF q.up.st = "none" THEN q ELSE [q EXCEPT !.up.perTry = RtPerTryTimeout]
  <2>1. PICK p0 : p0 = [rt EXCEPT !.retry.timer = FALSE] /\ rt' = RtRetried(p0, pool, allowed)
    BY DEF RtDoRetry, RtRetried
  <2>2. p0 = p
    BY <1>4, <2>1
  <2>. HIDE DEF p
  <2>. QED
    BY <2>1, <2>2 DEF RtRetried
<1>. HIDE DEF r, no, is
<1>7. /\ p \in RtState /\ RtSame(rt, p) /\ p.up = rt.up /\ p.retry = r /\ p.retries = k /\ p.dangling = rt.dangling
  BY <1>2, <1>3, RtWithRetry
<1>. HIDE DEF p
<1>8. RtReady(p) /\ p.buffer = p.chunks /\ p.endStream
  <2>1. RtOne(p.retry.timer) = 0 /\ RtOne(rt.retry.timer) = 1
    BY <1>1, <1>3, <1>7 DEF RtOne, RtWaiting
  <2>2. p.attempts + 1 + p.retry.remaining <= 1 + RtNumRetries
    BY <1>1, <1>2, <1>3, <1>7, <2>1, RtAssumption DEF RtActive, RtBooks, RtSame
  <2>3. RtBooks(p)
    <3>1. p.attempts + p.retry.remaining + 0 <= 1 + RtNumRetries
      BY <1>2, <1>3, <1>7, <2>2, RtAssumption DEF RtSame
    <3>. QED
      BY <1>1, <1>3, <1>7, <2>1, <3>1 DEF RtActive, RtBooks, RtSame
  <2>. QED
    BY <1>1, <1>3, <1>7, <2>2, <2>3 DEF RtActive, RtWaiting, RtReady, RtSame
<1>9. \/ RtOver(q) \/ RtRetrying(q)
      \/ /\ RtUnderway(q) /\ q.up.got = b /\ q.up.complete = is
         /\ q.chunks = p.chunks /\ q.endStream = p.endStream /\ ~q.started
  <2>1. b \in Nat
    BY <1>2, <1>7 DEF RtSame
  <2>. HIDE DEF b, is
  <2>3. RtReady(p)
    BY <1>8
  <2>2. \A got \in Nat, complete \in BOOLEAN :
          LET q0 == rtNewUpstream(p, pool, got, complete, allowed)
          IN  \/ RtOver(q0) \/ RtRetrying(q0)
              \/ /\ RtUnderway(q0) /\ q0.up.got = got /\ q0.up.complete = complete
                 /\ q0.chunks = p.chunks /\ q0.endStream = p.endStream /\ ~q0.started
    BY <2>3, RtNewUpstreamOK
  <2>. QED
    BY <1>12, <2>1, <2>2, Zenon
<1>. HIDE DEF q
<1>10. CASE RtOver(q) \/ RtRetrying(q)
  <2>1. q.up.st = "none"
    BY <1>10 DEF RtOver, RtRetrying, RtWaiting, NoUpstream
  <2>. QED
    BY <1>6, <1>10, <2>1 DEF RtInv, RtOK, RtRetrying
<1>11. CASE ~(RtOver(q) \/ RtRetrying(q))
  <2>1. q \in RtState /\ q.up \in RtUpType
    BY <1>9, <1>11, RtTypes DEF RtUnderway, RtBooks
  <2>2. u \in RtUpType /\ u.st = q.up.st /\ u.got = q.up.got /\ u.complete = q.up.complete
    BY <2>1, RtAssumption DEF RtUpType
  <2>3. rt' = s
    <3>1. [q EXCEPT !.up.perTry = RtPerTryTimeout] = s
      BY <2>1 DEF RtState, RtWithUp
    <3>2. q.up.st # "none"
      BY <1>9, <1>11 DEF RtUnderway
    <3>. HIDE DEF s
    <3>. QED
      BY <1>6, <3>1, <3>2
  <2>. HIDE DEF u
  <2>4. RtBooks(s) /\ RtSame(q, s) /\ s.up = u /\ s.retry = q.retry
    BY <1>9, <1>11, <2>2, RtUpChanges DEF RtUnderway
  <2>. HIDE DEF s
  <2>5. RtTrying(s)
    BY <1>5, <1>8, <1>9, <1>11, <2>2, <2>4 DEF RtUnderway, RtTrying, RtSame
  <2>6. RtActive(s)
    BY <1>9, <1>11, <2>2, <2>4, <2>5 DEF RtUnderway, RtActive, RtSame
  <2>. QED
    BY <2>3, <2>6 DEF RtInv, RtOK
<1>. QED
  BY <1>10, <1>11

\* onUpstreamComplete() ends the stream, however much of the request is missing.
LEMMA RtUpstreamCompleteOK ==
    ASSUME NEW p, RtBooks(p)
    PROVE  RtOver(rtUpstreamComplete(p))
<1>. DEFINE closed == "closed"
            u == [p.up EXCEPT !.st = closed]
            q == IF p.endStream THEN RtWithUp(p, u) ELSE rtResetStream(p)
<1>1. p \in RtState /\ p.up \in RtUpType
  BY RtTypes DEF RtBooks
<1>2. u \in RtUpType /\ u.st = closed
  BY <1>1 DEF RtUpType
<1>3. RtBooks(q) /\ q.up.st \in {"none", "closed"}
  <2>1. CASE p.endStream
    <3>. HIDE DEF u
    <3>. QED
      BY <1>2, <2>1, RtUpChanges
  <2>2. CASE ~p.endStream
    BY <2>2, RtResetStreamOK
  <2>. QED
    BY <2>1, <2>2
<1>4. rtUpstreamComplete(p) = rtOnDestroy(rtCleanup(q), "answered")
  <2>1. [p EXCEPT !.up.st = "closed"] = RtWithUp(p, u)
    BY <1>1 DEF RtState, RtWithUp
  <2>2. PICK q0 : /\ q0 = IF p.endStream THEN [p EXCEPT !.up.st = "closed"] ELSE rtResetStream(p)
                  /\ rtUpstreamComplete(p) = rtOnDestroy(rtCleanup(q0), "answered")
    BY DEF rtUpstreamComplete
  <2>3. q0 = q
    BY <2>1, <2>2
  <2>. HIDE DEF q
  <2>. QED
    BY <2>2, <2>3
<1>. HIDE DEF q
<1>5. RtBooks(rtCleanup(q))
  BY <1>3, RtCleanupOK
<1>. QED
  BY <1>4, <1>5, RtOnDestroyOK

\* The end of the response.
LEMMA RtUpstreamEndsInv == RtInv /\ RtUpstreamEnds => RtInv'
<1>. SUFFICES ASSUME RtInv, RtUpstreamEnds PROVE RtInv'
  OBVIOUS
<1>1. RtUnderway(rt)
  BY RtIsUnderway DEF RtUpstreamEnds
<1>. QED
  BY <1>1, RtUpstreamCompleteOK DEF RtUnderway, RtUpstreamEnds, RtInv, RtOK

\* shouldRetry() is asked only if there is a retry state.
RtAnswer(p, cause, allowed) ==
    IF p.retry.on THEN rtShouldRetry(p, cause, allowed) ELSE [state |-> p, yes |-> FALSE]

\* downstream_response_started_ is set.
RtStarted(p) == [p EXCEPT !.started = TRUE]

\* What RtStarted changes, and that it changes nothing else.
LEMMA RtStartedOK ==
    ASSUME NEW p, RtBooks(p)
    PROVE  LET q == RtStarted(p)
           IN  /\ RtBooks(q) /\ q.down = p.down /\ q.chunks = p.chunks /\ q.buffer = p.buffer
               /\ q.endStream = p.endStream /\ q.up = p.up /\ q.retry = p.retry
<1>. DEFINE is == TRUE
            q == [p EXCEPT !.started = is]
<1>1. p \in RtState
  BY DEF RtBooks
<1>2. is \in BOOLEAN
  OBVIOUS
<1>3. RtStarted(p) = q
  BY DEF RtStarted
<1>. HIDE DEF is
<1>4. /\ q \in RtState /\ q.up = p.up /\ q.endStream = p.endStream /\ q.attempts = p.attempts /\ q.down = p.down
      /\ q.chunks = p.chunks /\ q.buffer = p.buffer /\ q.retry = p.retry
      /\ q.retries = p.retries /\ q.dangling = p.dangling
  BY <1>1, <1>2 DEF RtState
<1>. HIDE DEF q
<1>5. RtBooks(q)
  BY <1>4 DEF RtBooks
<1>. QED
  BY <1>3, <1>4, <1>5

\* setupRetry(): an upstream that has not ended is reset first.
LEMMA RtSetupRetryOK ==
    ASSUME NEW p, RtBooks(p), NEW ended \in BOOLEAN, ended => p.up.st = "closed"
    PROVE  LET q == rtSetupRetry(p, ended)
           IN  RtBooks(q) /\ RtSame(p, q) /\ q.retry = p.retry /\ q.up = NoUpstream
<1>. DEFINE s == IF ended THEN p ELSE rtResetStream(p)
<1>1. RtBooks(s) /\ RtSame(p, s) /\ s.retry = p.retry /\ s.up.st \in {"none", "closed"}
  <2>1. CASE ended
    BY <2>1 DEF RtSame
  <2>2. CASE ~ended
    BY <2>2, RtResetStreamOK
  <2>. QED
    BY <2>1, <2>2
<1>2. rtSetupRetry(p, ended) = rtDropUpstream(s)
  BY DEF rtSetupRetry
<1>. HIDE DEF s
<1>. QED
  BY <1>1, <1>2, RtDropUpstreamOK DEF RtSame

\* onUpstreamHeaders().
LEMMA RtUpstreamHeadersInv ==
    RtInv /\ (\E cause \in RtHeaders, endStream, allowed \in BOOLEAN : RtUpstreamHeaders(cause, endStream, allowed)) => RtInv'
<1>. SUFFICES ASSUME RtInv, NEW cause \in RtHeaders, NEW endStream \in BOOLEAN, NEW allowed \in BOOLEAN,
                     RtUpstreamHeaders(cause, endStream, allowed)
              PROVE  RtInv'
  OBVIOUS
<1>. DEFINE closed == "closed"
            u == [rt.up EXCEPT !.st = closed]
            p == IF endStream /\ rt.up.complete THEN RtWithUp(rt, u) ELSE rt
            answer == RtAnswer(p, cause, allowed)
            a == answer.state
            d == rtDropRetry(a)
            q == RtStarted(d)
<1>1. RtActive(rt) /\ RtUnderway(rt) /\ RtTrying(rt) /\ rt.up.st = "ready" /\ ~rt.started
  BY RtIsUnderway DEF RtUpstreamHeaders
<1>2. rt \in RtState /\ rt.up \in RtUpType
  BY <1>1, RtTypes DEF RtActive, RtBooks
<1>3. u \in RtUpType /\ u.st = closed
  BY <1>2 DEF RtUpType
<1>4. rt' = IF answer.yes /\ p.endStream THEN rtSetupRetry(a, endStream)
            ELSE IF endStream THEN rtUpstreamComplete(q) ELSE q
  <2>1. PICK p0 : /\ p0 = IF endStream /\ rt.up.complete THEN [rt EXCEPT !.up.st = "closed"] ELSE rt
                  /\ rt' = IF RtAnswer(p0, cause, allowed).yes /\ p0.endStream
                           THEN rtSetupRetry(RtAnswer(p0, cause, allowed).state, endStream)
                           ELSE IF endStream
                           THEN rtUpstreamComplete(RtStarted(rtDropRetry(RtAnswer(p0, cause, allowed).state)))
                           ELSE RtStarted(rtDropRetry(RtAnswer(p0, cause, allowed).state))
    BY DEF RtUpstreamHeaders, RtAnswer, RtStarted
  <2>2. [rt EXCEPT !.up.st = "closed"] = RtWithUp(rt, u)
    BY <1>2 DEF RtState, RtWithUp
  <2>3. p0 = p
    BY <2>1, <2>2
  <2>. HIDE DEF p
  <2>. QED
    BY <2>1, <2>3
<1>5. RtBooks(p) /\ RtSame(rt, p) /\ p.retry = rt.retry
  <2>1. CASE endStream /\ rt.up.complete
    <3>. HIDE DEF u
    <3>. QED
      BY <1>1, <1>3, <2>1, RtUpChanges DEF RtActive
  <2>2. CASE ~(endStream /\ rt.up.complete)
    BY <1>1, <2>2 DEF RtActive, RtSame
  <2>. QED
    BY <2>1, <2>2
<1>6. (~endStream => p = rt) /\ (endStream /\ rt.up.complete => p.up.st = "closed")
  <2>1. CASE endStream /\ rt.up.complete
    <3>. HIDE DEF u
    <3>. QED
      BY <1>1, <1>3, <2>1, RtUpChanges DEF RtActive
  <2>. QED
    BY <2>1
<1>. HIDE DEF p
<1>7. /\ RtBooks(a) /\ RtSame(p, a) /\ a.up = p.up /\ a.retry.on = p.retry.on
      /\ answer.yes => p.retry.on /\ a.retry.timer /\ a.retry.callback
  <2>1. CASE p.retry.on
    BY <1>1, <1>5, <2>1, RtShouldRetryOK DEF RtAnswer, RtUnderway
  <2>2. CASE ~p.retry.on
    BY <1>5, <2>2 DEF RtAnswer, RtSame
  <2>. QED
    BY <2>1, <2>2
<1>. HIDE DEF answer
<1>8. CASE answer.yes /\ p.endStream
  <2>. DEFINE s == rtSetupRetry(a, endStream)
  <2>1. endStream => a.up.st = "closed"
    BY <1>1, <1>5, <1>6, <1>7, <1>8 DEF RtTrying, RtSame
  <2>2. RtBooks(s) /\ RtSame(a, s) /\ s.retry = a.retry /\ s.up = NoUpstream
    BY <1>7, <2>1, RtSetupRetryOK
  <2>. HIDE DEF s
  <2>3. s.retry.timer /\ s.retry.callback /\ s.retry.on /\ s.endStream
    BY <1>5, <1>7, <1>8, <2>2 DEF RtSame
  <2>4. s.down = "open" /\ s.buffer = s.chunks /\ ~s.started
    BY <1>1, <1>5, <1>7, <1>8, <2>2 DEF RtSame, RtActive
  <2>5. RtActive(s)
    BY <2>2, <2>3, <2>4 DEF RtActive, RtWaiting
  <2>6. rt' = s
    BY <1>4, <1>8 DEF s
  <2>. QED
    BY <2>5, <2>6 DEF RtInv, RtOK
<1>9. RtBooks(d) /\ RtSame(a, d) /\ d.retry = NoRetry /\ d.up = a.up
  BY <1>7, RtDropRetryOK
<1>. HIDE DEF d
<1>10. /\ RtBooks(q) /\ q.down = d.down /\ q.chunks = d.chunks /\ q.buffer = d.buffer
       /\ q.endStream = d.endStream /\ q.up = d.up /\ q.retry = d.retry
  BY <1>9, RtStartedOK
<1>. HIDE DEF q
<1>11. CASE ~(answer.yes /\ p.endStream) /\ endStream
  BY <1>4, <1>10, <1>11, RtUpstreamCompleteOK DEF RtInv, RtOK
<1>12. CASE ~(answer.yes /\ p.endStream) /\ ~endStream
  <2>1. rt' = q /\ p = rt
    BY <1>4, <1>6, <1>12
  <2>2. q.up = rt.up /\ q.retry = NoRetry /\ q.chunks = rt.chunks /\ q.endStream = rt.endStream /\ q.down = rt.down
    BY <1>7, <1>9, <1>10, <2>1 DEF RtSame
  <2>3. ~NoRetry.on /\ ~NoRetry.timer
    BY DEF NoRetry
  <2>4. RtTrying(q)
    BY <1>1, <2>2, <2>3 DEF RtTrying
  <2>5. RtActive(q)
    BY <1>1, <1>10, <2>2, <2>3, <2>4 DEF RtActive
  <2>. QED
    BY <2>1, <2>5 DEF RtInv, RtOK
<1>. QED
  BY <1>8, <1>11, <1>12

\* The request outgrew the buffer: the retry goes, or nothing changes.
LEMMA RtAbandonOK ==
    ASSUME NEW p, RtBooks(p)
    PROVE  LET q == rtAbandon(p)
           IN  /\ RtBooks(q) /\ RtSame(p, q) /\ q.up = p.up
               /\ q.retry = NoRetry \/ (q.retry = p.retry /\ ~rtTooLarge(p))
<1>1. CASE ~rtTooLarge(p)
  BY <1>1 DEF rtAbandon, RtSame
<1>2. CASE rtTooLarge(p)
  <2>. DEFINE no == FALSE
              d == rtDropRetry(p)
              q == [d EXCEPT !.shadow = no]
  <2>1. RtBooks(d) /\ RtSame(p, d) /\ d.retry = NoRetry /\ d.up = p.up
    BY RtDropRetryOK
  <2>2. rtAbandon(p) = q
    BY <1>2 DEF rtAbandon
  <2>3. no \in BOOLEAN
    OBVIOUS
  <2>. HIDE DEF d, no
  <2>4. d \in RtState
    BY <2>1 DEF RtBooks
  <2>5. /\ q \in RtState /\ RtSame(d, q) /\ q.up = d.up /\ q.retry = d.retry /\ q.retries = d.retries
        /\ q.dangling = d.dangling
    BY <2>3, <2>4 DEF RtState, RtSame
  <2>. HIDE DEF q
  <2>6. RtBooks(q)
    BY <2>1, <2>5 DEF RtBooks, RtSame
  <2>7. RtSame(p, q)
    BY <2>1, <2>5 DEF RtSame
  <2>8. q.up = p.up /\ q.retry = NoRetry
    BY <2>1, <2>5
  <2>. QED
    BY <2>2, <2>6, <2>7, <2>8
<1>. QED
  BY <1>1, <1>2

\* One more piece, given to the upstream, and what is then put into decodingBuffer().
RtGrown(p, n, u) == [p EXCEPT !.chunks = n, !.up = u]
RtBuffered(p, n) == [p EXCEPT !.buffer = n]

\* One more piece keeps the books.
LEMMA RtGrownOK ==
    ASSUME NEW p, RtBooks(p), NEW u \in RtUpType, p.chunks < RtChunks
    PROVE  LET q == RtGrown(p, p.chunks + 1, u)
           IN  /\ RtBooks(q) /\ q.chunks = p.chunks + 1 /\ q.up = u /\ q.down = p.down /\ q.buffer = p.buffer
               /\ q.endStream = p.endStream /\ q.started = p.started /\ q.retry = p.retry
<1>. DEFINE n == p.chunks + 1
            q == RtGrown(p, n, u)
<1>1. p \in RtState /\ p.chunks \in Nat /\ p.buffer \in Nat
  BY RtTypes DEF RtBooks
<1>2. n \in Nat /\ n <= RtChunks /\ p.buffer <= n
  BY <1>1, RtAssumption DEF RtBooks
<1>3. n = p.chunks + 1
  OBVIOUS
<1>. HIDE DEF n
<1>4. /\ q \in RtState /\ q.chunks = n /\ q.up = u /\ q.down = p.down /\ q.buffer = p.buffer
      /\ q.endStream = p.endStream /\ q.started = p.started /\ q.retry = p.retry
      /\ q.retries = p.retries /\ q.dangling = p.dangling /\ q.attempts = p.attempts
  BY <1>1, <1>2 DEF RtState, RtGrown
<1>. HIDE DEF q
<1>5. RtBooks(q)
  BY <1>2, <1>4 DEF RtBooks
<1>. QED
  BY <1>3, <1>4, <1>5 DEF q

\* What RtBuffered changes, and that it changes nothing else.
LEMMA RtBufferedOK ==
    ASSUME NEW p, RtBooks(p), NEW n \in Nat, n <= p.chunks
    PROVE  LET q == RtBuffered(p, n)
           IN  /\ RtBooks(q) /\ q.buffer = n /\ q.chunks = p.chunks /\ q.up = p.up /\ q.down = p.down
               /\ q.endStream = p.endStream /\ q.started = p.started /\ q.retry = p.retry
<1>. DEFINE q == RtBuffered(p, n)
<1>1. p \in RtState
  BY DEF RtBooks
<1>2. /\ q \in RtState /\ q.buffer = n /\ q.chunks = p.chunks /\ q.up = p.up /\ q.down = p.down
      /\ q.endStream = p.endStream /\ q.started = p.started /\ q.retry = p.retry
      /\ q.retries = p.retries /\ q.dangling = p.dangling /\ q.attempts = p.attempts
  BY <1>1 DEF RtState, RtBuffered
<1>. HIDE DEF q
<1>3. RtBooks(q)
  BY <1>2 DEF RtBooks
<1>. QED
  BY <1>2, <1>3 DEF q

\* The rest of decodeData(), in two parts.
RtTaken(p, room, endStream) ==
    LET q == IF endStream THEN rtOnRequestComplete(p) ELSE p
    IN  [q EXCEPT !.buffer = IF (p.retry.on \/ p.shadow) /\ room THEN @ + 1 ELSE @]

RtTakes(p, room, endStream) ==
    RtTaken([p EXCEPT !.chunks = @ + 1, !.up.got = @ + 1, !.up.complete = endStream], room, endStream)

\* decodeData().
LEMMA RtDecodeDataInv == RtInv /\ (\E endStream \in BOOLEAN : RtDecodeData(endStream)) => RtInv'
<1>. SUFFICES ASSUME RtInv, NEW endStream \in BOOLEAN, RtDecodeData(endStream) PROVE RtInv'
  OBVIOUS
<1>. DEFINE a == rtAbandon(rt)
            k == a.up.got + 1
            u == [a.up EXCEPT !.got = k, !.complete = endStream]
            p == RtGrown(a, a.chunks + 1, u)
            q == IF endStream THEN rtOnRequestComplete(p) ELSE p
            buffering == (p.retry.on \/ p.shadow) /\ ~rtTooLarge(rt)
            n == IF buffering THEN q.buffer + 1 ELSE q.buffer
            s == RtBuffered(q, n)
<1>1. RtActive(rt) /\ RtTrying(rt) /\ rt.chunks < RtChunks /\ ~rt.endStream
  BY RtArriving DEF RtDecodeData
<1>2. /\ RtBooks(a) /\ RtSame(rt, a) /\ a.up = rt.up
      /\ a.retry = NoRetry \/ (a.retry = rt.retry /\ ~rtTooLarge(rt))
  BY <1>1, RtAbandonOK DEF RtActive
<1>3. rt' = s
  <2>6. PICK a0 : a0 = rtAbandon(rt) /\ rt' = RtTakes(a0, ~rtTooLarge(rt), endStream)
    BY DEF RtDecodeData, RtTakes, RtTaken
  <2>7. PICK p0 : /\ p0 = [a0 EXCEPT !.chunks = @ + 1, !.up.got = @ + 1, !.up.complete = endStream]
                  /\ rt' = RtTaken(p0, ~rtTooLarge(rt), endStream)
    BY <2>6 DEF RtTakes
  <2>. HIDE DEF a
  <2>2. a \in RtState
    BY <1>2 DEF RtBooks
  <2>3. a0 = a
    BY <2>6 DEF a
  <2>4. p0 = p
    BY <2>2, <2>3, <2>7 DEF RtState, RtGrown
  <2>. HIDE DEF p
  <2>. QED
    BY <2>4, <2>7 DEF RtTaken, RtBuffered
<1>. HIDE DEF a
<1>4. a.up \in RtUpType /\ a.chunks \in Nat /\ a.buffer \in Nat /\ a.up.got \in Nat /\ k \in Nat
  BY <1>2, RtTypes DEF RtBooks, RtUpType
<1>5. u \in RtUpType /\ u.st = a.up.st /\ u.got = k /\ u.complete = endStream
  BY <1>4 DEF RtUpType
<1>. HIDE DEF u
<1>6. /\ RtBooks(p) /\ p.chunks = a.chunks + 1 /\ p.up = u /\ p.down = a.down /\ p.buffer = a.buffer
      /\ p.endStream = a.endStream /\ p.started = a.started /\ p.retry = a.retry
  BY <1>1, <1>2, <1>5, RtGrownOK DEF RtSame
<1>. HIDE DEF p
<1>7. /\ RtBooks(q) /\ q.chunks = p.chunks /\ q.down = p.down /\ q.buffer = p.buffer
      /\ q.started = p.started /\ q.retry = p.retry
      /\ q.up.st = p.up.st /\ q.up.got = p.up.got /\ q.up.complete = p.up.complete
      /\ q.endStream <=> endStream
  <2>1. CASE endStream
    <3>1. p.up.st # "none"
      BY <1>1, <1>2, <1>5, <1>6 DEF RtTrying
    <3>. QED
      BY <1>6, <2>1, <3>1, RtRequestCompletes
  <2>2. CASE ~endStream
    <3>1. q = p
      BY <2>2
    <3>. QED
      BY <1>1, <1>2, <1>6, <2>2, <3>1 DEF RtSame
  <2>. QED
    BY <2>1, <2>2
<1>. HIDE DEF q
<1>8. n \in Nat /\ n <= q.chunks
  BY <1>2, <1>4, <1>6, <1>7 DEF RtBooks
<1>9. q.retry.on => n = q.chunks
  <2>1. ~NoRetry.on
    BY DEF NoRetry
  <2>. QED
    BY <1>1, <1>2, <1>4, <1>6, <1>7, <2>1 DEF RtActive, RtSame
<1>. HIDE DEF n
<1>10. /\ RtBooks(s) /\ s.buffer = n /\ s.chunks = q.chunks /\ s.up = q.up /\ s.down = q.down
       /\ s.endStream = q.endStream /\ s.started = q.started /\ s.retry = q.retry
  BY <1>7, <1>8, RtBufferedOK
<1>. HIDE DEF s
<1>11. /\ s.up.st = rt.up.st /\ s.up.got = s.chunks /\ (s.up.complete <=> s.endStream)
       /\ s.down = "open" /\ s.started = rt.started
  <2>1. s.up.st = rt.up.st /\ s.down = "open" /\ s.started = rt.started
    BY <1>1, <1>2, <1>5, <1>6, <1>7, <1>10 DEF RtSame, RtActive
  <2>2. s.up.got = s.chunks
    BY <1>1, <1>2, <1>5, <1>6, <1>7, <1>10 DEF RtSame, RtTrying
  <2>3. s.up.complete <=> s.endStream
    BY <1>5, <1>6, <1>7, <1>10
  <2>. QED
    BY <2>1, <2>2, <2>3
<1>12. s.retry = NoRetry \/ s.retry = rt.retry
  BY <1>2, <1>6, <1>7, <1>10
<1>13. ~NoRetry.on /\ ~NoRetry.timer
  BY DEF NoRetry
<1>14. RtTrying(s)
  BY <1>1, <1>11, <1>12, <1>13 DEF RtTrying
<1>15. RtActive(s)
  BY <1>1, <1>9, <1>10, <1>11, <1>12, <1>13, <1>14 DEF RtActive
<1>. QED
  BY <1>3, <1>15 DEF RtInv, RtOK

\* Every step keeps the invariant.
LEMMA RtStep == RtInv /\ [RtNext]_rt => RtInv'
<1>. SUFFICES ASSUME RtInv, [RtNext]_rt PROVE RtInv'
  OBVIOUS
<1>1. CASE UNCHANGED rt
  BY <1>1 DEF RtInv
<1>2. CASE RtNext
  BY <1>2, RtDecodeHeadersLocalInv, RtDecodeHeadersInv, RtDecodeDataInv, RtDecodeTrailersInv, RtDestroyedInv,
     RtPoolReadyInv, RtPoolFailureInv, RtUpstreamResetInv, RtUpstreamHeadersInv, RtUpstreamEndsInv,
     RtResponseTimeoutInv, RtPerTryInv, RtDoRetryInv, RtDoRetryNoHostInv DEF RtNext, RtRetries
<1>. QED
  BY <1>1, <1>2

\* The invariant implies the property.
LEMMA RtInvImplies == RtInv => RtSound
<1>. SUFFICES ASSUME RtInv PROVE RtSound
  OBVIOUS
<1>1. RtBooks(rt) /\ rt.down \in {"new", "open", "answered", "reset", "gone"}
  BY DEF RtInv, RtOK, RtFresh, RtActive, RtOver
<1>2. /\ rt.up \in RtUpType /\ rt.retry \in RtRetryType /\ rt.attempts \in Nat /\ rt.chunks \in Nat /\ rt.buffer \in Nat
      /\ rt.retry.remaining \in Nat
  BY <1>1, RtTypes DEF RtBooks, RtRetryType
<1>3. /\ NoUpstream.st = "none" /\ ~NoRetry.timer /\ ~NoRetry.callback /\ NoRetry.remaining = 0
  BY DEF NoUpstream, NoRetry
<1>4. rt.attempts <= 1 + RtNumRetries
  BY <1>1, <1>2, RtAssumption DEF RtBooks, RtOne
<1>5. RtTypeOK
  BY <1>1, <1>2 DEF RtTypeOK, RtBooks, RtUpType
<1>6. rt.retries = (IF rt.retry.callback THEN 1 ELSE 0) /\ ~rt.dangling
  BY <1>1 DEF RtBooks, RtOne
<1>7. CASE RtFresh(rt)
  <2>1. rt.up.st = "none" /\ ~rt.retry.timer /\ rt.down = "new"
    BY <1>3, <1>7 DEF RtFresh
  <2>. QED
    BY <1>4, <1>5, <1>6, <2>1 DEF RtSound, RtNothingOutlives, RtRetrySound, RtWholeRequest
<1>8. CASE RtOver(rt)
  <2>1. rt.up.st = "none" /\ ~rt.retry.timer /\ ~rt.retry.callback /\ ~rt.response /\ rt.up = NoUpstream
    BY <1>3, <1>8 DEF RtOver
  <2>2. rt.retries = 0
    BY <1>6, <2>1
  <2>. QED
    BY <1>4, <1>5, <1>6, <2>1, <2>2 DEF RtSound, RtNothingOutlives, RtRetrySound, RtWholeRequest
<1>9. CASE RtActive(rt)
  <2>1. rt.down = "open"
    BY <1>9 DEF RtActive
  <2>2. rt.retry.timer => rt.retry.callback /\ rt.up.st = "none" /\ ~rt.started
    BY <1>3, <1>9 DEF RtActive, RtTrying, RtWaiting
  <2>3. RtWholeRequest
    BY <1>3, <1>9 DEF RtActive, RtTrying, RtWaiting, RtWholeRequest
  <2>. QED
    BY <1>4, <1>5, <1>6, <2>1, <2>2, <2>3 DEF RtSound, RtNothingOutlives, RtRetrySound
<1>. QED
  BY <1>7, <1>8, <1>9 DEF RtInv, RtOK

\* Nothing of the filter outlives its stream, its share of the retry circuit
\* breaker is the retry it waits for, every attempt is given all that arrived,
\* and there are no more attempts than the policy allows: for bodies of any
\* length, any buffer limit, any policy and timeouts (router.cc,
\* retry_state_impl.cc).
THEOREM RtSoundHolds == RtSpec => []RtSound
<1>. QED
  BY RtInitOK, RtStep, RtInvImplies, PTL DEF RtSpec

-----------------------------------------------------------------------------
(***************************************************************************)
(* The connection manager.  CmSound says nothing of what onData() is still *)
(* doing; CmOK does.  CmBase holds at every call inside a handler, the     *)
(* rest of CmOK is what doEndStream() and onData() restore at their ends.  *)
(***************************************************************************)

CmDestroyedMap == [1..CmMaxStreams -> Nat]
CmQueues == Seq(CmItems)
CmState == [protocol : {"none", "http1", "http2"}, state : {"Open", "Closing", "Closed"},
            drain : {"NotDraining", "Draining", "Closing"}, idleTimeout : BOOLEAN,
            idleArmed : BOOLEAN, drainArmed : BOOLEAN, pauses : Nat, data : CmQueues, inData : BOOLEAN,
            open : Seq(Nat), remote : SUBSET Nat, closes : SUBSET Nat, used : Nat, wants : BOOLEAN,
            destroyed : CmDestroyedMap]

\* A stream is in the list once and destroyed once; timers.
CmListed(p) ==
    /\ H1Distinct(p.open) /\ p.used <= CmMaxStreams
    /\ cmStreams(p) \subseteq 1..p.used /\ p.remote \subseteq 1..p.used
    /\ \A s \in 1..CmMaxStreams : p.destroyed[s] = IF s <= p.used /\ s \notin cmStreams(p) THEN 1 ELSE 0

CmTimed(p) ==
    /\ p.state = "Closed" => p.open = <<>> /\ ~p.idleArmed /\ ~p.drainArmed
    /\ p.idleArmed => p.open = <<>>
    /\ p.drain = "Draining" /\ p.state # "Closed" => p.drainArmed

\* HTTP/1.1 has one request at a time and holds nothing back.
CmSingle(p) ==
    /\ p.protocol # "http2" => Len(p.open) <= 1 /\ ~p.wants
    /\ p.protocol = "none" => p.used = 0

CmBase(p) == p \in CmState /\ CmListed(p) /\ CmTimed(p) /\ CmSingle(p)

\* After a request that was not read to its end nothing more is read.
CmRead(p) ==
    p.protocol # "http2" => \A s \in 1..p.used : s \notin p.remote /\ s \notin cmStreams(p) => p.state # "Open"

\* Reads are paused for the request in progress only.
CmPaused(p) == p.protocol # "http2" /\ p.state = "Open" /\ (p.inData \/ p.open = <<>>) => p.pauses = 0

CmNotForgotten(p) == p.drain = "Closing" /\ p.open = <<>> /\ ~p.wants => p.state # "Open"

CmOK(p) ==
    /\ CmBase(p) /\ CmRead(p) /\ CmPaused(p)
    /\ p.inData => p.state = "Open" /\ p.protocol # "none"
    /\ p.protocol = "none" => p.data = <<>>
    /\ ~p.inData => CmNotForgotten(p)

\* All but the network connection, the list and the timers is as it was.
CmSameRequests(p, q) ==
    /\ q.protocol = p.protocol /\ q.used = p.used /\ q.remote = p.remote /\ q.closes = p.closes
    /\ q.data = p.data /\ q.inData = p.inData /\ q.wants = p.wants /\ q.idleTimeout = p.idleTimeout

LEMMA CmEmpty == H1Distinct(<<>>) /\ <<>> \in Seq(Nat) /\ Len(<<>>) = 0 /\ <<>> \in CmQueues
  BY DEF H1Distinct, CmQueues

LEMMA CmStreamsOf ==
    ASSUME NEW p \in CmState
    PROVE  /\ cmStreams(p) = H1Elements(p.open)
           /\ p.open = <<>> <=> cmStreams(p) = {}
           /\ p.open = <<>> <=> Len(p.open) = 0
           /\ Len(p.open) \in Nat
<1>1. p.open \in Seq(Nat)
  BY DEF CmState
<1>2. cmStreams(p) = H1Elements(p.open)
  BY DEF cmStreams, H1Elements
<1>. QED
  BY <1>1, <1>2, H1NoElements

LEMMA CmCountUp ==
    ASSUME NEW S, NEW f \in [S -> Nat], NEW s \in S
    PROVE  LET m == [f EXCEPT ![s] = @ + 1]
           IN  m \in [S -> Nat] /\ m[s] = f[s] + 1 /\ \A o \in S \ {s} : m[o] = f[o]
  OBVIOUS

LEMMA CmCountUpAll ==
    ASSUME NEW f \in CmDestroyedMap, NEW T
    PROVE  [s \in 1..CmMaxStreams |-> f[s] + IF s \in T THEN 1 ELSE 0] \in CmDestroyedMap
  BY DEF CmDestroyedMap

\* A stream leaves the list.
LEMMA CmDestroyBase ==
    ASSUME NEW p, CmBase(p), NEW s \in cmStreams(p)
    PROVE  LET d == cmDestroy(p, s)
           IN  /\ CmBase(d) /\ CmSameRequests(p, d) /\ s \in 1..p.used
               /\ d.state = p.state /\ d.drain = p.drain /\ d.pauses = p.pauses
               /\ d.drainArmed = p.drainArmed /\ ~d.idleArmed /\ p.open # <<>> /\ p.state # "Closed"
               /\ cmStreams(d) = cmStreams(p) \ {s}
               /\ p.protocol # "http2" => d.open = <<>>
<1>. DEFINE d == cmDestroy(p, s)
            r == RemoveAt(p.open, CHOOSE i \in DOMAIN p.open : p.open[i] = s)
<1>1. p \in CmState /\ p.open \in Seq(Nat) /\ p.destroyed \in CmDestroyedMap /\ H1Distinct(p.open)
  BY DEF CmBase, CmState, CmListed
<1>2. cmStreams(p) = H1Elements(p.open) /\ p.open # <<>> /\ Len(p.open) \in Nat /\ Len(p.open) > 0
  BY <1>1, CmStreamsOf
<1>3. r = h1Without(p.open, s)
  BY DEF RemoveAt, h1Without, h1Removed
<1>4. r \in Seq(Nat) /\ Len(r) = Len(p.open) - 1 /\ H1Distinct(r) /\ H1Elements(r) = H1Elements(p.open) \ {s}
  <2>1. s \in H1Elements(p.open)
    BY <1>2
  <2>. HIDE DEF r
  <2>. QED
    BY <1>1, <1>3, <2>1, H1WithoutElements
<1>5. s \in 1..p.used /\ p.used <= CmMaxStreams /\ p.used \in Nat
  BY <1>1 DEF CmBase, CmListed, CmState
<1>6. s \in 1..CmMaxStreams
  BY <1>5, CmAssumption
<1>. HIDE DEF r
<1>. DEFINE m == [p.destroyed EXCEPT ![s] = @ + 1]
<1>7. m \in CmDestroyedMap /\ m[s] = p.destroyed[s] + 1 /\ \A o \in 1..CmMaxStreams \ {s} : m[o] = p.destroyed[o]
  BY <1>1, <1>6, CmCountUp DEF CmDestroyedMap
<1>. HIDE DEF m
<1>8. d = [p EXCEPT !.open = r, !.destroyed = m]
  BY <1>1 DEF cmDestroy, r, m, CmState
<1>. HIDE DEF d
<1>9. d \in CmState
  BY <1>1, <1>4, <1>7, <1>8 DEF CmState
<1>10. d.open = r /\ d.destroyed = m /\ CmSameRequests(p, d) /\ d.state = p.state /\ d.drain = p.drain /\ d.pauses = p.pauses
       /\ d.drainArmed = p.drainArmed /\ d.idleArmed = p.idleArmed
  BY <1>1, <1>8 DEF CmState, CmSameRequests
<1>11. cmStreams(d) = cmStreams(p) \ {s}
  BY <1>2, <1>4, <1>9, <1>10, CmStreamsOf
<1>12. ~d.idleArmed /\ p.state # "Closed"
  BY <1>1, <1>2, <1>10 DEF CmBase, CmTimed
<1>13. p.destroyed[s] = 0
  BY <1>5, <1>6 DEF CmBase, CmListed
<1>14. CmListed(d)
  <2>1. ASSUME NEW o \in 1..CmMaxStreams PROVE d.destroyed[o] = IF o <= d.used /\ o \notin cmStreams(d) THEN 1 ELSE 0
    <3>1. CASE o = s
      BY <3>1, <1>5, <1>6, <1>7, <1>10, <1>11, <1>13 DEF CmSameRequests
    <3>2. CASE o # s
      BY <3>2, <1>7, <1>10, <1>11 DEF CmBase, CmListed, CmSameRequests
    <3>. QED
      BY <3>1, <3>2
  <2>. QED
    BY <2>1, <1>4, <1>10, <1>11 DEF CmBase, CmListed, CmSameRequests
<1>15. CmTimed(d)
  BY <1>10, <1>12 DEF CmBase, CmTimed
<1>16. CmSingle(d)
  BY <1>2, <1>4, <1>10 DEF CmBase, CmSingle, CmSameRequests
<1>17. p.protocol # "http2" => d.open = <<>>
  <2>1. p.protocol # "http2" => Len(p.open) <= 1
    BY Zenon DEF CmBase, CmSingle
  <2>2. d.open = <<>> <=> Len(r) = 0
    BY <1>9, <1>10, CmStreamsOf
  <2>3. Len(p.open) <= 1 => Len(r) = 0
    <3>. DEFINE n == Len(p.open)
                k == Len(r)
    <3>1. k = n - 1 /\ n \in Nat /\ n > 0
      BY <1>2, <1>4
    <3>. HIDE DEF n, k
    <3>2. n <= 1 => k = 0
      BY <3>1
    <3>. QED
      BY <3>2 DEF n, k
  <2>. QED
    BY <2>1, <2>2, <2>3, Zenon
<1>. QED
  BY <1>2, <1>5, <1>9, <1>10, <1>11, <1>12, <1>14, <1>15, <1>16, <1>17 DEF CmBase, d

\* onEvent() of a close; all that is listed is destroyed.
LEMMA CmClosedBase ==
    ASSUME NEW p, CmBase(p)
    PROVE  LET d == cmClosed(p)
           IN  /\ CmBase(d) /\ CmSameRequests(p, d) /\ d.state = "Closed" /\ d.open = <<>>
               /\ d.drain = p.drain /\ d.pauses = p.pauses /\ cmStreams(d) = {}
<1>. DEFINE d == cmClosed(p)
            m == [s \in 1..CmMaxStreams |-> p.destroyed[s] + IF s \in cmStreams(p) THEN 1 ELSE 0]
<1>1. p \in CmState /\ p.destroyed \in CmDestroyedMap
  BY DEF CmBase, CmState
<1>2. m \in CmDestroyedMap /\ \A s \in 1..CmMaxStreams : m[s] = p.destroyed[s] + IF s \in cmStreams(p) THEN 1 ELSE 0
  <2>1. m \in CmDestroyedMap
    BY <1>1, CmCountUpAll
  <2>. QED
    BY <2>1
<1>3. d = [p EXCEPT !.state = "Closed", !.idleArmed = FALSE, !.drainArmed = FALSE, !.open = <<>>, !.destroyed = m]
  BY <1>1 DEF cmClosed, m, CmState
<1>. HIDE DEF m, d
<1>4. d \in CmState
  BY <1>1, <1>2, <1>3, CmEmpty DEF CmState
<1>5. d.open = <<>> /\ d.destroyed = m /\ CmSameRequests(p, d) /\ d.state = "Closed" /\ d.drain = p.drain
      /\ d.pauses = p.pauses /\ ~d.drainArmed /\ ~d.idleArmed
  BY <1>1, <1>3 DEF CmState, CmSameRequests
<1>6. cmStreams(d) = {}
  BY <1>4, <1>5, CmStreamsOf
<1>7. p.used \in Nat /\ p.used <= CmMaxStreams /\ cmStreams(p) \subseteq 1..p.used
  BY <1>1 DEF CmBase, CmListed, CmState
<1>8. CmListed(d)
  <2>1. ASSUME NEW o \in 1..CmMaxStreams PROVE d.destroyed[o] = IF o <= d.used /\ o \notin cmStreams(d) THEN 1 ELSE 0
    <3>1. d.destroyed[o] = p.destroyed[o] + IF o \in cmStreams(p) THEN 1 ELSE 0
      BY <1>2, <1>5
    <3>2. p.destroyed[o] = IF o <= p.used /\ o \notin cmStreams(p) THEN 1 ELSE 0
      BY DEF CmBase, CmListed
    <3>3. o \in cmStreams(p) => o <= p.used
      BY <1>7
    <3>. QED
      BY <3>1, <3>2, <3>3, <1>5, <1>6 DEF CmSameRequests
  <2>. QED
    BY <2>1, <1>5, <1>6, <1>7, CmEmpty DEF CmBase, CmListed, CmSameRequests
<1>9. CmTimed(d)
  BY <1>5 DEF CmTimed
<1>10. CmSingle(d)
  BY <1>5, CmEmpty DEF CmBase, CmSingle, CmSameRequests
<1>. QED
  BY <1>4, <1>5, <1>6, <1>8, <1>9, <1>10 DEF CmBase, d

\* close(FlushWrite)
LEMMA CmCloseBase ==
    ASSUME NEW p, CmBase(p), NEW buffered \in BOOLEAN
    PROVE  LET d == cmClose(p, buffered)
           IN  /\ CmBase(d) /\ CmSameRequests(p, d) /\ d.state # "Open"
               /\ d.open = p.open \/ d.open = <<>>
               /\ d.drain = p.drain /\ d.pauses = p.pauses
               /\ d.idleArmed => p.idleArmed
<1>. DEFINE d == cmClose(p, buffered)
<1>1. p \in CmState
  BY DEF CmBase
<1>2. CASE p.state # "Open"
  <2>1. d = p
    BY <1>2 DEF cmClose
  <2>. QED
    BY <1>2, <2>1, <1>1 DEF CmSameRequests
<1>3. CASE p.state = "Open" /\ buffered
  <2>1. d = [p EXCEPT !.state = "Closing"]
    BY <1>3 DEF cmClose
  <2>. HIDE DEF d
  <2>2. d \in CmState
    BY <2>1, <1>1 DEF CmState
  <2>3. /\ CmSameRequests(p, d) /\ d.state = "Closing" /\ d.open = p.open /\ d.drain = p.drain /\ d.pauses = p.pauses
        /\ d.idleArmed = p.idleArmed /\ d.drainArmed = p.drainArmed /\ d.destroyed = p.destroyed
    BY <2>1, <1>1 DEF CmState, CmSameRequests
  <2>4. cmStreams(d) = cmStreams(p)
    BY <2>3 DEF cmStreams
  <2>5. CmListed(d)
    BY <2>3, <2>4 DEF CmBase, CmListed, CmSameRequests
  <2>6. CmTimed(d)
    BY <2>3, <1>3 DEF CmBase, CmTimed
  <2>7. CmSingle(d)
    BY <2>3 DEF CmBase, CmSingle, CmSameRequests
  <2>. QED
    BY <2>2, <2>3, <2>5, <2>6, <2>7 DEF CmBase, d
<1>4. CASE p.state = "Open" /\ ~buffered
  <2>1. d = cmClosed(p)
    BY <1>4 DEF cmClose
  <2>2. ~cmClosed(p).idleArmed
    BY CmClosedBase DEF CmBase, CmTimed
  <2>. QED
    BY <2>1, <2>2, CmClosedBase
<1>. QED
  BY <1>2, <1>3, <1>4

\* checkForDeferredClose()
LEMMA CmCheckBase ==
    ASSUME NEW p, CmBase(p), NEW buffered \in BOOLEAN
    PROVE  LET d == cmCheckForDeferredClose(p, buffered)
           IN  /\ CmBase(d) /\ CmNotForgotten(d) /\ CmSameRequests(p, d)
               /\ d.open = p.open /\ cmStreams(d) = cmStreams(p)
               /\ d.drain = p.drain /\ d.pauses = p.pauses
               /\ d.state = "Open" => p.state = "Open"
               /\ d.idleArmed => p.idleArmed
<1>. DEFINE d == cmCheckForDeferredClose(p, buffered)
<1>1. CASE p.drain = "Closing" /\ p.open = <<>> /\ ~p.wants
  <2>1. d = cmClose(p, buffered)
    BY <1>1 DEF cmCheckForDeferredClose
  <2>. HIDE DEF d
  <2>2. /\ CmBase(d) /\ CmSameRequests(p, d) /\ d.state # "Open" /\ (d.open = p.open \/ d.open = <<>>)
        /\ d.drain = p.drain /\ d.pauses = p.pauses /\ (d.idleArmed => p.idleArmed)
    BY <2>1, CmCloseBase
  <2>3. d.open = p.open
    BY <2>2, <1>1
  <2>4. cmStreams(d) = cmStreams(p)
    BY <2>3 DEF cmStreams
  <2>5. CmNotForgotten(d)
    BY <2>2 DEF CmNotForgotten
  <2>. QED
    BY <2>2, <2>3, <2>4, <2>5 DEF d
<1>2. CASE ~(p.drain = "Closing" /\ p.open = <<>> /\ ~p.wants)
  <2>1. d = p
    BY <1>2 DEF cmCheckForDeferredClose
  <2>. HIDE DEF d
  <2>2. CmNotForgotten(d)
    BY <1>2, <2>1 DEF CmNotForgotten
  <2>. QED
    BY <2>1, <2>2 DEF CmSameRequests, d
<1>. QED
  BY <1>1, <1>2

\* The connection is to close; reads go on; the idle timer.
LEMMA CmDrainBase ==
    ASSUME NEW p, CmBase(p)
    PROVE  LET d == [p EXCEPT !.drain = "Closing"]
           IN  /\ CmBase(d) /\ CmSameRequests(p, d) /\ d.open = p.open /\ cmStreams(d) = cmStreams(p)
               /\ d.drain = "Closing" /\ d.state = p.state /\ d.pauses = p.pauses /\ d.idleArmed = p.idleArmed /\ d.drainArmed = p.drainArmed
<1>. DEFINE d == [p EXCEPT !.drain = "Closing"]
<1>1. p \in CmState
  BY DEF CmBase
<1>2. d \in CmState
  BY <1>1 DEF CmState
<1>3. /\ CmSameRequests(p, d) /\ d.state = p.state /\ d.open = p.open /\ d.drain = "Closing" /\ d.pauses = p.pauses
      /\ d.idleArmed = p.idleArmed /\ d.drainArmed = p.drainArmed /\ d.destroyed = p.destroyed
  BY <1>1 DEF CmState, CmSameRequests
<1>. HIDE DEF d
<1>4. cmStreams(d) = cmStreams(p)
  BY <1>3 DEF cmStreams
<1>5. CmListed(d)
  BY <1>3, <1>4 DEF CmBase, CmListed, CmSameRequests
<1>6. CmTimed(d)
  BY <1>3 DEF CmBase, CmTimed
<1>7. CmSingle(d)
  BY <1>3 DEF CmBase, CmSingle, CmSameRequests
<1>. QED
  BY <1>2, <1>3, <1>4, <1>5, <1>6, <1>7 DEF CmBase, d

LEMMA CmPausesBase ==
    ASSUME NEW p, CmBase(p), NEW n \in Nat
    PROVE  LET d == [p EXCEPT !.pauses = n]
           IN  /\ CmBase(d) /\ CmSameRequests(p, d) /\ d.open = p.open /\ cmStreams(d) = cmStreams(p)
               /\ d.drain = p.drain /\ d.state = p.state /\ d.pauses = n /\ d.idleArmed = p.idleArmed /\ d.drainArmed = p.drainArmed
<1>. DEFINE d == [p EXCEPT !.pauses = n]
<1>1. p \in CmState
  BY DEF CmBase
<1>2. d \in CmState
  BY <1>1 DEF CmState
<1>3. /\ CmSameRequests(p, d) /\ d.state = p.state /\ d.open = p.open /\ d.drain = p.drain /\ d.pauses = n
      /\ d.idleArmed = p.idleArmed /\ d.drainArmed = p.drainArmed /\ d.destroyed = p.destroyed
  BY <1>1 DEF CmState, CmSameRequests
<1>. HIDE DEF d
<1>4. cmStreams(d) = cmStreams(p)
  BY <1>3 DEF cmStreams
<1>5. CmListed(d)
  BY <1>3, <1>4 DEF CmBase, CmListed, CmSameRequests
<1>6. CmTimed(d)
  BY <1>3 DEF CmBase, CmTimed
<1>7. CmSingle(d)
  BY <1>3 DEF CmBase, CmSingle, CmSameRequests
<1>. QED
  BY <1>2, <1>3, <1>4, <1>5, <1>6, <1>7 DEF CmBase, d

LEMMA CmIdleBase ==
    ASSUME NEW p, CmBase(p), NEW b \in BOOLEAN, b => p.open = <<>> /\ p.state # "Closed"
    PROVE  LET d == [p EXCEPT !.idleArmed = b]
           IN  /\ CmBase(d) /\ CmSameRequests(p, d) /\ d.open = p.open /\ cmStreams(d) = cmStreams(p)
               /\ d.drain = p.drain /\ d.state = p.state /\ d.pauses = p.pauses /\ d.drainArmed = p.drainArmed
<1>. DEFINE d == [p EXCEPT !.idleArmed = b]
<1>1. p \in CmState
  BY DEF CmBase
<1>2. d \in CmState
  BY <1>1 DEF CmState
<1>3. /\ CmSameRequests(p, d) /\ d.state = p.state /\ d.open = p.open /\ d.drain = p.drain /\ d.pauses = p.pauses
      /\ d.idleArmed = b /\ d.drainArmed = p.drainArmed /\ d.destroyed = p.destroyed
  BY <1>1 DEF CmState, CmSameRequests
<1>. HIDE DEF d
<1>4. cmStreams(d) = cmStreams(p)
  BY <1>3 DEF cmStreams
<1>5. CmListed(d)
  BY <1>3, <1>4 DEF CmBase, CmListed, CmSameRequests
<1>6. CmTimed(d)
  BY <1>3 DEF CmBase, CmTimed
<1>7. CmSingle(d)
  BY <1>3 DEF CmBase, CmSingle, CmSameRequests
<1>. QED
  BY <1>2, <1>3, <1>4, <1>5, <1>6, <1>7 DEF CmBase, d

\* doEndStream(): after an HTTP/1.1 request that was not read the connection closes,
\* after one that was reads go on.
LEMMA CmEndStreamBase ==
    ASSUME NEW p, CmBase(p), CmRead(p), NEW s \in cmStreams(p), NEW buffered \in BOOLEAN
    PROVE  LET d == cmEndStream(p, s, buffered)
           IN  /\ CmBase(d) /\ CmRead(d) /\ CmNotForgotten(d) /\ CmSameRequests(p, d)
               /\ cmStreams(d) = cmStreams(p) \ {s}
               /\ d.state = "Open" => p.state = "Open"
               /\ p.protocol # "http2" => d.open = <<>> /\ (d.state = "Open" => d.pauses = 0)
<1>. DEFINE reset == s \notin p.remote
            a == cmDestroy(p, s)
            b == IF reset /\ p.protocol # "http2" THEN [a EXCEPT !.drain = "Closing"] ELSE a
            q == cmCheckForDeferredClose(b, buffered)
            r == IF q.drain # "Closing" /\ q.protocol # "http2" THEN [q EXCEPT !.pauses = 0] ELSE q
            e == r.idleArmed \/ (r.idleTimeout /\ r.state # "Closed" /\ r.open = <<>>)
            d == [r EXCEPT !.idleArmed = e]
<1>0. d = cmEndStream(p, s, buffered)
  BY DEF cmEndStream
<1>1. /\ CmBase(a) /\ CmSameRequests(p, a) /\ s \in 1..p.used /\ a.state = p.state
      /\ cmStreams(a) = cmStreams(p) \ {s} /\ (p.protocol # "http2" => a.open = <<>>)
  BY CmDestroyBase
<1>. HIDE DEF a
<1>2. /\ CmBase(b) /\ CmSameRequests(p, b) /\ b.state = p.state /\ b.open = a.open
      /\ cmStreams(b) = cmStreams(p) \ {s} /\ (reset /\ p.protocol # "http2" => b.drain = "Closing")
  <2>1. CASE reset /\ p.protocol # "http2"
    <3>1. b = [a EXCEPT !.drain = "Closing"]
      BY <2>1
    <3>. QED
      BY <2>1, <3>1, <1>1, CmDrainBase DEF CmSameRequests
  <2>2. CASE ~(reset /\ p.protocol # "http2")
    BY <2>2, <1>1
  <2>. QED
    BY <2>1, <2>2
<1>. HIDE DEF b
<1>3. /\ CmBase(q) /\ CmNotForgotten(q) /\ CmSameRequests(p, q) /\ (q.state = "Open" => p.state = "Open") /\ q.open = a.open
      /\ cmStreams(q) = cmStreams(p) \ {s} /\ (reset /\ p.protocol # "http2" => q.drain = "Closing")
  BY <1>2, CmCheckBase DEF CmSameRequests
<1>. HIDE DEF q
<1>4. /\ CmBase(r) /\ CmSameRequests(p, r) /\ r.state = q.state /\ r.open = q.open /\ r.drain = q.drain
      /\ cmStreams(r) = cmStreams(p) \ {s} /\ (q.drain # "Closing" /\ q.protocol # "http2" => r.pauses = 0)
  <2>1. CASE q.drain # "Closing" /\ q.protocol # "http2"
    <3>1. r = [q EXCEPT !.pauses = 0]
      BY <2>1
    <3>. QED
      BY <2>1, <3>1, <1>3, CmPausesBase DEF CmSameRequests
  <2>2. CASE ~(q.drain # "Closing" /\ q.protocol # "http2")
    BY <2>2, <1>3
  <2>. QED
    BY <2>1, <2>2
<1>. HIDE DEF r
<1>5. e \in BOOLEAN /\ (e => r.open = <<>> /\ r.state # "Closed")
  BY <1>4 DEF CmBase, CmTimed
<1>. HIDE DEF e
<1>6. /\ CmBase(d) /\ CmSameRequests(r, d) /\ d.open = r.open /\ cmStreams(d) = cmStreams(r)
      /\ d.drain = r.drain /\ d.state = r.state /\ d.pauses = r.pauses
  BY <1>4, <1>5, CmIdleBase
<1>. HIDE DEF d
<1>7. CmSameRequests(p, d) /\ d.open = a.open /\ cmStreams(d) = cmStreams(p) \ {s} /\ d.drain = q.drain /\ d.state = q.state
  BY <1>3, <1>4, <1>6 DEF CmSameRequests
<1>8. CmNotForgotten(d)
  BY <1>3, <1>7 DEF CmNotForgotten, CmSameRequests
<1>9. ~p.wants \/ p.protocol = "http2"
  BY DEF CmBase, CmSingle
<1>10. p.protocol # "http2" => d.open = <<>> /\ (d.drain = "Closing" => d.state # "Open")
  BY <1>1, <1>7, <1>8, <1>9 DEF CmNotForgotten, CmSameRequests
<1>11. p.protocol # "http2" /\ d.state = "Open" => d.pauses = 0
  BY <1>3, <1>4, <1>6, <1>7, <1>10 DEF CmSameRequests
<1>12. CmRead(d)
  <2>. SUFFICES ASSUME d.protocol # "http2", NEW o \in 1..d.used, o \notin d.remote, o \notin cmStreams(d) PROVE d.state # "Open"
    BY DEF CmRead
  <2>1. p.protocol # "http2" /\ o \in 1..p.used /\ o \notin p.remote
    BY <1>7 DEF CmSameRequests
  <2>2. CASE o = s
    BY <2>1, <2>2, <1>3, <1>7, <1>10
  <2>3. CASE o # s
    BY <2>1, <2>3, <1>3, <1>7 DEF CmRead
  <2>. QED
    BY <2>2, <2>3
<1>. QED
  BY <1>0, <1>3, <1>6, <1>7, <1>8, <1>10, <1>11, <1>12

\* encodeHeaders(): the stream is still there, so nothing is closed yet.
LEMMA CmEncodeHeadersBase ==
    ASSUME NEW p, CmBase(p), NEW s \in cmStreams(p), NEW drainClose \in BOOLEAN
    PROVE  LET d == cmEncodeHeaders(p, s, drainClose)
           IN  /\ CmBase(d) /\ CmSameRequests(p, d) /\ d.open = p.open /\ cmStreams(d) = cmStreams(p)
               /\ d.state = p.state /\ d.pauses = p.pauses /\ p.open # <<>> /\ p.state # "Closed"
<1>. DEFINE q == IF p.drain = "NotDraining" /\ drainClose THEN cmStartDrain(p) ELSE p
            r == IF q.drain = "NotDraining" /\ s \in q.closes THEN [q EXCEPT !.drain = "Closing"] ELSE q
            d == IF s \notin r.remote /\ r.protocol # "http2" THEN [r EXCEPT !.drain = "Closing"] ELSE r
            Good(x) == /\ CmBase(x) /\ CmSameRequests(p, x) /\ x.open = p.open /\ cmStreams(x) = cmStreams(p)
                       /\ x.state = p.state /\ x.pauses = p.pauses
<1>0. d = cmEncodeHeaders(p, s, drainClose)
  BY DEF cmEncodeHeaders
<1>1. p \in CmState
  BY DEF CmBase
<1>2. p.open # <<>>
  BY <1>1, CmStreamsOf
<1>3. p.state # "Closed"
  BY <1>2 DEF CmBase, CmTimed
<1>4. Good(p)
  BY DEF CmSameRequests
<1>5. Good(q)
  <2>1. CASE p.drain = "NotDraining" /\ drainClose
    <3>1. q = [p EXCEPT !.drain = "Draining", !.drainArmed = TRUE]
      BY <2>1 DEF cmStartDrain
    <3>. HIDE DEF q
    <3>2. q \in CmState
      BY <1>1, <3>1 DEF CmState
    <3>3. /\ CmSameRequests(p, q) /\ q.state = p.state /\ q.open = p.open /\ q.drain = "Draining" /\ q.pauses = p.pauses
          /\ q.idleArmed = p.idleArmed /\ q.drainArmed /\ q.destroyed = p.destroyed
      BY <1>1, <3>1 DEF CmState, CmSameRequests
    <3>4. cmStreams(q) = cmStreams(p)
      BY <3>3 DEF cmStreams
    <3>5. CmListed(q)
      BY <3>3, <3>4 DEF CmBase, CmListed, CmSameRequests
    <3>6. CmTimed(q)
      BY <3>3, <1>3 DEF CmBase, CmTimed
    <3>7. CmSingle(q)
      BY <3>3 DEF CmBase, CmSingle, CmSameRequests
    <3>. QED
      BY <3>2, <3>3, <3>4, <3>5, <3>6, <3>7 DEF CmBase
  <2>2. CASE ~(p.drain = "NotDraining" /\ drainClose)
    <3>1. q = p
      BY <2>2
    <3>. QED
      BY <3>1, <1>4
  <2>. QED
    BY <2>1, <2>2
<1>. HIDE DEF q
<1>6. ASSUME NEW x, Good(x) PROVE Good([x EXCEPT !.drain = "Closing"])
  BY <1>6, CmDrainBase DEF CmSameRequests
<1>. HIDE DEF Good
<1>7. Good(r)
  <2>1. r = q \/ r = [q EXCEPT !.drain = "Closing"]
    OBVIOUS
  <2>. QED
    BY <2>1, <1>5, <1>6
<1>. HIDE DEF r
<1>8. Good(d)
  <2>1. d = r \/ d = [r EXCEPT !.drain = "Closing"]
    OBVIOUS
  <2>. QED
    BY <2>1, <1>7, <1>6
<1>. HIDE DEF d
<1>. QED
  BY <1>0, <1>2, <1>3, <1>8 DEF Good

\* newStream(): a stream in front of the list.
CmWith(p, s, remote, closes) ==
    [p EXCEPT !.used = s, !.open = <<s>> \o @, !.idleArmed = FALSE, !.remote = remote, !.closes = closes]

CmListedNew(p, k, R, x) ==
    /\ CmBase(x) /\ x.protocol = p.protocol /\ x.used = k /\ x.remote = R /\ x.data = p.data
    /\ x.inData = p.inData /\ x.state = "Open" /\ x.drain = p.drain /\ x.pauses = p.pauses /\ x.wants = p.wants
    /\ cmStreams(x) = cmStreams(p) \cup {k} /\ x.open # <<>> /\ Head(x.open) = k /\ k \notin p.remote

LEMMA CmListBase ==
    ASSUME NEW p, CmBase(p), p.state = "Open", p.protocol \in {"http1", "http2"}, p.protocol # "http2" => p.open = <<>>,
           p.used < CmMaxStreams, NEW R, NEW C \in SUBSET Nat,
           NEW k, k = p.used + 1, R = p.remote \/ R = p.remote \cup {k}
    PROVE  CmListedNew(p, k, R, CmWith(p, k, R, C))
<1>. DEFINE o == <<k>> \o p.open
            x == CmWith(p, k, R, C)
<1>1. p \in CmState /\ p.open \in Seq(Nat) /\ H1Distinct(p.open) /\ p.used \in Nat /\ k \in Nat
  BY DEF CmBase, CmState, CmListed
<1>2. cmStreams(p) \subseteq 1..p.used /\ p.remote \subseteq 1..p.used /\ k \notin cmStreams(p) /\ k \notin p.remote
  BY <1>1 DEF CmBase, CmListed
<1>3. cmStreams(p) = H1Elements(p.open)
  BY <1>1, CmStreamsOf
<1>4. o \in Seq(Nat) /\ Len(o) = Len(p.open) + 1 /\ H1Distinct(o) /\ H1Elements(o) = H1Elements(p.open) \cup {k}
  BY <1>1, <1>2, <1>3, H1ConsElements
<1>5. o # <<>> /\ Head(o) = k
  BY <1>1
<1>6. R \in SUBSET Nat /\ R \subseteq 1..k
  BY <1>1, <1>2
<1>. HIDE DEF o
<1>0. x = [p EXCEPT !.used = k, !.open = o, !.idleArmed = FALSE, !.remote = R, !.closes = C]
  BY DEF o, CmWith
<1>. HIDE DEF x
<1>7. x \in CmState
  BY <1>0, <1>1, <1>4, <1>6 DEF CmState
<1>8. /\ x.protocol = p.protocol /\ x.used = k /\ x.remote = R /\ x.data = p.data /\ x.open = o /\ x.destroyed = p.destroyed
      /\ x.inData = p.inData /\ x.state = "Open" /\ x.drain = p.drain /\ x.pauses = p.pauses /\ x.wants = p.wants
      /\ ~x.idleArmed /\ x.drainArmed = p.drainArmed
  BY <1>0, <1>1 DEF CmState
<1>9. cmStreams(x) = cmStreams(p) \cup {k}
  BY <1>3, <1>4, <1>7, <1>8, CmStreamsOf
<1>10. CmListed(x)
  <2>1. ASSUME NEW i \in 1..CmMaxStreams PROVE x.destroyed[i] = IF i <= x.used /\ i \notin cmStreams(x) THEN 1 ELSE 0
    <3>1. p.destroyed[i] = IF i <= p.used /\ i \notin cmStreams(p) THEN 1 ELSE 0
      BY DEF CmBase, CmListed
    <3>. QED
      BY <3>1, <1>1, <1>2, <1>8, <1>9
  <2>2. x.used <= CmMaxStreams /\ cmStreams(x) \subseteq 1..x.used
    BY <1>1, <1>2, <1>8, <1>9, CmAssumption
  <2>. QED
    BY <2>1, <2>2, <1>4, <1>6, <1>8 DEF CmListed
<1>11. CmTimed(x)
  BY <1>8 DEF CmBase, CmTimed
<1>12. CmSingle(x)
  <2>1. p.protocol # "http2" => Len(p.open) = 0
    BY <1>1, CmStreamsOf
  <2>2. p.protocol # "http2" => Len(o) <= 1
    BY <2>1, <1>4
  <2>3. x.protocol # "none" /\ (x.protocol # "http2" => ~x.wants)
    BY <1>8 DEF CmBase, CmSingle
  <2>. QED
    BY <2>2, <2>3, <1>8, Zenon DEF CmSingle
<1>. QED
  BY <1>2, <1>5, <1>7, <1>8, <1>9, <1>10, <1>11, <1>12 DEF CmBase, CmListedNew, x, o

\* What reads and data do not touch.
CmAgree(p, d) ==
    /\ d.protocol = p.protocol /\ d.used = p.used /\ d.remote = p.remote /\ d.wants = p.wants
    /\ d.open = p.open /\ d.destroyed = p.destroyed /\ d.state = p.state /\ d.drain = p.drain
    /\ d.idleArmed = p.idleArmed /\ d.drainArmed = p.drainArmed

LEMMA CmAgreeBase ==
    ASSUME NEW p, CmBase(p), NEW d \in CmState, CmAgree(p, d)
    PROVE  /\ CmBase(d) /\ cmStreams(d) = cmStreams(p)
           /\ CmRead(p) => CmRead(d)
           /\ CmNotForgotten(p) => CmNotForgotten(d)
<1>1. cmStreams(d) = cmStreams(p)
  BY DEF cmStreams, CmAgree
<1>2. CmListed(d)
  BY <1>1 DEF CmBase, CmListed, CmAgree
<1>3. CmTimed(d)
  BY DEF CmBase, CmTimed, CmAgree
<1>4. CmSingle(d)
  BY DEF CmBase, CmSingle, CmAgree
<1>5. CmRead(p) => CmRead(d)
  BY <1>1 DEF CmRead, CmAgree
<1>6. CmNotForgotten(p) => CmNotForgotten(d)
  BY DEF CmNotForgotten, CmAgree
<1>. QED
  BY <1>1, <1>2, <1>3, <1>4, <1>5, <1>6 DEF CmBase

\* What the codec dispatches keeps: p before, d after.
CmDispatched(p, item, d) ==
    /\ CmBase(d) /\ CmRead(d)
    /\ d.protocol = p.protocol /\ d.data = p.data /\ d.inData = p.inData
    /\ p.protocol # "http2" /\ d.state = "Open" => d.pauses = 0
    /\ p.protocol # "http2" /\ item = "headers" /\ d.open # <<>> => Head(d.open) \notin d.remote

LEMMA CmNewStreamBase ==
    ASSUME NEW p, CmBase(p), CmRead(p), p.state = "Open", p.protocol \in {"http1", "http2"},
           p.protocol # "http2" => p.open = <<>> /\ p.pauses = 0, p.used < CmMaxStreams,
           NEW item \in {"complete", "headers"}, NEW answer \in BOOLEAN, NEW close \in BOOLEAN,
           NEW drainClose \in BOOLEAN, NEW buffered \in BOOLEAN
    PROVE  CmDispatched(p, item, cmNewStream(p, item, answer, close, drainClose, buffered))
<1>. DEFINE s == p.used + 1
            remote == IF item = "complete" THEN p.remote \cup {s} ELSE p.remote
            closes == IF close /\ p.protocol # "http2" THEN p.closes \cup {s} ELSE p.closes
            q == CmWith(p, s, remote, closes)
            h == cmEncodeHeaders(q, s, drainClose)
            e == cmEndStream(h, s, buffered)
            d == cmNewStream(p, item, answer, close, drainClose, buffered)
<1>1. d = IF answer THEN e ELSE q
  BY DEF cmNewStream, CmWith
<1>2. p \in CmState /\ p.used \in Nat /\ p.closes \in SUBSET Nat
  BY DEF CmBase, CmState
<1>3. closes \in SUBSET Nat /\ (remote = p.remote \/ remote = p.remote \cup {p.used + 1})
  BY <1>2
<1>4. item = "headers" => remote = p.remote
  OBVIOUS
<1>. HIDE DEF remote, closes
<1>5. /\ CmBase(q) /\ q.protocol = p.protocol /\ q.used = s /\ q.remote = remote /\ q.data = p.data
      /\ q.inData = p.inData /\ q.state = "Open" /\ q.pauses = p.pauses
      /\ cmStreams(q) = cmStreams(p) \cup {s} /\ q.open # <<>> /\ Head(q.open) = s /\ s \notin p.remote
  <2>1. p.protocol # "http2" => p.open = <<>>
    OBVIOUS
  <2>2. q = CmWith(p, s, remote, closes)
    OBVIOUS
  <2>3. s = p.used + 1
    OBVIOUS
  <2>4. closes \in SUBSET Nat /\ (remote = p.remote \/ remote = p.remote \cup {s})
    BY <1>3
  <2>. HIDE DEF s, q
  <2>5. CmListedNew(p, s, remote, CmWith(p, s, remote, closes))
    BY <2>1, <2>3, <2>4, CmListBase
  <2>. QED
    BY <2>2, <2>5 DEF CmListedNew
<1>. HIDE DEF q, d
<1>6. CmRead(q)
  <2>. SUFFICES ASSUME q.protocol # "http2", NEW o \in 1..q.used, o \notin q.remote, o \notin cmStreams(q) PROVE q.state # "Open"
    BY DEF CmRead
  <2>1. o \in 1..p.used /\ o \notin p.remote /\ o \notin cmStreams(p)
    BY <1>2, <1>3, <1>5
  <2>. QED
    BY <2>1, <1>5 DEF CmRead
<1>7. CASE ~answer
  BY <1>1, <1>4, <1>5, <1>6, <1>7 DEF CmDispatched, d
<1>8. CASE answer
  <2>1. /\ CmBase(h) /\ CmSameRequests(q, h) /\ cmStreams(h) = cmStreams(q) /\ h.state = q.state /\ h.pauses = q.pauses
    <3>1. s \in cmStreams(q)
      BY <1>5
    <3>. HIDE DEF s
    <3>. QED
      BY <1>5, <3>1, CmEncodeHeadersBase
  <2>2. s \in cmStreams(h) /\ CmRead(h)
    BY <1>5, <1>6, <2>1 DEF CmRead, CmSameRequests
  <2>. HIDE DEF h
  <2>3. /\ CmBase(e) /\ CmRead(e) /\ CmSameRequests(h, e)
        /\ (h.protocol # "http2" => e.open = <<>> /\ (e.state = "Open" => e.pauses = 0))
    BY <2>1, <2>2, CmEndStreamBase
  <2>. HIDE DEF e
  <2>4. e.protocol = p.protocol /\ e.data = p.data /\ e.inData = p.inData /\ h.protocol = p.protocol
    BY <1>5, <2>1, <2>3 DEF CmSameRequests
  <2>. QED
    BY <1>1, <1>8, <2>3, <2>4 DEF CmDispatched, d
<1>. QED
  BY <1>7, <1>8 DEF d

LEMMA CmHead ==
    ASSUME NEW p \in CmState, p.open # <<>>
    PROVE  Head(p.open) \in cmStreams(p)
<1>1. p.open \in Seq(Nat)
  BY DEF CmState
<1>2. 1 \in DOMAIN p.open /\ Head(p.open) = p.open[1]
  BY <1>1
<1>. QED
  BY <1>2 DEF cmStreams

LEMMA CmDispatchBase ==
    ASSUME NEW p, CmBase(p), CmRead(p), p.state = "Open", p.protocol \in {"http1", "http2"},
           p.protocol # "http2" => p.pauses = 0,
           NEW item \in CmItems, item # "error", cmMayCome(p, item), NEW answer \in BOOLEAN, NEW close \in BOOLEAN,
           NEW drainClose \in BOOLEAN, NEW buffered \in BOOLEAN
    PROVE  CmDispatched(p, item, cmDispatch(p, item, answer, close, drainClose, buffered))
<1>. DEFINE d == cmDispatch(p, item, answer, close, drainClose, buffered)
<1>1. p \in CmState
  BY DEF CmBase
<1>2. CASE item \in {"complete", "headers"}
  <2>1. d = cmNewStream(p, item, answer, close, drainClose, buffered)
    BY <1>2 DEF cmDispatch
  <2>2. p.used < CmMaxStreams /\ (p.protocol # "http2" => p.open = <<>>)
    BY <1>2 DEF cmMayCome
  <2>. QED
    BY <1>2, <2>1, <2>2, CmNewStreamBase
<1>3. CASE item = "end"
  <2>1. d = [p EXCEPT !.remote = @ \cup {Head(p.open)}]
    BY <1>3 DEF cmDispatch
  <2>2. p.open # <<>>
    BY <1>3 DEF cmMayCome
  <2>3. Head(p.open) \in cmStreams(p)
    BY <1>1, <2>2, CmHead
  <2>4. Head(p.open) \in 1..p.used /\ p.used \in Nat
    BY <1>1, <2>3 DEF CmBase, CmListed, CmState
  <2>. DEFINE x == Head(p.open)
  <2>. HIDE DEF d, x
  <2>5. d = [p EXCEPT !.remote = p.remote \cup {x}] /\ x \in 1..p.used /\ x \in Nat
    BY <1>1, <2>1, <2>4 DEF x
  <2>6. d \in CmState
    BY <1>1, <2>5 DEF CmState
  <2>7. /\ d.protocol = p.protocol /\ d.used = p.used /\ d.remote = p.remote \cup {x} /\ d.wants = p.wants
        /\ d.open = p.open /\ d.destroyed = p.destroyed /\ d.state = p.state /\ d.drain = p.drain
        /\ d.idleArmed = p.idleArmed /\ d.drainArmed = p.drainArmed /\ d.data = p.data /\ d.inData = p.inData /\ d.pauses = p.pauses
    BY <1>1, <2>5 DEF CmState
  <2>8. cmStreams(d) = cmStreams(p)
    BY <2>7 DEF cmStreams
  <2>9. CmListed(d)
    BY <2>5, <2>7, <2>8 DEF CmBase, CmListed
  <2>10. CmTimed(d)
    BY <2>7 DEF CmBase, CmTimed
  <2>11. CmSingle(d)
    BY <2>7 DEF CmBase, CmSingle
  <2>12. CmRead(d)
    BY <2>7, <2>8 DEF CmRead
  <2>. QED
    BY <1>3, <2>6, <2>7, <2>9, <2>10, <2>11, <2>12 DEF CmBase, CmDispatched, d
<1>4. CASE item = "reset"
  <2>1. d = cmDestroy(p, Head(p.open))
    BY <1>4 DEF cmDispatch
  <2>2. p.open # <<>> /\ p.protocol = "http2"
    BY <1>4 DEF cmMayCome
  <2>3. Head(p.open) \in cmStreams(p)
    BY <1>1, <2>2, CmHead
  <2>. HIDE DEF d
  <2>4. CmBase(d) /\ CmSameRequests(p, d)
    BY <2>1, <2>3, CmDestroyBase
  <2>5. CmRead(d)
    BY <2>2, <2>4 DEF CmRead, CmSameRequests
  <2>. QED
    BY <2>2, <2>4, <2>5 DEF CmDispatched, CmSameRequests, d
<1>. QED
  BY <1>2, <1>3, <1>4 DEF CmItems

\* onData(), one item.  The list is not empty where reads are paused, and that is a
\* request which has ended: the loop does not go on then.
LEMMA CmDispatchOK ==
    ASSUME CmOK(cm), NEW answer \in BOOLEAN, NEW close \in BOOLEAN, NEW drainClose \in BOOLEAN, NEW buffered \in BOOLEAN,
           CmDispatch(answer, close, drainClose, buffered)
    PROVE  CmOK(cm')
<1>. DEFINE item == Head(cm.data)
            p == [cm EXCEPT !.data = Tail(@)]
            y == cmDispatch(p, item, answer, close, drainClose, buffered)
            again == y.state = "Open" /\ y.data # <<>> /\ (y.protocol = "http2" \/ item = "headers" \/ y.open = <<>>)
            c == IF y.protocol = "http2" /\ again THEN y ELSE cmCheckForDeferredClose(y, buffered)
            paused == c.protocol # "http2" /\ c.open # <<>> /\ Head(c.open) \in c.remote
            n == IF paused THEN c.pauses + 1 ELSE c.pauses
            goes == again /\ c.state = "Open"
            q == [c EXCEPT !.pauses = n, !.inData = goes]
            r == IF q.state = "Open" THEN q ELSE [q EXCEPT !.data = <<>>, !.inData = FALSE]
<1>1. cm.inData /\ cm.data # <<>> /\ item # "error" /\ cmMayCome(cm, item) /\ cm' = r
  BY DEF CmDispatch
<1>2. cm \in CmState /\ CmBase(cm) /\ CmRead(cm) /\ CmPaused(cm) /\ cm.state = "Open" /\ cm.protocol \in {"http1", "http2"}
  BY <1>1 DEF CmOK, CmBase, CmState
<1>3. item \in CmItems /\ Tail(cm.data) \in CmQueues
  <2>1. cm.data \in Seq(CmItems)
    BY <1>2 DEF CmState, CmQueues
  <2>. QED
    BY <2>1, <1>1 DEF CmQueues
<1>4. p \in CmState /\ CmAgree(cm, p) /\ p.inData /\ p.pauses = cm.pauses
  BY <1>1, <1>2, <1>3 DEF CmState, CmAgree
<1>5. cmMayCome(p, item)
  BY <1>1, <1>4 DEF cmMayCome, CmAgree
<1>. HIDE DEF r, p, item
<1>6. CmBase(p) /\ CmRead(p) /\ p.state = "Open" /\ p.protocol \in {"http1", "http2"} /\ (p.protocol # "http2" => p.pauses = 0)
  BY <1>1, <1>2, <1>4, CmAgreeBase DEF CmAgree, CmPaused
<1>7. CmDispatched(p, item, y)
  BY <1>1, <1>3, <1>5, <1>6, CmDispatchBase
<1>. HIDE DEF y
<1>8. /\ CmBase(y) /\ CmRead(y) /\ y.protocol = p.protocol
      /\ p.protocol # "http2" /\ y.state = "Open" => y.pauses = 0
      /\ p.protocol # "http2" /\ item = "headers" /\ y.open # <<>> => Head(y.open) \notin y.remote
  BY <1>7 DEF CmDispatched
<1>9. /\ CmBase(c) /\ c.protocol = y.protocol /\ c.used = y.used /\ c.remote = y.remote /\ c.open = y.open
      /\ cmStreams(c) = cmStreams(y) /\ c.pauses = y.pauses /\ (c.state = "Open" => y.state = "Open")
      /\ (~goes => CmNotForgotten(c))
  <2>1. CASE y.protocol = "http2" /\ again
    <3>1. c = y /\ goes
      BY <2>1
    <3>. QED
      BY <3>1, <1>8
  <2>2. CASE ~(y.protocol = "http2" /\ again)
    <3>1. c = cmCheckForDeferredClose(y, buffered)
      BY <2>2
    <3>. HIDE DEF c
    <3>. QED
      BY <3>1, <1>8, CmCheckBase DEF CmSameRequests
  <2>. QED
    BY <2>1, <2>2
<1>10. CmRead(c)
  BY <1>8, <1>9 DEF CmRead
<1>11. paused => ~goes
  BY <1>8, <1>9
<1>12. c \in CmState /\ n \in Nat /\ goes \in BOOLEAN /\ (goes => c.state = "Open") /\ (~paused => n = c.pauses)
  BY <1>9 DEF CmBase, CmState
<1>13. p.protocol # "http2" /\ c.state = "Open" /\ (goes \/ c.open = <<>>) => n = 0
  BY <1>8, <1>9, <1>11, <1>12
<1>. HIDE DEF c, n, goes
<1>14. r = [c EXCEPT !.pauses = n, !.inData = goes, !.data = IF c.state = "Open" THEN c.data ELSE <<>>]
  BY <1>12 DEF r, CmState
<1>15. r \in CmState /\ CmAgree(c, r) /\ r.pauses = n /\ r.inData = goes
  BY <1>12, <1>14, CmEmpty DEF CmState, CmAgree
<1>16. CmBase(r) /\ CmRead(r) /\ (~r.inData => CmNotForgotten(r))
  BY <1>9, <1>10, <1>15, CmAgreeBase
<1>17. CmPaused(r)
  BY <1>8, <1>9, <1>13, <1>15 DEF CmPaused, CmAgree
<1>18. r.protocol # "none" /\ (r.inData => r.state = "Open")
  BY <1>6, <1>8, <1>9, <1>12, <1>15 DEF CmAgree
<1>. QED
  BY <1>1, <1>16, <1>17, <1>18 DEF CmOK

\* The list is emptied and the connection closes.
LEMMA CmProtocolErrorOK ==
    ASSUME CmOK(cm), NEW buffered \in BOOLEAN, CmProtocolError(buffered)
    PROVE  CmOK(cm')
<1>. DEFINE m == [s \in 1..CmMaxStreams |-> cm.destroyed[s] + IF s \in cmStreams(cm) THEN 1 ELSE 0]
            p == [cm EXCEPT !.open = <<>>, !.data = <<>>, !.inData = FALSE, !.destroyed = m]
<1>1. cm' = cmClose(p, buffered) /\ cm.inData
  BY DEF CmProtocolError
<1>2. CmBase(cm) /\ cm \in CmState /\ cm.destroyed \in CmDestroyedMap /\ cm.state = "Open" /\ CmRead(cm) /\ CmPaused(cm) /\ cm.protocol # "none"
  BY <1>1 DEF CmOK, CmBase, CmState
<1>3. m \in CmDestroyedMap /\ \A s \in 1..CmMaxStreams : m[s] = cm.destroyed[s] + IF s \in cmStreams(cm) THEN 1 ELSE 0
  <2>1. m \in CmDestroyedMap
    BY <1>2, CmCountUpAll
  <2>. QED
    BY <2>1
<1>. HIDE DEF m
<1>4. p \in CmState
  BY <1>2, <1>3, CmEmpty DEF CmState
<1>5. /\ p.open = <<>> /\ p.data = <<>> /\ ~p.inData /\ p.destroyed = m /\ p.protocol = cm.protocol /\ p.used = cm.used
      /\ p.remote = cm.remote /\ p.wants = cm.wants /\ p.state = "Open" /\ p.drain = cm.drain /\ p.idleArmed = cm.idleArmed
      /\ p.drainArmed = cm.drainArmed
  BY <1>2 DEF CmState
<1>. HIDE DEF p
<1>6. cmStreams(p) = {}
  BY <1>4, <1>5, CmStreamsOf
<1>7. cm.used \in Nat /\ cm.used <= CmMaxStreams /\ cmStreams(cm) \subseteq 1..cm.used
  BY <1>2 DEF CmBase, CmListed, CmState
<1>8. CmListed(p)
  <2>1. ASSUME NEW o \in 1..CmMaxStreams PROVE p.destroyed[o] = IF o <= p.used /\ o \notin cmStreams(p) THEN 1 ELSE 0
    <3>1. p.destroyed[o] = cm.destroyed[o] + IF o \in cmStreams(cm) THEN 1 ELSE 0
      BY <1>3, <1>5
    <3>2. cm.destroyed[o] = IF o <= cm.used /\ o \notin cmStreams(cm) THEN 1 ELSE 0
      BY <1>2 DEF CmBase, CmListed
    <3>3. o \in cmStreams(cm) => o <= cm.used
      BY <1>7
    <3>. QED
      BY <3>1, <3>2, <3>3, <1>5, <1>6
  <2>. QED
    BY <2>1, <1>2, <1>5, <1>6, <1>7, CmEmpty DEF CmBase, CmListed
<1>9. CmTimed(p)
  BY <1>2, <1>5 DEF CmBase, CmTimed
<1>10. CmSingle(p)
  BY <1>2, <1>5, CmEmpty DEF CmBase, CmSingle
<1>11. CmBase(p)
  BY <1>4, <1>8, <1>9, <1>10 DEF CmBase
<1>. DEFINE z == cmClose(p, buffered)
<1>12. CmBase(z) /\ CmSameRequests(p, z) /\ z.state # "Open"
  BY <1>11, CmCloseBase
<1>. HIDE DEF z
<1>13. ~z.inData /\ z.protocol # "none"
  BY <1>2, <1>5, <1>12 DEF CmSameRequests
<1>. QED
  BY <1>1, <1>12, <1>13 DEF CmOK, CmRead, CmPaused, CmNotForgotten, z

\* Timers and the pauses of reads.
LEMMA CmEncodeHeadersOK ==
    ASSUME CmOK(cm), NEW s, NEW b \in BOOLEAN, CmEncodeHeaders(s, b)
    PROVE  CmOK(cm')
<1>. DEFINE z == cmEncodeHeaders(cm, s, b)
<1>1. ~cm.inData /\ s \in cmStreams(cm) /\ cm' = z
  BY DEF CmEncodeHeaders
<1>2. CmBase(cm) /\ CmRead(cm)
  BY DEF CmOK
<1>3. /\ CmBase(z) /\ CmSameRequests(cm, z) /\ z.open = cm.open /\ cmStreams(z) = cmStreams(cm)
      /\ z.state = cm.state /\ z.pauses = cm.pauses /\ cm.open # <<>>
  BY <1>1, <1>2, CmEncodeHeadersBase
<1>. HIDE DEF z
<1>4. CmRead(z)
  BY <1>2, <1>3 DEF CmRead, CmSameRequests
<1>5. CmPaused(z) /\ CmNotForgotten(z) /\ ~z.inData
  BY <1>1, <1>3 DEF CmPaused, CmNotForgotten, CmSameRequests
<1>6. z.protocol = "none" => z.data = <<>>
  BY <1>3 DEF CmOK, CmSameRequests
<1>. QED
  BY <1>1, <1>3, <1>4, <1>5, <1>6 DEF CmOK

LEMMA CmEndStreamOK ==
    ASSUME CmOK(cm), NEW s, NEW b \in BOOLEAN, CmEndStream(s, b)
    PROVE  CmOK(cm')
<1>. DEFINE z == cmEndStream(cm, s, b)
<1>1. ~cm.inData /\ s \in cmStreams(cm) /\ cm' = z
  BY DEF CmEndStream
<1>2. CmBase(cm) /\ CmRead(cm)
  BY DEF CmOK
<1>3. /\ CmBase(z) /\ CmRead(z) /\ CmNotForgotten(z) /\ CmSameRequests(cm, z)
      /\ (cm.protocol # "http2" => z.open = <<>> /\ (z.state = "Open" => z.pauses = 0))
  BY <1>1, <1>2, CmEndStreamBase
<1>. HIDE DEF z
<1>5. CmPaused(z) /\ ~z.inData
  BY <1>1, <1>3 DEF CmPaused, CmSameRequests
<1>6. z.protocol = "none" => z.data = <<>>
  BY <1>3 DEF CmOK, CmSameRequests
<1>. QED
  BY <1>1, <1>3, <1>5, <1>6 DEF CmOK

\* A close outside of onData().
LEMMA CmClosingOK ==
    ASSUME NEW p, CmBase(p), NEW z, CmBase(z), CmSameRequests(p, z), z.state # "Open", ~p.inData,
           p.protocol = "none" => p.data = <<>>
    PROVE  CmOK(z)
  BY DEF CmOK, CmRead, CmPaused, CmNotForgotten, CmSameRequests

\* checkForDeferredClose() at the end of a callback.
LEMMA CmCheckOK ==
    ASSUME NEW p, CmBase(p), CmRead(p), CmPaused(p), ~p.inData, p.protocol = "none" => p.data = <<>>, NEW b \in BOOLEAN
    PROVE  CmOK(cmCheckForDeferredClose(p, b))
<1>. DEFINE z == cmCheckForDeferredClose(p, b)
<1>1. /\ CmBase(z) /\ CmNotForgotten(z) /\ CmSameRequests(p, z)
      /\ z.open = p.open /\ cmStreams(z) = cmStreams(p) /\ z.pauses = p.pauses
      /\ z.state = "Open" => p.state = "Open"
  BY CmCheckBase
<1>. HIDE DEF z
<1>2. CmRead(z)
  BY <1>1 DEF CmRead, CmSameRequests
<1>3. CmPaused(z)
  BY <1>1 DEF CmPaused, CmSameRequests
<1>. QED
  BY <1>1, <1>2, <1>3 DEF CmOK, CmSameRequests, z

LEMMA CmWantsOK ==
    ASSUME CmOK(cm), CmWants
    PROVE  CmOK(cm')
<1>1. cm.protocol = "http2" /\ cm.state = "Open" /\ ~cm.inData /\ cm \in CmState /\ CmBase(cm)
  BY DEF CmWants, CmOK, CmBase
<1>2. ASSUME NEW w \in BOOLEAN
      PROVE  LET z == [cm EXCEPT !.wants = w]
             IN  /\ CmBase(z) /\ CmRead(z) /\ CmPaused(z) /\ ~z.inData /\ z.protocol = "http2" /\ z.open = cm.open
                 /\ z.wants = w
  <2>. DEFINE z == [cm EXCEPT !.wants = w]
  <2>1. z \in CmState
    BY <1>1 DEF CmState
  <2>2. /\ z.protocol = cm.protocol /\ z.used = cm.used /\ z.remote = cm.remote /\ z.wants = w /\ z.inData = cm.inData
        /\ z.open = cm.open /\ z.destroyed = cm.destroyed /\ z.state = cm.state /\ z.drain = cm.drain
        /\ z.idleArmed = cm.idleArmed /\ z.drainArmed = cm.drainArmed
    BY <1>1 DEF CmState
  <2>. HIDE DEF z
  <2>3. cmStreams(z) = cmStreams(cm)
    BY <2>2 DEF cmStreams
  <2>4. CmListed(z)
    BY <1>1, <2>2, <2>3 DEF CmBase, CmListed
  <2>5. CmTimed(z)
    BY <1>1, <2>2 DEF CmBase, CmTimed
  <2>6. CmSingle(z) /\ CmRead(z) /\ CmPaused(z)
    BY <1>1, <2>2 DEF CmSingle, CmRead, CmPaused
  <2>. QED
    BY <1>1, <2>1, <2>2, <2>4, <2>5, <2>6 DEF CmBase, z
<1>3. CASE cm.wants
  <2>. DEFINE y == [cm EXCEPT !.wants = FALSE]
  <2>1. cm' = cmCheckForDeferredClose(y, FALSE)
    BY <1>3 DEF CmWants
  <2>2. CmBase(y) /\ CmRead(y) /\ CmPaused(y) /\ ~y.inData /\ y.protocol = "http2"
    BY <1>2
  <2>. HIDE DEF y
  <2>3. CmOK(cmCheckForDeferredClose(y, FALSE))
    BY <2>2, CmCheckOK
  <2>. QED
    BY <2>1, <2>3
<1>4. CASE ~cm.wants
  <2>. DEFINE w == cm.open # <<>>
              y == [cm EXCEPT !.wants = w]
  <2>1. cm' = y
    BY <1>4 DEF CmWants
  <2>2. w \in BOOLEAN
    OBVIOUS
  <2>3. CmBase(y) /\ CmRead(y) /\ CmPaused(y) /\ ~y.inData /\ y.protocol = "http2" /\ y.open = cm.open /\ y.wants = w
    BY <1>2, <2>2
  <2>. HIDE DEF y
  <2>4. CmNotForgotten(y)
    <3>1. y.open = <<>> => ~w
      BY <2>3
    <3>2. y.state = cm.state /\ y.drain = cm.drain
      BY <1>1 DEF y, CmState
    <3>3. CmNotForgotten(cm)
      BY <1>1 DEF CmOK
    <3>. QED
      BY <3>2, <3>3, <2>3, <1>4 DEF CmNotForgotten
  <2>. QED
    BY <2>1, <2>3, <2>4 DEF CmOK
<1>. QED
  BY <1>1, <1>3, <1>4 DEF CmBase, CmState

LEMMA CmOnIdleTimeoutOK ==
    ASSUME CmOK(cm), NEW b \in BOOLEAN, CmOnIdleTimeout(b)
    PROVE  CmOK(cm')
<1>. DEFINE p == [cm EXCEPT !.idleArmed = FALSE]
<1>1. cm.idleArmed /\ ~cm.inData /\ cm \in CmState /\ CmBase(cm) /\ CmRead(cm) /\ CmPaused(cm) /\ CmNotForgotten(cm)
  BY DEF CmOnIdleTimeout, CmOK, CmBase
<1>2. cm' = IF cm.protocol = "none" THEN cmClose(p, b) ELSE IF cm.drain = "NotDraining" THEN cmStartDrain(p) ELSE p
  BY DEF CmOnIdleTimeout
<1>3. /\ CmBase(p) /\ CmSameRequests(cm, p) /\ p.open = cm.open /\ cmStreams(p) = cmStreams(cm)
      /\ p.drain = cm.drain /\ p.state = cm.state /\ p.pauses = cm.pauses
  BY <1>1, CmIdleBase
<1>4. cm.open = <<>> /\ cm.state # "Closed"
  BY <1>1 DEF CmBase, CmTimed
<1>5. cm.protocol = "none" => cm.data = <<>>
  BY DEF CmOK
<1>6. p \in CmState
  BY <1>3 DEF CmBase
<1>. HIDE DEF p
<1>7. CASE cm.protocol = "none"
  <2>. DEFINE z == cmClose(p, b)
  <2>1. CmBase(z) /\ CmSameRequests(p, z) /\ z.state # "Open"
    BY <1>3, CmCloseBase
  <2>2. ~p.inData /\ (p.protocol = "none" => p.data = <<>>)
    BY <1>1, <1>3, <1>5 DEF CmSameRequests
  <2>. HIDE DEF z
  <2>3. CmOK(z)
    BY <2>1, <2>2, <1>3, CmClosingOK
  <2>. QED
    BY <1>2, <1>7, <2>3 DEF z
<1>8. CASE cm.protocol # "none" /\ cm.drain = "NotDraining"
  <2>. DEFINE z == [p EXCEPT !.drain = "Draining", !.drainArmed = TRUE]
  <2>1. cm' = z
    BY <1>2, <1>3, <1>8 DEF cmStartDrain
  <2>2. z \in CmState
    BY <1>6 DEF CmState
  <2>3. /\ CmSameRequests(p, z) /\ z.state = p.state /\ z.open = p.open /\ z.drain = "Draining" /\ z.pauses = p.pauses
        /\ z.idleArmed = p.idleArmed /\ z.drainArmed /\ z.destroyed = p.destroyed
    BY <1>6 DEF CmState, CmSameRequests
  <2>. HIDE DEF z
  <2>4. cmStreams(z) = cmStreams(p)
    BY <2>3 DEF cmStreams
  <2>5. CmListed(z)
    BY <1>3, <2>3, <2>4 DEF CmBase, CmListed, CmSameRequests
  <2>6. CmTimed(z)
    BY <1>3, <1>4, <2>3 DEF CmBase, CmTimed
  <2>7. CmSingle(z)
    BY <1>3, <2>3 DEF CmBase, CmSingle, CmSameRequests
  <2>8. CmRead(z)
    BY <1>1, <1>3, <2>3, <2>4 DEF CmRead, CmSameRequests
  <2>9. CmPaused(z) /\ ~z.inData /\ z.protocol # "none"
    BY <1>1, <1>3, <1>8, <2>3 DEF CmPaused, CmSameRequests
  <2>10. CmNotForgotten(z)
    BY <2>3 DEF CmNotForgotten
  <2>. QED
    BY <2>1, <2>2, <2>5, <2>6, <2>7, <2>8, <2>9, <2>10 DEF CmOK, CmBase
<1>9. CASE cm.protocol # "none" /\ cm.drain # "NotDraining"
  <2>1. cm' = p
    BY <1>2, <1>9
  <2>2. CmRead(p) /\ CmPaused(p) /\ CmNotForgotten(p) /\ ~p.inData /\ p.protocol # "none"
    BY <1>1, <1>3, <1>9 DEF CmRead, CmPaused, CmNotForgotten, CmSameRequests
  <2>. QED
    BY <2>1, <2>2, <1>3 DEF CmOK
<1>. QED
  BY <1>7, <1>8, <1>9

LEMMA CmOnDrainTimeoutOK ==
    ASSUME CmOK(cm), NEW b \in BOOLEAN, CmOnDrainTimeout(b)
    PROVE  CmOK(cm')
<1>. DEFINE z == [cm EXCEPT !.drainArmed = FALSE, !.drain = "Closing"]
<1>1. ~cm.inData /\ cm \in CmState /\ CmBase(cm) /\ CmRead(cm) /\ CmPaused(cm) /\ cm' = cmCheckForDeferredClose(z, b)
  BY DEF CmOnDrainTimeout, CmOK, CmBase
<1>2. z \in CmState
  BY <1>1 DEF CmState
<1>3. /\ CmSameRequests(cm, z) /\ z.state = cm.state /\ z.open = cm.open /\ z.drain = "Closing" /\ z.pauses = cm.pauses
      /\ z.idleArmed = cm.idleArmed /\ ~z.drainArmed /\ z.destroyed = cm.destroyed
  BY <1>1 DEF CmState, CmSameRequests
<1>. HIDE DEF z
<1>4. cmStreams(z) = cmStreams(cm)
  BY <1>3 DEF cmStreams
<1>5. CmListed(z)
  BY <1>1, <1>3, <1>4 DEF CmBase, CmListed, CmSameRequests
<1>6. CmTimed(z)
  BY <1>1, <1>3 DEF CmBase, CmTimed
<1>7. CmSingle(z)
  BY <1>1, <1>3 DEF CmBase, CmSingle, CmSameRequests
<1>8. CmRead(z)
  BY <1>1, <1>3, <1>4 DEF CmRead, CmSameRequests
<1>9. CmPaused(z) /\ ~z.inData
  BY <1>1, <1>3 DEF CmPaused, CmSameRequests
<1>10. z.protocol = "none" => z.data = <<>>
  BY <1>3 DEF CmOK, CmSameRequests
<1>11. CmBase(z)
  BY <1>2, <1>5, <1>6, <1>7 DEF CmBase
<1>. QED
  BY <1>1, <1>8, <1>9, <1>10, <1>11, CmCheckOK

LEMMA CmClosesOK ==
    ASSUME CmOK(cm), CmCloses
    PROVE  CmOK(cm')
<1>. DEFINE z == cmClosed(cm)
<1>1. ~cm.inData /\ cm' = z /\ CmBase(cm) /\ (cm.protocol = "none" => cm.data = <<>>)
  BY DEF CmCloses, CmOK
<1>2. CmBase(z) /\ CmSameRequests(cm, z) /\ z.state = "Closed"
  BY <1>1, CmClosedBase
<1>. HIDE DEF z
<1>. QED
  BY <1>1, <1>2, CmClosingOK

\* onData(): data arrives, or the rest of it is looked at.
LEMMA CmReadsOK ==
    ASSUME CmOK(cm), CmResume \/ \E protocol \in {"http1", "http2"}, items \in CmData : CmOnData(protocol, items)
    PROVE  CmOK(cm')
<1>1. CmBase(cm) /\ CmRead(cm) /\ CmPaused(cm) /\ cm \in CmState
  BY DEF CmOK, CmBase
<1>2. CASE CmResume
  <2>. DEFINE z == [cm EXCEPT !.inData = TRUE]
  <2>1. cm' = z /\ cm.state = "Open" /\ cm.pauses = 0 /\ cm.data # <<>>
    BY <1>2 DEF CmResume
  <2>2. cm.protocol # "none"
    BY <2>1 DEF CmOK
  <2>3. z \in CmState /\ CmAgree(cm, z) /\ z.inData /\ z.pauses = 0
    BY <1>1, <2>1 DEF CmState, CmAgree
  <2>. HIDE DEF z
  <2>4. CmBase(z) /\ CmRead(z)
    BY <1>1, <2>3, CmAgreeBase
  <2>. QED
    BY <2>1, <2>2, <2>3, <2>4 DEF CmOK, CmPaused, CmAgree
<1>3. CASE \E protocol \in {"http1", "http2"}, items \in CmData : CmOnData(protocol, items)
  <2>1. PICK protocol \in {"http1", "http2"}, items \in CmData : CmOnData(protocol, items)
    BY <1>3
  <2>. DEFINE z == [cm EXCEPT !.protocol = protocol, !.data = items, !.inData = TRUE]
  <2>2. cm' = z /\ cm.state = "Open" /\ cm.pauses = 0 /\ cm.protocol \in {"none", protocol}
    BY <2>1 DEF CmOnData
  <2>3. items \in CmQueues
    <3>1. PICK n \in 1..CmMaxData : items \in [1..n -> CmItems]
      BY DEF CmData
    <3>. QED
      BY <3>1, CmAssumption DEF CmQueues
  <2>4. z \in CmState
    BY <1>1, <2>3 DEF CmState
  <2>5. /\ z.protocol = protocol /\ z.used = cm.used /\ z.remote = cm.remote /\ z.wants = cm.wants /\ z.inData
        /\ z.open = cm.open /\ z.destroyed = cm.destroyed /\ z.state = "Open" /\ z.drain = cm.drain /\ z.pauses = 0
        /\ z.idleArmed = cm.idleArmed /\ z.drainArmed = cm.drainArmed
    BY <1>1, <2>2 DEF CmState
  <2>. HIDE DEF z
  <2>6. cmStreams(z) = cmStreams(cm)
    BY <2>5 DEF cmStreams
  <2>7. CmListed(z)
    BY <1>1, <2>5, <2>6 DEF CmBase, CmListed
  <2>8. CmTimed(z)
    BY <1>1, <2>2, <2>5 DEF CmBase, CmTimed
  <2>9. CmSingle(z)
    BY <1>1, <2>2, <2>5 DEF CmBase, CmSingle
  <2>10. CmRead(z)
    <3>1. CASE cm.protocol = protocol
      BY <1>1, <2>2, <2>5, <2>6, <3>1 DEF CmRead
    <3>2. CASE cm.protocol = "none"
      <4>1. cm.used = 0
        BY <1>1, <3>2 DEF CmBase, CmSingle
      <4>. QED
        BY <4>1, <2>5 DEF CmRead
    <3>. QED
      BY <2>2, <3>1, <3>2
  <2>. QED
    BY <2>2, <2>4, <2>5, <2>7, <2>8, <2>9, <2>10 DEF CmOK, CmBase, CmPaused
<1>. QED
  BY <1>2, <1>3

LEMMA CmInitOK ==
    ASSUME CmInit
    PROVE  CmOK(cm)
<1>1. PICK idle \in BOOLEAN :
      cm = [protocol |-> "none", state |-> "Open", drain |-> "NotDraining", idleTimeout |-> idle,
            idleArmed |-> idle, drainArmed |-> FALSE, pauses |-> 0, data |-> <<>>, inData |-> FALSE,
            open |-> <<>>, remote |-> {}, closes |-> {}, used |-> 0, wants |-> FALSE,
            destroyed |-> [s \in 1..CmMaxStreams |-> 0]]
  BY DEF CmInit
<1>. DEFINE m == [s \in 1..CmMaxStreams |-> 0]
<1>2. m \in CmDestroyedMap /\ \A s \in 1..CmMaxStreams : m[s] = 0
  BY DEF CmDestroyedMap
<1>. HIDE DEF m
<1>3. cm \in CmState /\ cm.destroyed = m
  BY <1>1, <1>2, CmEmpty DEF CmState, m
<1>4. cmStreams(cm) = {} /\ cm.open = <<>>
  BY <1>1, <1>3, CmStreamsOf
<1>5. CmListed(cm)
  <2>1. cm.used = 0 /\ cm.remote = {}
    BY <1>1
  <2>. QED
    BY <2>1, <1>2, <1>3, <1>4, CmEmpty, CmAssumption DEF CmListed
<1>6. CmTimed(cm) /\ CmSingle(cm) /\ CmRead(cm) /\ CmPaused(cm) /\ CmNotForgotten(cm)
  BY <1>1, CmEmpty DEF CmTimed, CmSingle, CmRead, CmPaused, CmNotForgotten
<1>. QED
  BY <1>1, <1>3, <1>5, <1>6 DEF CmOK, CmBase

CmInv == CmOK(cm)

\* The invariant holds in every state of the connection, for any number of requests and
\* any data (ConnectionManagerImpl).
THEOREM CmInvHolds == CmSpec => []CmInv
<1>1. CmInit => CmInv
  BY CmInitOK DEF CmInv
<1>2. CmInv /\ [CmNext]_cm => CmInv'
  <2>. SUFFICES ASSUME CmOK(cm), [CmNext]_cm PROVE CmOK(cm')
    BY DEF CmInv
  <2>1. CASE UNCHANGED cm
    BY <2>1
  <2>2. CASE CmResume \/ \E protocol \in {"http1", "http2"}, items \in CmData : CmOnData(protocol, items)
    BY <2>2, CmReadsOK
  <2>3. CASE \E answer, close, drainClose, buffered \in BOOLEAN : CmDispatch(answer, close, drainClose, buffered)
    BY <2>3, CmDispatchOK
  <2>4. CASE \E b \in BOOLEAN : CmProtocolError(b) \/ CmOnIdleTimeout(b) \/ CmOnDrainTimeout(b)
    BY <2>4, CmProtocolErrorOK, CmOnIdleTimeoutOK, CmOnDrainTimeoutOK
  <2>5. CASE \E s \in 1..CmMaxStreams, b \in BOOLEAN : CmEncodeHeaders(s, b) \/ CmEndStream(s, b)
    BY <2>5, CmEncodeHeadersOK, CmEndStreamOK
  <2>6. CASE CmWants \/ CmCloses
    BY <2>6, CmWantsOK, CmClosesOK
  <2>. QED
    BY <2>1, <2>2, <2>3, <2>4, <2>5, <2>6 DEF CmNext
<1>. QED
  BY <1>1, <1>2, PTL DEF CmSpec

\* CmSound for any number of requests on a connection: each stream is destroyed once,
\* timers and reads follow the streams, a connection that is to close closes, and an
\* HTTP/1.1 connection is not reused after a request that was not read to its end.
THEOREM CmSoundHolds == CmSpec => []CmSound
<1>1. CmInv => CmSound
  <2>. SUFFICES ASSUME CmOK(cm) PROVE CmSound
    BY DEF CmInv
  <2>1. CmListed(cm) /\ CmTimed(cm) /\ CmSingle(cm) /\ CmRead(cm) /\ CmPaused(cm) /\ (~cm.inData => CmNotForgotten(cm))
    BY DEF CmOK, CmBase
  <2>2. \A s \in 1..CmMaxStreams : cm.destroyed[s] = IF s <= cm.used /\ s \notin cmStreams(cm) THEN 1 ELSE 0
    BY <2>1 DEF CmListed
  <2>3. /\ cm.state = "Closed" => cm.open = <<>> /\ ~cm.idleArmed /\ ~cm.drainArmed
        /\ cm.idleArmed => cm.open = <<>>
        /\ cm.drain = "Draining" /\ cm.state # "Closed" => cm.drainArmed
    BY <2>1 DEF CmTimed
  <2>4. cm.drain = "Closing" /\ cm.open = <<>> /\ ~cm.wants /\ ~cm.inData => cm.state # "Open"
    BY <2>1 DEF CmNotForgotten
  <2>5. cm.protocol = "http1" /\ ~cm.inData =>
          /\ Len(cm.open) <= 1
          /\ cm.state = "Open" /\ cm.open = <<>> => cm.pauses = 0
          /\ \A s \in 1..cm.used : s \notin cm.remote /\ s \notin cmStreams(cm) => cm.state # "Open"
    BY <2>1 DEF CmSingle, CmRead, CmPaused
  <2>. QED
    BY <2>2, <2>3, <2>4, <2>5 DEF CmSound
<1>. QED
  BY <1>1, CmInvHolds, PTL
=============================================================================
