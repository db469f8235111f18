------------------------------ MODULE StatsStore ----------------------------
(***************************************************************************)
(* Statistics in two parts: the store and its slots (Ss), then the statsd  *)
(* sink that ships them (St).                                              *)
(***************************************************************************)

(***************************************************************************)
(* The stats store (stats/thread_local_store.cc, stats_impl.cc, and the    *)
(* slots of hot_restart_impl.cc): scopes own their stats, threads cache    *)
(* them by the scope's address, and stats of one name share a slot of a    *)
(* fixed memory.  One stat for each scope, two threads.                    *)
(***************************************************************************)
EXTENDS Integers, Sequences, FiniteSets

CONSTANTS SsAddresses,  \* where scopes are allocated
          SsNames,
          SsSlots,      \* the size of the shared memory
          SsMaxScopes,  \* bound: scopes ever created
          SsMaxAdds,    \* bound: increments
          SsReuse       \* an address may be reused before caches are flushed

VARIABLE ss

SsThreads == {"main", "worker"}
SsStats == 1..SsMaxScopes          \* a CounterImpl, numbered by its scope
SsFree == [name |-> "", refs |-> 0, pending |-> 0, used |-> FALSE]

\* scope[a]: 0 or the scope's number; central[s]: its stat exists; cache[t][a][n]:
\* the stat thread t cached under the final name; held[a]: the stat whose reference
\* the user of the scope keeps; slot[s]: 0 for the heap.
SsInit ==
    ss = [scopes |-> 0, scope |-> [a \in SsAddresses |-> 0], name |-> [s \in SsStats |-> ""],
          central |-> [s \in SsStats |-> FALSE], held |-> [a \in SsAddresses |-> 0],
          cache |-> [t \in SsThreads |-> [a \in SsAddresses |-> [n \in SsNames |-> 0]]],
          slot |-> [s \in SsStats |-> 0], heap |-> [s \in SsStats |-> SsFree],
          shared |-> [i \in 1..SsSlots |-> SsFree],
          posts |-> [t \in SsThreads |-> <<>>],
          adding |-> [t \in SsThreads |-> 0], adds |-> 0,
          added |-> [n \in SsNames |-> 0], flushed |-> [n \in SsNames |-> 0],
          unseen |-> [n \in SsNames |-> 0], overflow |-> 0]

\* Who keeps a CounterImpl alive: its scope, or a thread's cache.
ssAlive(p, s) ==
    \/ p.central[s] /\ \E a \in SsAddresses : p.scope[a] = s
    \/ \E t \in SsThreads, a \in SsAddresses : \E n \in SsNames : p.cache[t][a][n] = s

ssData(p, s) == IF p.slot[s] = 0 THEN p.heap[s] ELSE p.shared[p.slot[s]]
ssPut(p, s, d) == IF p.slot[s] = 0 THEN [p EXCEPT !.heap[s] = d] ELSE [p EXCEPT !.shared[p.slot[s]] = d]


\* HotRestartImpl::alloc(): the slot of the name, or the last unused one; safeAlloc():
\* or the heap.
ssAlloc(p, s) ==
    LET same == {i \in 1..SsSlots : p.shared[i].name = p.name[s]}
        unused == {i \in 1..SsSlots : p.shared[i].refs = 0}
        last == CHOOSE i \in unused : \A j \in unused : j <= i
    IN  IF same # {}
        THEN LET i == CHOOSE i \in same : TRUE
             IN  [p EXCEPT !.slot[s] = i, !.shared[i].refs = @ + 1]
        ELSE IF unused # {}
        THEN [p EXCEPT !.slot[s] = last, !.shared[last] = [SsFree EXCEPT !.name = p.name[s], !.refs = 1]]
        ELSE [p EXCEPT !.heap[s] = [SsFree EXCEPT !.name = p.name[s], !.refs = 1], !.overflow = @ + 1]

\* HotRestartImpl::free(), HeapRawStatDataAllocator::free()
ssFree(p, s) ==
    LET d == ssData(p, s)
        last == d.refs = 1
        q == ssPut(p, s, IF last THEN SsFree ELSE [d EXCEPT !.refs = @ - 1])
    IN  [q EXCEPT !.unseen[p.name[s]] = IF last THEN @ + d.pending ELSE @]

\* The CounterImpls that q no longer keeps alive are destroyed.
ssRelease(p, q) ==
    LET gone == {s \in SsStats : ssAlive(p, s) /\ ~ssAlive(q, s)}
    IN  IF gone = {} THEN q ELSE ssFree(q, CHOOSE s \in gone : TRUE)

----------------------------------------------------------------------------
\* createScope()
SsCreateScope(a, n) ==
    LET s == ss.scopes + 1
    IN  /\ ss.scope[a] = 0 /\ ss.scopes < SsMaxScopes
        /\ SsReuse \/ \A t \in SsThreads : \A i \in DOMAIN ss.posts[t] : ss.posts[t][i].address # a
        /\ ss' = [ss EXCEPT !.scopes = s, !.scope[a] = s, !.name[s] = n]

\* ScopeImpl::counter(): the thread's cache, then the central one, then a new stat.
SsCounter(t, a) ==
    LET s == ss.scope[a]
        n == ss.name[s]
        cached == ss.cache[t][a][n]
        p == IF ss.central[s] THEN ss ELSE [ssAlloc(ss, s) EXCEPT !.central[s] = TRUE]
    IN  /\ s # 0 /\ ss.held[a] = 0
        /\ ss' = IF cached # 0 THEN [ss EXCEPT !.held[a] = cached]
                 ELSE [p EXCEPT !.cache[t][a][n] = s, !.held[a] = s]

\* ~ScopeImpl(), releaseScopeCrossThread(): caches are flushed by a post to the main
\* thread, which posts to every other.
SsDestroyScope(a) ==
    /\ ss.scope[a] # 0 /\ \A t \in SsThreads : ss.adding[t] # ss.held[a] \/ ss.held[a] = 0
    /\ ss' = ssRelease(ss, [ss EXCEPT !.scope[a] = 0, !.held[a] = 0,
                                      !.posts["main"] = Append(@, [all |-> TRUE, address |-> a])])

\* clearScopeFromCaches(), runOnAllThreads()
SsFlushCache(t) ==
    /\ ss.posts[t] # <<>>
    /\ LET m == Head(ss.posts[t])
           p == [ss EXCEPT !.posts[t] = Tail(@)]
           q == [p EXCEPT !.cache[t][m.address] = [n \in SsNames |-> 0]]
       IN  ss' = ssRelease(ss, IF m.all THEN [q EXCEPT !.posts["worker"] = Append(@, [all |-> FALSE, address |-> m.address])]
                               ELSE q)

\* CounterImpl::add(): the increment, and then the flag.
SsAdd(t, a) ==
    LET s == ss.held[a]
    IN  /\ s # 0 /\ ssAlive(ss, s) /\ ss.adds < SsMaxAdds /\ ss.adding[t] = 0
        /\ ss' = [ssPut(ss, s, [ssData(ss, s) EXCEPT !.pending = @ + 1])
                  EXCEPT !.adds = @ + 1, !.adding[t] = s, !.added[ss.name[s]] = @ + 1]

SsAddFlag(t) ==
    LET s == ss.adding[t]
    IN  /\ s # 0 /\ ssAlive(ss, s)
        /\ ss' = [ssPut(ss, s, [ssData(ss, s) EXCEPT !.used = TRUE]) EXCEPT !.adding[t] = 0]

\* counters(): one stat for each name, of any of the scopes that have it.
ssCounters == {s \in SsStats : ss.central[s] /\ \E a \in SsAddresses : ss.scope[a] = s}

\* flushCountersAndGaugesToSinks(), for one counter: it is latched, and its delta goes
\* to the sinks if it is used.
SsFlush(s) ==
    LET d == ssData(ss, s)
        p == ssPut(ss, s, [d EXCEPT !.pending = 0])
    IN  /\ s \in ssCounters /\ d.pending > 0
        /\ ss' = IF d.used THEN [p EXCEPT !.flushed[d.name] = @ + d.pending]
                 ELSE [p EXCEPT !.unseen[d.name] = @ + d.pending]

SsNext ==
    \/ \E a \in SsAddresses : \E n \in SsNames : SsCreateScope(a, n)
    \/ \E a \in SsAddresses : SsDestroyScope(a) \/ \E t \in SsThreads : SsCounter(t, a) \/ SsAdd(t, a)
    \/ \E t \in SsThreads : SsFlushCache(t) \/ SsAddFlag(t)
    \/ \E s \in SsStats : SsFlush(s)

SsSpec == SsInit /\ [][SsNext]_ss

----------------------------------------------------------------------------
(***************************************************************************)
(* Properties.                                                             *)
(***************************************************************************)

\* thread_local_store.h:36-39, "if it happens the cache will be repopulated on the next
\* access": a stat whose reference the user of a scope keeps is not destroyed.
SsReferencesLive == \A a \in SsAddresses : ss.held[a] # 0 => ssAlive(ss, ss.held[a])

\* A slot counts the stats that use it and holds one name; no name has two; the heap
\* is used when memory was full; every increment is flushed, or still pending, or it
\* was dropped with the last stat of its name or by a flush between add()'s two steps.
SsSound ==
    /\ SsReferencesLive
    /\ \A i \in 1..SsSlots :
          LET users == {s \in SsStats : ssAlive(ss, s) /\ ss.slot[s] = i}
          IN  /\ ss.shared[i].refs = Cardinality(users)
              /\ \A s \in users : ss.name[s] = ss.shared[i].name
              /\ \A j \in 1..SsSlots : ss.shared[i].name = ss.shared[j].name => i = j \/ ss.shared[i].refs = 0
    /\ \A n \in SsNames :
          LET slots == {i \in 1..SsSlots : ss.shared[i].name = n}
              heaps == {s \in SsStats : ss.heap[s].name = n /\ ss.heap[s].pending > 0}
              pending == IF slots = {} THEN 0 ELSE ss.shared[CHOOSE i \in slots : TRUE].pending
          IN  Cardinality(heaps) <= 1 =>
                 ss.added[n] = ss.flushed[n] + ss.unseen[n] + pending
                               + (IF heaps = {} THEN 0 ELSE ss.heap[CHOOSE s \in heaps : TRUE].pending)

-----------------------------------------------------------------------------
(***************************************************************************)
(* The TCP statsd sink of one thread (stats/statsd.cc): a flush fills      *)
(* slices of a buffer and writes it to a connection of the statsd cluster, *)
(* which may be full, missing or closed.                                   *)
(***************************************************************************)

CONSTANTS StSlice,      \* stats that fit into a slice of FLUSH_SLICE_SIZE_BYTES
          StMaxStats,   \* bound: stats of one flush
          StMaxWritten  \* bound: stats ever given to the sink

ASSUME StAssumption == StSlice \in Nat \ {0} /\ StMaxStats \in Nat /\ StMaxWritten \in Nat

VARIABLE st

\* slice: stats in the current slice, -1 for none; buffer: stats committed; conn: there
\* is a connection; backedUp: more than MAX_BUFFERED_STATS_BYTES are buffered below.
StInit == st = [slice |-> -1, buffer |-> 0, conn |-> FALSE, backedUp |-> FALSE,
                given |-> 0, sent |-> 0, dropped |-> 0, leftover |-> FALSE]

stBegin(p) == [p EXCEPT !.slice = 0]
stCommit(p) == [p EXCEPT !.buffer = @ + p.slice, !.slice = -1]

\* commonFlush(), for k stats: a slice that is full is committed first.
stFlush(p, k) ==
    LET full == (k - 1) \div StSlice
    IN  IF k = 0 THEN p
        ELSE [p EXCEPT !.buffer = @ + full * StSlice, !.slice = k - full * StSlice, !.given = @ + k]

\* write(), of a buffer with n stats: close and drop, or connect and write, or with no
\* host leave the buffer as it is.
stWrite(p, n, host) ==
    IF p.backedUp THEN [p EXCEPT !.conn = FALSE, !.dropped = @ + n, !.buffer = 0]
    ELSE IF ~p.conn /\ ~host THEN p
    ELSE [p EXCEPT !.conn = TRUE, !.sent = @ + n, !.buffer = 0]

\* beginFlush(true), the stats, endFlush(true): nothing runs in between.
StFlush(k, host) ==
    LET p == stCommit(stFlush(stBegin(st), k))
    IN  /\ st.given + k <= StMaxWritten
        /\ st' = [stWrite(p, p.buffer, host) EXCEPT !.leftover = st.buffer > 0]

\* onTimespanComplete(): its own buffer, which is gone if it is not written.
StTimespan(host) ==
    /\ st.given < StMaxWritten
    /\ st' = LET p == [stWrite([st EXCEPT !.given = @ + 1], 1, host) EXCEPT !.buffer = st.buffer]
             IN  IF p.sent + p.dropped = st.sent + st.dropped THEN [p EXCEPT !.dropped = @ + 1] ELSE p

\* onEvent(): the connection closes.
StClosed == st.conn /\ st' = [st EXCEPT !.conn = FALSE]

StBacksUp == st' = [st EXCEPT !.backedUp = ~@]

StNext ==
    \/ \E host \in BOOLEAN : StTimespan(host) \/ \E k \in 0..StMaxStats : StFlush(k, host)
    \/ StClosed \/ StBacksUp

StSpec == StInit /\ [][StNext]_st

----------------------------------------------------------------------------
(***************************************************************************)
(* Properties.                                                             *)
(***************************************************************************)

\* Every stat is sent, dropped, or waits in the buffer for the next flush, over
\* connections that come and go; no slice is left open.
StSound == st.given = st.sent + st.dropped + st.buffer /\ st.slice = -1

\* statsd.cc:102, ASSERT(!expect_empty_buffer || buffer_.length() == 0): a flush begins
\* with an empty buffer.
StBeginsEmpty == ~st.leftover
=============================================================================
