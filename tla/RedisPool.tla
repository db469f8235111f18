----------------------------- MODULE RedisPool -----------------------------
(***************************************************************************)
(* The Redis connections of the rate limit service (redis/driver_impl.go)  *)
(* under the goroutines that run DoLimit (redis/cache_impl.go): take a     *)
(* connection, append two commands per limited descriptor, read as many    *)
(* replies, and give the connection back, on every path out.               *)
(*                                                                         *)
(* The radix client is external: it hands out the replies of a connection  *)
(* in the order of the commands and, as the comment in Put() says, does    *)
(* not track replies that were never read.  A command is the call that     *)
(* sent it and its position.                                               *)
(***************************************************************************)
EXTENDS Naturals, Integers, Sequences, FiniteSets

CONSTANTS Calls,     \* the calls of DoLimit, one goroutine each
          Clients,   \* the connections that can be opened
          PoolSize,  \* settings.RedisPoolSize
          Commands   \* how many commands a call can send

ASSUME PoolAssumption ==
    /\ IsFiniteSet(Calls) /\ IsFiniteSet(Clients) /\ Clients # {}
    /\ PoolSize \in Nat /\ Commands \subseteq Nat

VARIABLES
    state,    \* per client: unused, idle (in radix's pool), held or closed
    queue,    \* per client: commands whose replies have not been handed out
    broken,   \* per client: radix saw an I/O error (LastCritical)
    pc,       \* per call: where it is
    client,   \* per call: connectionImpl.client
    pending,  \* per call: connectionImpl.pending
    cmds,     \* per call: how many commands it sends
    sent,     \* per call: how many it has appended
    got,      \* per call: the replies it has read
    active, total, closes  \* cx_active, cx_total, cx_local_close

clients == <<state, queue, broken>>
calls == <<pc, client, pending, cmds, sent, got>>
stats == <<active, total, closes>>
poolVars == <<clients, calls, stats>>

Idle == {k \in Clients : state[k] = "idle"}

PoolInit ==
    /\ state \in [Clients -> {"unused", "idle"}]
    /\ Cardinality({k \in Clients : state[k] = "idle"}) <= PoolSize
    /\ queue = [k \in Clients |-> <<>>]
    /\ broken = [k \in Clients |-> FALSE]
    /\ pc = [c \in Calls |-> "start"]
    /\ client = [c \in Calls |-> CHOOSE k \in Clients : TRUE]
    /\ pending = [c \in Calls |-> 0]
    /\ cmds = [c \in Calls |-> 0]
    /\ sent = [c \in Calls |-> 0]
    /\ got = [c \in Calls |-> <<>>]
    /\ active = 0 /\ total = 0 /\ closes = 0

\* pool.Get(): an idle connection, or a new one if there is none.
Available(k) == state[k] = "idle" \/ (Idle = {} /\ state[k] = "unused")

Get(c, k, n) ==
    /\ pc[c] = "start" /\ Available(k)
    /\ state' = [state EXCEPT ![k] = "held"]
    /\ client' = [client EXCEPT ![c] = k]
    /\ pending' = [pending EXCEPT ![c] = 0]
    /\ cmds' = [cmds EXCEPT ![c] = n]
    /\ pc' = [pc EXCEPT ![c] = "append"]
    /\ active' = active + 1 /\ total' = total + 1
    /\ UNCHANGED <<queue, broken, sent, got, closes>>

\* checkError(err) panics before the connection is counted.
GetFails(c) ==
    /\ pc[c] = "start" /\ Idle = {}
    /\ pc' = [pc EXCEPT ![c] = "done"]
    /\ UNCHANGED <<clients, client, pending, cmds, sent, got, stats>>

PipeAppend(c) ==
    /\ pc[c] = "append" /\ sent[c] < cmds[c]
    /\ sent' = [sent EXCEPT ![c] = @ + 1]
    /\ queue' = [queue EXCEPT ![client[c]] = Append(@, <<c, sent[c] + 1>>)]
    /\ pending' = [pending EXCEPT ![c] = @ + 1]
    /\ UNCHANGED <<state, broken, pc, client, cmds, got, stats>>

\* DoLimit reads the replies to INCRBY and EXPIRE of every limited descriptor.
Wanted(c) == cmds[c]

StartReading(c) ==
    /\ pc[c] = "append" /\ sent[c] = cmds[c]
    /\ pc' = [pc EXCEPT ![c] = IF Wanted(c) = 0 THEN "put" ELSE "read"]
    /\ UNCHANGED <<clients, client, pending, cmds, sent, got, stats>>

\* PipeResponse(): pending is decremented before the reply is looked at.
PipeResponse(c) ==
    /\ pc[c] = "read" /\ queue[client[c]] # <<>>
    /\ pending' = [pending EXCEPT ![c] = @ - 1]
    /\ got' = [got EXCEPT ![c] = Append(@, Head(queue[client[c]]))]
    /\ queue' = [queue EXCEPT ![client[c]] = Tail(@)]
    /\ pc' = [pc EXCEPT ![c] = IF Len(got[c]) + 1 = Wanted(c) THEN "put" ELSE "read"]
    /\ UNCHANGED <<state, broken, client, cmds, sent, stats>>

\* Mutant: a panic skips the Put() that is not deferred.
AfterPanicLost == "done"

\* "defer this.pool.Put(conn)" runs on the way out of a panic too.
AfterPanic == "put"

\* The reply is an error, or not an integer: the panic leaves the replies to
\* the later commands unread.
ReplyIsError(c) ==
    /\ pc[c] = "read" /\ queue[client[c]] # <<>>
    /\ pending' = [pending EXCEPT ![c] = @ - 1]
    /\ queue' = [queue EXCEPT ![client[c]] = Tail(@)]
    /\ pc' = [pc EXCEPT ![c] = AfterPanic]
    /\ UNCHANGED <<state, broken, client, cmds, sent, got, stats>>

\* The connection fails, or has no reply to give.
PipeRespFails(c) ==
    /\ pc[c] = "read"
    /\ pending' = [pending EXCEPT ![c] = @ - 1]
    /\ broken' = [broken EXCEPT ![client[c]] = TRUE]
    /\ pc' = [pc EXCEPT ![c] = AfterPanic]
    /\ UNCHANGED <<state, queue, client, cmds, sent, got, stats>>

\* Mutant: every connection goes back to the pool.
PutsBackAlways(c) == TRUE

\* Put() returns a connection to the pool only if no reply is outstanding.
PutsBack(c) == pending[c] = 0

\* radix's Put: a connection that failed or finds the pool full is closed.
PoolPut(k) == IF ~broken[k] /\ Cardinality(Idle) < PoolSize THEN "idle" ELSE "closed"

\* Mutant: the gauge is not decremented for a connection that is killed.
ActiveAfterPutClean(c) == IF PutsBack(c) THEN active - 1 ELSE active

ActiveAfterPut(c) == active - 1

Put(c) ==
    /\ pc[c] = "put"
    /\ active' = ActiveAfterPut(c)
    /\ state' = [state EXCEPT ![client[c]] =
          IF PutsBack(c) THEN PoolPut(client[c]) ELSE "closed"]
    /\ closes' = IF PutsBack(c) THEN closes ELSE closes + 1
    /\ pc' = [pc EXCEPT ![c] = "done"]
    /\ UNCHANGED <<queue, broken, client, pending, cmds, sent, got, total>>

Call(c) ==
    \/ \E k \in Clients, n \in Commands : Get(c, k, n)
    \/ GetFails(c) \/ PipeAppend(c) \/ StartReading(c)
    \/ PipeResponse(c) \/ ReplyIsError(c) \/ PipeRespFails(c) \/ Put(c)

PoolNext == \E c \in Calls : Call(c)

\* A goroutine that can run runs; a read of a reply ends, with an error at the
\* latest when the connection breaks.
PoolFairness == \A c \in Calls : WF_poolVars(Call(c))

PoolSpec == PoolInit /\ [][PoolNext]_poolVars /\ PoolFairness

----------------------------------------------------------------------------
(***************************************************************************)
(* Properties.                                                             *)
(***************************************************************************)

Holding(c) == pc[c] \in {"append", "read", "put"}

\* Types; in particular "assert.Assert(this.pending > 0)" of PipeResponse()
\* holds, because pending never becomes negative.
PoolTypeOK ==
    /\ state \in [Clients -> {"unused", "idle", "held", "closed"}]
    /\ queue \in [Clients -> Seq(Calls \X Nat)]
    /\ broken \in [Clients -> BOOLEAN]
    /\ pc \in [Calls -> {"start", "append", "read", "put", "done"}]
    /\ client \in [Calls -> Clients]
    /\ pending \in [Calls -> Nat]
    /\ cmds \in [Calls -> Nat] /\ sent \in [Calls -> Nat]
    /\ got \in [Calls -> Seq(Calls \X Nat)]
    /\ active \in Int /\ total \in Nat /\ closes \in Nat

\* No call ever reads the reply to another call's command, or a reply out of
\* order, although connections are reused after errors: a count of the wrong
\* key would be taken for the caller's own.
NoCrosstalk ==
    \A c \in Calls : \A n \in 1..Len(got[c]) : got[c][n] = <<c, n>>

\* The gauge cx_active is the number of connections in use, error paths
\* included.
ActiveExact == active = Cardinality({c \in Calls : Holding(c)})

\* A connection is used by one call at a time, and never while it is idle.
NotShared ==
    \A c \in Calls : Holding(c) =>
        /\ state[client[c]] = "held"
        /\ \A e \in Calls : Holding(e) /\ client[e] = client[c] => e = c

\* No error path leaks a connection: what is taken is given back.
Released == \A c \in Calls : Holding(c) ~> ~Holding(c) /\ state[client[c]] # "held"
=============================================================================
