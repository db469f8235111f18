----------------------------- MODULE ServiceProofs -----------------------------
(***************************************************************************)
(* Proofs about the services beside the proxy: RedisPool, the Redis driver *)
(* of the rate limit service; LogAggregator, which writes the hourly       *)
(* statistics; ApiServer, which reads them.                                *)
(*                                                                         *)
(* RedisPool: for any number of calls and connections, any pool size and   *)
(* any number of commands, no call reads another call's reply, and         *)
(* cx_active is exact.                                                     *)
(*                                                                         *)
(* NoCrosstalk is not inductive: a reply is the reader's own only because  *)
(* everything in the queue of a connection in use is (OwnQueue), which is  *)
(* so only because connections enter and leave the pool with an empty      *)
(* queue (CleanPool), which Put() achieves only because pending counts the *)
(* queue (Phase).                                                          *)
(*                                                                         *)
(* LogAggregator: for any files, any hours and any number of lines, no     *)
(* document counts a line twice of a file that no earlier run was still    *)
(* reading when its run began, and two replacements of the collection      *)
(* overlap only after the write timer went off before the reads were over. *)
(* NeverOverCounts is not inductive.  A document is serialised from record *)
(* objects that later callbacks could still change, so the records of      *)
(* every generation that is still referred to are bounded by the logs as   *)
(* well (Bounded); a file adds its lines to records that must hold none of *)
(* it, so a run reads such a file at most once and before it has counted   *)
(* it (ReadOnce).  That a run starts only when nothing of the last one is  *)
(* left to come is what `running' is for (OneAtATime).                     *)
(*                                                                         *)
(* ApiServer: for any number of requests, servers and runs of the logs     *)
(* daemon, and whether or not a rejection ends the process, an answer is   *)
(* whole.  AnswersWhole is not inductive: the join counts replies, and     *)
(* that the count says that nothing is missing rests on three facts about  *)
(* a request that waits: requestQty is the number of fetches that came in, *)
(* what came in is in serverData, and a fetch that failed never comes in   *)
(* (Joining).  An answer of /api/stats is one run or overlapped a          *)
(* replacement because the collection, whenever it is not the last run, is *)
(* the emptied one, and every request that waits then has seen it          *)
(* (Replacing).                                                            *)
(***************************************************************************)
EXTENDS RedisPool, LogAggregator, ApiServer, TLAPS, SequenceTheorems, FiniteSetTheorems

\* A connection that can be handed out has no reply outstanding.
CleanPool ==
    \A k \in Clients : state[k] \in {"idle", "unused"} => queue[k] = <<>> /\ ~broken[k]

\* What is outstanding on a connection in use are the last commands its user
\* has sent.
OwnQueue(c) ==
    Holding(c) =>
        /\ Len(queue[client[c]]) <= sent[c]
        /\ \A n \in 1..Len(queue[client[c]]) :
              queue[client[c]][n] = <<c, sent[c] - Len(queue[client[c]]) + n>>

\* pending is the number of outstanding replies, in every phase of a call.
Phase(c) ==
    /\ pc[c] = "start" => sent[c] = 0 /\ got[c] = <<>>
    /\ pc[c] = "append" =>
          /\ got[c] = <<>> /\ pending[c] = sent[c] /\ sent[c] <= cmds[c]
          /\ Len(queue[client[c]]) = pending[c] /\ ~broken[client[c]]
    /\ pc[c] = "read" =>
          /\ sent[c] = cmds[c] /\ Len(got[c]) < cmds[c] /\ pending[c] + Len(got[c]) = cmds[c]
          /\ Len(queue[client[c]]) = pending[c] /\ ~broken[client[c]]
    /\ pc[c] = "put" => broken[client[c]] \/ Len(queue[client[c]]) = pending[c]

Inv == /\ PoolTypeOK /\ NotShared /\ CleanPool /\ NoCrosstalk
       /\ \A c \in Calls : OwnQueue(c) /\ Phase(c)

LEMMA InitInv == PoolInit => Inv
<1> SUFFICES ASSUME PoolInit PROVE Inv
  OBVIOUS
<1>1. (CHOOSE k \in Clients : TRUE) \in Clients
  BY PoolAssumption
<1>2. PoolTypeOK
  BY <1>1 DEF PoolInit, PoolTypeOK
<1>3. NotShared /\ CleanPool /\ NoCrosstalk
  BY DEF PoolInit, NotShared, CleanPool, NoCrosstalk, Holding
<1>4. \A c \in Calls : OwnQueue(c) /\ Phase(c)
  BY DEF PoolInit, OwnQueue, Phase, Holding
<1> QED BY <1>2, <1>3, <1>4 DEF Inv

(***************************************************************************)
(* What each kind of step does to the facts about calls other than its own *)
(* and about connections other than its own.                               *)
(***************************************************************************)

\* A step of c leaves alone a call e that uses another connection.
Undisturbed(c, e) ==
    /\ pc'[e] = pc[e] /\ client'[e] = client[e] /\ pending'[e] = pending[e]
    /\ cmds'[e] = cmds[e] /\ sent'[e] = sent[e] /\ got'[e] = got[e]
    /\ Holding(e) => /\ queue'[client[e]] = queue[client[e]]
                     /\ broken'[client[e]] = broken[client[e]]

LEMMA OthersKeep ==
    ASSUME NEW c \in Calls, NEW e \in Calls, Undisturbed(c, e), OwnQueue(e), Phase(e)
    PROVE  OwnQueue(e)' /\ Phase(e)'
BY DEF Undisturbed, OwnQueue, Phase, Holding

\* Inv is preserved if it holds for the call that moves and the others are
\* undisturbed.
LEMMA InvFromParts ==
    ASSUME NEW c \in Calls, Inv,
           PoolTypeOK', NotShared', CleanPool', OwnQueue(c)', Phase(c)',
           \A n \in 1..Len(got'[c]) : got'[c][n] = <<c, n>>,
           \A e \in Calls \ {c} : Undisturbed(c, e)
    PROVE  Inv'
<1>1. \A e \in Calls : OwnQueue(e)' /\ Phase(e)'
  <2> SUFFICES ASSUME NEW e \in Calls, e # c PROVE OwnQueue(e)' /\ Phase(e)'
    OBVIOUS
  <2> QED BY OthersKeep DEF Inv
<1>2. NoCrosstalk'
  BY DEF Inv, NoCrosstalk, Undisturbed
<1> QED BY <1>1, <1>2 DEF Inv

\* A connection in use is not used by another call.
LEMMA OwnClient ==
    ASSUME NotShared, NEW c \in Calls, Holding(c), NEW e \in Calls, e # c, Holding(e)
    PROVE  client[e] # client[c]
BY DEF NotShared

LEMMA GetInv ==
    ASSUME Inv, NEW c \in Calls, NEW k \in Clients, NEW n \in Commands, Get(c, k, n)
    PROVE  Inv'
<1>0. PoolTypeOK /\ NotShared /\ CleanPool /\ NoCrosstalk /\ OwnQueue(c) /\ Phase(c)
  BY DEF Inv
<1>1. n \in Nat
  BY PoolAssumption
<1>2. queue[k] = <<>> /\ ~broken[k] /\ state[k] # "held"
  BY <1>0 DEF Get, Available, Idle, CleanPool
<1>3. PoolTypeOK'
  BY <1>0, <1>1 DEF Get, PoolTypeOK
<1>4. NotShared'
  BY <1>0, <1>2 DEF Get, NotShared, Holding, PoolTypeOK
<1>5. CleanPool'
  BY <1>0 DEF Get, CleanPool, PoolTypeOK
<1>6. /\ pc'[c] = "append" /\ client'[c] = k /\ pending'[c] = 0 /\ cmds'[c] = n
      /\ sent'[c] = 0 /\ got'[c] = <<>> /\ queue'[k] = <<>> /\ ~broken'[k]
  BY <1>0, <1>2 DEF Get, PoolTypeOK, Phase
<1>7. OwnQueue(c)' /\ Phase(c)'
  BY <1>1, <1>6 DEF OwnQueue, Phase, Holding
<1>8. \A e \in Calls \ {c} : Undisturbed(c, e)
  BY <1>0 DEF Get, Undisturbed, PoolTypeOK
<1> QED BY <1>3, <1>4, <1>5, <1>6, <1>7, <1>8, InvFromParts

LEMMA PipeAppendInv ==
    ASSUME Inv, NEW c \in Calls, PipeAppend(c)
    PROVE  Inv'
<1> DEFINE k == client[c]
<1> DEFINE cmd == <<c, sent[c] + 1>>
<1>0. PoolTypeOK /\ NotShared /\ CleanPool /\ NoCrosstalk /\ OwnQueue(c) /\ Phase(c)
  BY DEF Inv
<1>1. k \in Clients /\ queue[k] \in Seq(Calls \X Nat) /\ sent[c] \in Nat /\ cmds[c] \in Nat
  BY <1>0 DEF PoolTypeOK
<1>2. /\ pc[c] = "append" /\ sent[c] < cmds[c] /\ got[c] = <<>> /\ pending[c] = sent[c]
      /\ Len(queue[k]) = sent[c] /\ ~broken[k] /\ Holding(c)
  BY <1>0 DEF PipeAppend, Phase, Holding
<1>3. cmd \in Calls \X Nat
  BY <1>1
<1>4. queue'[k] = Append(queue[k], cmd)
  BY <1>0, <1>1 DEF PipeAppend, PoolTypeOK
<1> HIDE DEF cmd
<1>5. /\ queue'[k] \in Seq(Calls \X Nat) /\ Len(queue'[k]) = sent[c] + 1
      /\ \A n \in 1..sent[c] : queue'[k][n] = queue[k][n]
      /\ queue'[k][sent[c] + 1] = cmd
  BY <1>1, <1>2, <1>3, <1>4, AppendProperties
<1>6. PoolTypeOK'
  <2>1. queue' \in [Clients -> Seq(Calls \X Nat)]
    BY <1>0, <1>5 DEF PipeAppend, PoolTypeOK
  <2>2. /\ sent' = [sent EXCEPT ![c] = sent[c] + 1]
        /\ pending' = [pending EXCEPT ![c] = pending[c] + 1]
    BY DEF PipeAppend
  <2>4. sent[c] + 1 \in Nat /\ pending[c] + 1 \in Nat
    BY <1>1, <1>2
  <2>5. sent' \in [Calls -> Nat] /\ pending' \in [Calls -> Nat]
    BY <1>0, <2>2, <2>4 DEF PoolTypeOK
  <2>3. UNCHANGED <<state, broken, pc, client, cmds, got, active, total, closes>>
    BY DEF PipeAppend, stats
  <2> QED BY <1>0, <2>1, <2>3, <2>5 DEF PoolTypeOK
<1>7. NotShared'
  BY <1>0 DEF PipeAppend, NotShared, Holding
<1>8. CleanPool'
  BY <1>0, <1>2 DEF PipeAppend, CleanPool, NotShared, PoolTypeOK
<1>9. /\ pc'[c] = "append" /\ client'[c] = k /\ pending'[c] = sent[c] + 1 /\ cmds'[c] = cmds[c]
      /\ sent'[c] = sent[c] + 1 /\ got'[c] = <<>> /\ ~broken'[k]
  BY <1>0, <1>2 DEF PipeAppend, PoolTypeOK
<1>10. OwnQueue(c)'
  <2>1. \A n \in 1..(sent[c] + 1) : queue'[k][n] = <<c, n>>
    <3> TAKE n \in 1..(sent[c] + 1)
    <3>1. CASE n = sent[c] + 1
      BY <1>5, <3>1 DEF cmd
    <3>2. CASE n # sent[c] + 1
      <4>1. n \in 1..sent[c]
        BY <1>1, <3>2
      <4>2. queue[k][n] = <<c, sent[c] - sent[c] + n>>
        BY <1>0, <1>2, <4>1 DEF OwnQueue
      <4>3. sent[c] - sent[c] + n = n
        BY <1>1, <4>1
      <4> QED BY <1>5, <4>1, <4>2, <4>3
    <3> QED BY <3>1, <3>2
  <2> QED BY <1>1, <1>5, <1>9, <2>1 DEF OwnQueue
<1>11. Phase(c)'
  BY <1>1, <1>2, <1>5, <1>9 DEF Phase
<1>12. \A e \in Calls \ {c} : Undisturbed(c, e)
  BY <1>0, <1>2, OwnClient DEF PipeAppend, Undisturbed, PoolTypeOK
<1> QED BY <1>6, <1>7, <1>8, <1>9, <1>10, <1>11, <1>12, InvFromParts

LEMMA Shift ==
    ASSUME NEW s \in Nat, NEW l \in Nat, NEW m, m = l - 1, NEW n \in 1..m
    PROVE  n + 1 \in 1..l /\ s - l + (n + 1) = s - m + n
OBVIOUS

\* Taking the first reply off the queue leaves the caller's later commands.
LEMMA PopReply ==
    ASSUME PoolTypeOK, NEW c \in Calls, OwnQueue(c), Phase(c),
           pc[c] = "read", queue[client[c]] # <<>>
    PROVE  LET q == queue[client[c]] IN
           /\ Head(q) = <<c, Len(got[c]) + 1>>
           /\ Tail(q) \in Seq(Calls \X Nat)
           /\ Len(Tail(q)) = Len(q) - 1
           /\ \A n \in 1..Len(Tail(q)) : Tail(q)[n] = <<c, sent[c] - Len(Tail(q)) + n>>
<1> DEFINE q == queue[client[c]]
<1>0. q \in Seq(Calls \X Nat) /\ q # <<>>
  BY DEF PoolTypeOK
<1>1. q \in Seq(Calls \X Nat) /\ q # <<>> /\ Len(q) \in Nat /\ Len(q) # 0
  BY <1>0, EmptySeq
<1>2. /\ sent[c] = cmds[c] /\ pending[c] + Len(got[c]) = cmds[c] /\ Len(q) = pending[c]
      /\ Len(got[c]) \in Nat /\ pending[c] \in Nat /\ sent[c] \in Nat
  BY DEF PoolTypeOK, Phase
<1>3. \A n \in 1..Len(q) : q[n] = <<c, sent[c] - Len(q) + n>>
  BY DEF OwnQueue, Holding
<1> HIDE DEF q
<1>4. /\ Tail(q) \in Seq(Calls \X Nat) /\ Len(Tail(q)) = Len(q) - 1
      /\ \A n \in 1..Len(Tail(q)) : Tail(q)[n] = q[n + 1]
  BY <1>1, HeadTailProperties
<1>5. Head(q) = q[1]
  BY <1>1
<1>6. 1 \in 1..Len(q) /\ sent[c] - Len(q) + 1 = Len(got[c]) + 1
  BY <1>1, <1>2
<1>7. Head(q) = <<c, Len(got[c]) + 1>>
  BY <1>3, <1>5, <1>6
<1>8. \A n \in 1..Len(Tail(q)) : Tail(q)[n] = <<c, sent[c] - Len(Tail(q)) + n>>
  <2> TAKE n \in 1..Len(Tail(q))
  <2>1. n + 1 \in 1..Len(q) /\ sent[c] - Len(q) + (n + 1) = sent[c] - Len(Tail(q)) + n
    <3> DEFINE l == Len(q)
    <3> DEFINE m == Len(Tail(q))
    <3> DEFINE s == sent[c]
    <3>1. s \in Nat /\ l \in Nat /\ m = l - 1 /\ n \in 1..m
      BY <1>1, <1>2, <1>4
    <3> HIDE DEF l, m, s
    <3>2. n + 1 \in 1..l /\ s - l + (n + 1) = s - m + n
      BY <3>1, Shift
    <3> QED BY <3>2 DEF l, m, s
  <2> QED BY <1>3, <1>4, <2>1
<1> QED BY <1>4, <1>7, <1>8 DEF q

\* Both outcomes of a reply that has arrived take it off the queue.
LEMMA ReplyInv ==
    ASSUME Inv, NEW c \in Calls, PipeResponse(c) \/ ReplyIsError(c)
    PROVE  Inv'
<1> DEFINE k == client[c]
<1>0. PoolTypeOK /\ NotShared /\ CleanPool /\ NoCrosstalk /\ OwnQueue(c) /\ Phase(c)
  BY DEF Inv
<1>1. /\ pc[c] = "read" /\ queue[k] # <<>> /\ Holding(c)
      /\ pending' = [pending EXCEPT ![c] = @ - 1]
      /\ queue' = [queue EXCEPT ![k] = Tail(queue[k])]
      /\ UNCHANGED <<state, broken, client, cmds, sent, stats>>
  BY DEF PipeResponse, ReplyIsError, Holding
<1>2. /\ Head(queue[k]) = <<c, Len(got[c]) + 1>>
      /\ Tail(queue[k]) \in Seq(Calls \X Nat)
      /\ Len(Tail(queue[k])) = Len(queue[k]) - 1
      /\ \A n \in 1..Len(Tail(queue[k])) :
            Tail(queue[k])[n] = <<c, sent[c] - Len(Tail(queue[k])) + n>>
  BY <1>0, <1>1, PopReply
<1>3. /\ k \in Clients /\ queue[k] \in Seq(Calls \X Nat) /\ Len(queue[k]) \in Nat
      /\ Len(queue[k]) # 0 /\ Len(queue[k]) = pending[c] /\ ~broken[k]
      /\ sent[c] \in Nat /\ cmds[c] \in Nat /\ Len(got[c]) \in Nat
      /\ sent[c] = cmds[c] /\ Len(got[c]) < cmds[c] /\ pending[c] + Len(got[c]) = cmds[c]
  BY <1>0, <1>1 DEF PoolTypeOK, Phase
<1>4. /\ queue'[k] = Tail(queue[k]) /\ pending'[c] = pending[c] - 1
      /\ client'[c] = k /\ sent'[c] = sent[c] /\ cmds'[c] = cmds[c] /\ ~broken'[k]
  BY <1>0, <1>1, <1>3 DEF PoolTypeOK
<1>5. /\ pending[c] - 1 \in Nat
      /\ Len(queue'[k]) = pending'[c]
  BY <1>2, <1>3, <1>4
<1>6. \/ pc'[c] = "put" /\ got' = got
      \/ /\ got'[c] = Append(got[c], <<c, Len(got[c]) + 1>>)
         /\ pc'[c] = IF Len(got[c]) + 1 = cmds[c] THEN "put" ELSE "read"
  <2>1. CASE PipeResponse(c)
    <3>1. /\ got' = [got EXCEPT ![c] = Append(got[c], Head(queue[k]))]
          /\ pc' = [pc EXCEPT ![c] = IF Len(got[c]) + 1 = cmds[c] THEN "put" ELSE "read"]
      BY <2>1 DEF PipeResponse, Wanted
    <3>2. /\ got'[c] = Append(got[c], Head(queue[k]))
          /\ pc'[c] = IF Len(got[c]) + 1 = cmds[c] THEN "put" ELSE "read"
      BY <1>0, <3>1 DEF PoolTypeOK
    <3> QED BY <1>2, <3>2
  <2>2. CASE ReplyIsError(c)
    BY <1>0, <2>2 DEF ReplyIsError, AfterPanic, PoolTypeOK
  <2> QED BY <2>1, <2>2
<1>7. /\ got' \in [Calls -> Seq(Calls \X Nat)]
      /\ pc' \in [Calls -> {"start", "append", "read", "put", "done"}]
  <2>1. CASE PipeResponse(c)
    <3>1. Append(got[c], Head(queue[k])) \in Seq(Calls \X Nat)
      BY <1>0, <1>2, <1>3, AppendProperties DEF PoolTypeOK
    <3> QED BY <1>0, <2>1, <3>1 DEF PipeResponse, PoolTypeOK
  <2>2. CASE ReplyIsError(c)
    BY <1>0, <2>2 DEF ReplyIsError, AfterPanic, PoolTypeOK
  <2> QED BY <2>1, <2>2
<1>8. PoolTypeOK'
  <2>1. queue' \in [Clients -> Seq(Calls \X Nat)]
    BY <1>0, <1>1, <1>2 DEF PoolTypeOK
  <2>2. pending' \in [Calls -> Nat]
    BY <1>0, <1>1, <1>5 DEF PoolTypeOK
  <2> QED BY <1>0, <1>1, <1>7, <2>1, <2>2 DEF PoolTypeOK, stats
<1>9. \A e \in Calls \ {c} : pc'[e] = pc[e] /\ got'[e] = got[e]
  BY <1>0 DEF PipeResponse, ReplyIsError, PoolTypeOK
<1>10. NotShared'
  BY <1>0, <1>1, <1>9 DEF NotShared, Holding
<1>11. CleanPool'
  BY <1>0, <1>1 DEF CleanPool, NotShared, PoolTypeOK
<1>12. \A n \in 1..Len(got'[c]) : got'[c][n] = <<c, n>>
  <2>1. \A n \in 1..Len(got[c]) : got[c][n] = <<c, n>>
    BY <1>0 DEF NoCrosstalk
  <2>2. CASE got' = got
    BY <2>1, <2>2
  <2>3. CASE got'[c] = Append(got[c], <<c, Len(got[c]) + 1>>)
    <3>a. got[c] \in Seq(Calls \X Nat)
      BY <1>0 DEF PoolTypeOK
    <3>0. Len(got[c]) + 1 \in Nat /\ got[c] \in Seq(Calls \X Nat)
      BY <3>a, LenProperties
    <3>1. <<c, Len(got[c]) + 1>> \in Calls \X Nat
      BY <3>0
    <3>2. /\ Len(got'[c]) = Len(got[c]) + 1
          /\ \A n \in 1..Len(got[c]) : got'[c][n] = got[c][n]
          /\ got'[c][Len(got[c]) + 1] = <<c, Len(got[c]) + 1>>
      BY <2>3, <3>0, <3>1, AppendProperties
    <3> SUFFICES ASSUME NEW n \in 1..(Len(got[c]) + 1) PROVE got'[c][n] = <<c, n>>
      BY <3>2
    <3>3. n = Len(got[c]) + 1 \/ n \in 1..Len(got[c])
      BY <1>3
    <3> QED BY <2>1, <3>2, <3>3
  <2> QED BY <1>6, <2>2, <2>3
<1>13. OwnQueue(c)'
  <2>1. Len(queue'[k]) <= sent'[c]
    BY <1>3, <1>4, <1>5
  <2>2. \A n \in 1..Len(queue'[k]) : queue'[k][n] = <<c, sent'[c] - Len(queue'[k]) + n>>
    BY <1>2, <1>4
  <2> QED BY <1>4, <2>1, <2>2 DEF OwnQueue
<1>14. Phase(c)'
  <2>1. CASE pc'[c] = "put"
    BY <1>4, <1>5, <2>1 DEF Phase
  <2>2. CASE pc'[c] # "put"
    <3>1. /\ got'[c] = Append(got[c], <<c, Len(got[c]) + 1>>)
          /\ pc'[c] = "read" /\ Len(got[c]) + 1 # cmds[c]
      BY <1>6, <2>2
    <3>2. Len(got'[c]) = Len(got[c]) + 1
      BY <1>0, <1>3, <3>1 DEF PoolTypeOK
    <3>3. /\ sent'[c] = cmds'[c] /\ Len(got'[c]) < cmds'[c]
          /\ pending'[c] + Len(got'[c]) = cmds'[c]
      <4> DEFINE p == pending[c]
      <4> DEFINE g == Len(got[c])
      <4>1. /\ p \in Nat /\ g \in Nat /\ cmds[c] \in Nat
            /\ g < cmds[c] /\ p + g = cmds[c] /\ g + 1 # cmds[c]
        BY <1>3, <3>1
      <4> HIDE DEF p, g
      <4>2. g + 1 < cmds[c] /\ (p - 1) + (g + 1) = cmds[c]
        BY <4>1
      <4> QED BY <1>3, <1>4, <3>2, <4>2 DEF p, g
    <3>4. Len(queue'[client'[c]]) = pending'[c] /\ ~broken'[client'[c]]
      BY <1>4, <1>5
    <3> QED BY <3>1, <3>3, <3>4 DEF Phase
  <2> QED BY <2>1, <2>2
<1>15. \A e \in Calls \ {c} : Undisturbed(c, e)
  BY <1>0, <1>1, <1>9, OwnClient DEF Undisturbed, PoolTypeOK
<1> QED BY <1>8, <1>10, <1>11, <1>12, <1>13, <1>14, <1>15, InvFromParts

LEMMA StartReadingInv ==
    ASSUME Inv, NEW c \in Calls, StartReading(c)
    PROVE  Inv'
<1>0. PoolTypeOK /\ NotShared /\ CleanPool /\ NoCrosstalk /\ OwnQueue(c) /\ Phase(c)
  BY DEF Inv
<1>1. /\ pc[c] = "append" /\ sent[c] = cmds[c] /\ Holding(c)
      /\ pc' = [pc EXCEPT ![c] = IF cmds[c] = 0 THEN "put" ELSE "read"]
      /\ UNCHANGED <<state, queue, broken, client, pending, cmds, sent, got, active, total, closes>>
  BY DEF StartReading, Holding, Wanted, clients, stats
<1>2. /\ pc'[c] = (IF cmds[c] = 0 THEN "put" ELSE "read")
      /\ \A e \in Calls \ {c} : pc'[e] = pc[e]
  BY <1>0, <1>1 DEF PoolTypeOK
<1>3. PoolTypeOK'
  BY <1>0, <1>1 DEF PoolTypeOK
<1>4. NotShared'
  BY <1>0, <1>1, <1>2 DEF NotShared, Holding
<1>5. CleanPool'
  BY <1>0, <1>1 DEF CleanPool
<1>6. OwnQueue(c)'
  BY <1>0, <1>1 DEF OwnQueue
<1>7. Phase(c)'
  <2>1. /\ got[c] = <<>> /\ Len(got[c]) = 0 /\ pending[c] = cmds[c] /\ cmds[c] \in Nat
        /\ Len(queue[client[c]]) = pending[c] /\ ~broken[client[c]]
    BY <1>0, <1>1 DEF Phase, PoolTypeOK
  <2>2. pending[c] + Len(got[c]) = cmds[c] /\ (cmds[c] # 0 => Len(got[c]) < cmds[c])
    BY <2>1
  <2> QED BY <1>1, <1>2, <2>1, <2>2 DEF Phase
<1>8. \A n \in 1..Len(got'[c]) : got'[c][n] = <<c, n>>
  BY <1>0, <1>1 DEF NoCrosstalk
<1>9. \A e \in Calls \ {c} : Undisturbed(c, e)
  BY <1>1, <1>2 DEF Undisturbed
<1> QED BY <1>3, <1>4, <1>5, <1>6, <1>7, <1>8, <1>9, InvFromParts

LEMMA PipeRespFailsInv ==
    ASSUME Inv, NEW c \in Calls, PipeRespFails(c)
    PROVE  Inv'
<1> DEFINE k == client[c]
<1>0. PoolTypeOK /\ NotShared /\ CleanPool /\ NoCrosstalk /\ OwnQueue(c) /\ Phase(c)
  BY DEF Inv
<1>1. /\ pc[c] = "read" /\ Holding(c)
      /\ pending' = [pending EXCEPT ![c] = pending[c] - 1]
      /\ broken' = [broken EXCEPT ![k] = TRUE]
      /\ pc' = [pc EXCEPT ![c] = "put"]
      /\ UNCHANGED <<state, queue, client, cmds, sent, got, active, total, closes>>
  BY DEF PipeRespFails, Holding, AfterPanic, stats
<1>2. pending[c] - 1 \in Nat
  <2>1. /\ pending[c] \in Nat /\ Len(got[c]) \in Nat /\ cmds[c] \in Nat
        /\ Len(got[c]) < cmds[c] /\ pending[c] + Len(got[c]) = cmds[c]
    BY <1>0, <1>1 DEF PoolTypeOK, Phase
  <2> QED BY <2>1
<1>3. k \in Clients /\ pc'[c] = "put" /\ broken'[k] /\ (\A e \in Calls \ {c} : pc'[e] = pc[e])
  BY <1>0, <1>1 DEF PoolTypeOK
<1>4. PoolTypeOK'
  <2>1. pending' \in [Calls -> Nat]
    BY <1>0, <1>1, <1>2 DEF PoolTypeOK
  <2>2. broken' \in [Clients -> BOOLEAN]
    BY <1>0, <1>1 DEF PoolTypeOK
  <2>3. pc' \in [Calls -> {"start", "append", "read", "put", "done"}]
    BY <1>0, <1>1 DEF PoolTypeOK
  <2> QED BY <1>0, <1>1, <2>1, <2>2, <2>3 DEF PoolTypeOK
<1>5. NotShared'
  BY <1>0, <1>1, <1>3 DEF NotShared, Holding
<1>6. CleanPool'
  BY <1>0, <1>1 DEF CleanPool, NotShared, PoolTypeOK
<1>7. OwnQueue(c)'
  BY <1>0, <1>1 DEF OwnQueue
<1>8. Phase(c)'
  BY <1>1, <1>3 DEF Phase
<1>9. \A n \in 1..Len(got'[c]) : got'[c][n] = <<c, n>>
  BY <1>0, <1>1 DEF NoCrosstalk
<1>10. \A e \in Calls \ {c} : Undisturbed(c, e)
  BY <1>0, <1>1, <1>3, OwnClient DEF Undisturbed, PoolTypeOK
<1> QED BY <1>4, <1>5, <1>6, <1>7, <1>8, <1>9, <1>10, InvFromParts

\* Put() lets only a connection without outstanding replies back into the pool.
LEMMA PutInv ==
    ASSUME Inv, NEW c \in Calls, Put(c)
    PROVE  Inv'
<1> DEFINE k == client[c]
<1> DEFINE st == IF PutsBack(c) THEN PoolPut(k) ELSE "closed"
<1>0. PoolTypeOK /\ NotShared /\ CleanPool /\ NoCrosstalk /\ OwnQueue(c) /\ Phase(c)
  BY DEF Inv
<1>1. /\ pc[c] = "put" /\ Holding(c)
      /\ state' = [state EXCEPT ![k] = st]
      /\ pc' = [pc EXCEPT ![c] = "done"]
      /\ UNCHANGED <<queue, broken, client, pending, cmds, sent, got, total>>
      /\ active' = active - 1 /\ (closes' = closes \/ closes' = closes + 1)
  BY DEF Put, Holding, ActiveAfterPut
<1>2. k \in Clients /\ pc'[c] = "done" /\ (\A e \in Calls \ {c} : pc'[e] = pc[e])
  BY <1>0, <1>1 DEF PoolTypeOK
<1>3. st \in {"idle", "closed"} /\ (st = "idle" => pending[c] = 0 /\ ~broken[k])
  BY DEF PutsBack, PoolPut
<1> HIDE DEF st
<1>4. st = "idle" => queue[k] = <<>> /\ ~broken[k]
  <2>1. queue[k] \in Seq(Calls \X Nat)
    BY <1>0 DEF PoolTypeOK
  <2>2. st = "idle" => Len(queue[k]) = 0
    BY <1>0, <1>1, <1>3 DEF Phase
  <2> QED BY <1>3, <2>1, <2>2, EmptySeq
<1>5. PoolTypeOK'
  <2>1. state' \in [Clients -> {"unused", "idle", "held", "closed"}]
    BY <1>0, <1>1, <1>3 DEF PoolTypeOK
  <2>2. pc' \in [Calls -> {"start", "append", "read", "put", "done"}]
    BY <1>0, <1>1 DEF PoolTypeOK
  <2>3. active' \in Int /\ closes' \in Nat
    BY <1>0, <1>1 DEF PoolTypeOK
  <2> QED BY <1>0, <1>1, <2>1, <2>2, <2>3 DEF PoolTypeOK
<1>6. NotShared'
  BY <1>0, <1>1, <1>2, OwnClient DEF NotShared, Holding, PoolTypeOK
<1>7. CleanPool'
  <2> SUFFICES ASSUME NEW j \in Clients, state'[j] \in {"idle", "unused"}
               PROVE  queue'[j] = <<>> /\ ~broken'[j]
    BY DEF CleanPool
  <2>1. CASE j = k
    <3>1. state'[j] = st
      BY <1>0, <1>1, <2>1 DEF PoolTypeOK
    <3> QED BY <1>1, <1>3, <1>4, <2>1, <3>1
  <2>2. CASE j # k
    <3>1. state'[j] = state[j]
      BY <1>0, <1>1, <2>2 DEF PoolTypeOK
    <3> QED BY <1>0, <1>1, <3>1 DEF CleanPool
  <2> QED BY <2>1, <2>2
<1>8. OwnQueue(c)' /\ Phase(c)'
  BY <1>2 DEF OwnQueue, Phase, Holding
<1>9. \A n \in 1..Len(got'[c]) : got'[c][n] = <<c, n>>
  BY <1>0, <1>1 DEF NoCrosstalk
<1>10. \A e \in Calls \ {c} : Undisturbed(c, e)
  BY <1>1, <1>2 DEF Undisturbed
<1> QED BY <1>5, <1>6, <1>7, <1>8, <1>9, <1>10, InvFromParts

LEMMA GetFailsInv ==
    ASSUME Inv, NEW c \in Calls, GetFails(c)
    PROVE  Inv'
<1>0. PoolTypeOK /\ NotShared /\ CleanPool /\ NoCrosstalk /\ OwnQueue(c) /\ Phase(c)
  BY DEF Inv
<1>1. /\ pc' = [pc EXCEPT ![c] = "done"]
      /\ UNCHANGED <<state, queue, broken, client, pending, cmds, sent, got, active, total, closes>>
  BY DEF GetFails, clients, stats
<1>2. pc'[c] = "done" /\ (\A e \in Calls \ {c} : pc'[e] = pc[e])
  BY <1>0, <1>1 DEF PoolTypeOK
<1>3. PoolTypeOK'
  BY <1>0, <1>1 DEF PoolTypeOK
<1>4. NotShared'
  BY <1>0, <1>1, <1>2 DEF NotShared, Holding
<1>5. CleanPool'
  BY <1>0, <1>1 DEF CleanPool
<1>6. OwnQueue(c)' /\ Phase(c)'
  BY <1>2 DEF OwnQueue, Phase, Holding
<1>7. \A n \in 1..Len(got'[c]) : got'[c][n] = <<c, n>>
  BY <1>0, <1>1 DEF NoCrosstalk
<1>8. \A e \in Calls \ {c} : Undisturbed(c, e)
  BY <1>1, <1>2 DEF Undisturbed
<1> QED BY <1>3, <1>4, <1>5, <1>6, <1>7, <1>8, InvFromParts

LEMMA NextInv == Inv /\ [PoolNext]_poolVars => Inv'
<1> SUFFICES ASSUME Inv, [PoolNext]_poolVars PROVE Inv'
  OBVIOUS
<1>1. CASE PoolNext
  <2>1. PICK c \in Calls : Call(c)
    BY <1>1 DEF PoolNext
  <2>2. CASE \E k \in Clients, n \in Commands : Get(c, k, n)
    BY <2>2, GetInv
  <2>3. CASE GetFails(c)
    BY <2>3, GetFailsInv
  <2>4. CASE PipeAppend(c)
    BY <2>4, PipeAppendInv
  <2>5. CASE StartReading(c)
    BY <2>5, StartReadingInv
  <2>6. CASE PipeResponse(c) \/ ReplyIsError(c)
    BY <2>6, ReplyInv
  <2>7. CASE PipeRespFails(c)
    BY <2>7, PipeRespFailsInv
  <2>8. CASE Put(c)
    BY <2>8, PutInv
  <2> QED BY <2>1, <2>2, <2>3, <2>4, <2>5, <2>6, <2>7, <2>8 DEF Call
<1>2. CASE UNCHANGED poolVars
  BY <1>2 DEF poolVars, clients, calls, stats, Inv, PoolTypeOK, NotShared, CleanPool, NoCrosstalk,
     OwnQueue, Phase, Holding
<1> QED BY <1>1, <1>2

\* The variables keep their types: pending stays a natural number, which is the
\* assertion of PipeResponse() and of Put() in driver_impl.go.
THEOREM PoolTypeCorrect == PoolSpec => []PoolTypeOK
<1>1. Inv => PoolTypeOK
  BY DEF Inv
<1> QED BY <1>1, InitInv, NextInv, PTL DEF PoolSpec

\* For any number of calls, connections and commands, no call reads the reply
\* to another call's command (driver_impl.go, Put() and PipeResponse()).
THEOREM NoCrosstalkHolds == PoolSpec => []NoCrosstalk
<1>1. Inv => NoCrosstalk
  BY DEF Inv
<1> QED BY <1>1, InitInv, NextInv, PTL DEF PoolSpec

Holders == {c \in Calls : Holding(c)}

LEMMA HoldersFinite == IsFiniteSet(Holders)
<1>1. Holders \in SUBSET Calls
  BY DEF Holders
<1> QED BY <1>1, PoolAssumption, FS_Subset

LEMMA ActiveNext ==
    ASSUME Inv, ActiveExact, [PoolNext]_poolVars
    PROVE  ActiveExact'
<1>0. PoolTypeOK /\ active = Cardinality(Holders)
  BY DEF Inv, ActiveExact, Holders
<1> SUFFICES active' = Cardinality(Holders')
  BY DEF ActiveExact, Holders
<1>1. CASE UNCHANGED poolVars
  BY <1>0, <1>1 DEF poolVars, calls, stats, Holders, Holding
<1>2. ASSUME NEW c \in Calls, Call(c)
      PROVE  active' = Cardinality(Holders')
  <2>1. CASE \E k \in Clients, n \in Commands : Get(c, k, n)
    <3>1. pc[c] = "start" /\ pc' = [pc EXCEPT ![c] = "append"] /\ active' = active + 1
      BY <2>1 DEF Get
    <3>2. Holders' = Holders \cup {c} /\ c \notin Holders
      BY <1>0, <3>1 DEF Holders, Holding, PoolTypeOK
    <3> QED BY <1>0, <3>1, <3>2, HoldersFinite, FS_AddElement
  <2>2. CASE Put(c)
    <3>1. pc[c] = "put" /\ pc' = [pc EXCEPT ![c] = "done"] /\ active' = active - 1
      BY <2>2 DEF Put, ActiveAfterPut
    <3>2. Holders' = Holders \ {c} /\ c \in Holders
      BY <1>0, <3>1 DEF Holders, Holding, PoolTypeOK
    <3> QED BY <1>0, <3>1, <3>2, HoldersFinite, FS_RemoveElement
  <2>3. CASE GetFails(c) \/ PipeAppend(c) \/ StartReading(c)
             \/ PipeResponse(c) \/ ReplyIsError(c) \/ PipeRespFails(c)
    <3>1. active' = active
      BY <2>3 DEF GetFails, PipeAppend, StartReading, PipeResponse, ReplyIsError, PipeRespFails,
         stats
    <3>2. \A e \in Calls \ {c} : pc'[e] = pc[e]
      BY <1>0, <2>3 DEF GetFails, PipeAppend, StartReading, PipeResponse, ReplyIsError,
         PipeRespFails, PoolTypeOK
    <3>3. Holding(c)' <=> Holding(c)
      <4>1. CASE GetFails(c)
        BY <1>0, <4>1 DEF GetFails, Holding, PoolTypeOK
      <4>2. CASE PipeAppend(c)
        BY <4>2 DEF PipeAppend, Holding
      <4>3. CASE StartReading(c)
        BY <1>0, <4>3 DEF StartReading, Holding, PoolTypeOK
      <4>4. CASE PipeResponse(c)
        BY <1>0, <4>4 DEF PipeResponse, Holding, PoolTypeOK
      <4>5. CASE ReplyIsError(c) \/ PipeRespFails(c)
        BY <1>0, <4>5 DEF ReplyIsError, PipeRespFails, AfterPanic, Holding, PoolTypeOK
      <4> QED BY <2>3, <4>1, <4>2, <4>3, <4>4, <4>5
    <3>4. Holders' = Holders
      BY <3>2, <3>3 DEF Holders, Holding
    <3> QED BY <1>0, <3>1, <3>4
  <2> QED BY <1>2, <2>1, <2>2, <2>3 DEF Call
<1> QED BY <1>1, <1>2 DEF PoolNext

LEMMA ActiveInit == PoolInit => ActiveExact
<1> SUFFICES ASSUME PoolInit PROVE ActiveExact
  OBVIOUS
<1>1. {c \in Calls : Holding(c)} = {} /\ active = 0
  BY DEF PoolInit, Holding
<1> QED BY <1>1, FS_EmptySet DEF ActiveExact

\* cx_active is the number of connections in use after every step, the
\* panics of checkError included (driver_impl.go, Get() and Put()).
THEOREM ActiveExactHolds == PoolSpec => []ActiveExact
<1>1. Inv /\ ActiveExact /\ [PoolNext]_poolVars => (Inv /\ ActiveExact)'
  BY NextInv, ActiveNext
<1> QED BY <1>1, InitInv, ActiveInit, PTL DEF PoolSpec

----------------------------------------------------------------------------
Docs == [gen : Generations, hour : Hours, qty : [Files -> Nat]]
Write == [gen : Generations, hours : SUBSET Hours, state : {"removing", "inserting"}, docs : SUBSET Docs]

\* No line of f has been counted in this run.
Uncounted(f) == \A h \in DOMAIN byHour[current] : byHour[current][h][f] = 0

NoReads == readdirs = 0 /\ \A f \in Files : statting[f] = 0 /\ reading[f] = 0

\* A replacement finds the records it is to write, and writes one generation.
WritesOK ==
    /\ writes \in [DOMAIN writes -> Write] /\ statsColl \subseteq Docs
    /\ \A w \in DOMAIN writes :
          /\ writes[w].state = "removing" => writes[w].hours \subseteq DOMAIN byHour[writes[w].gen]
          /\ \A d \in writes[w].docs : d.gen = writes[w].gen

\* A file that no earlier run was reading is read at most once by a run, and before
\* it has been counted.
ReadOnce ==
    \A f \in Files \ strays[current] : ReadsOf(f) <= 1 /\ (ReadsOf(f) = 1 => Uncounted(f))

\* A run that has counted a line has its timer or its replacement to come.
Ends == running => writeTimeout \/ DOMAIN writes # {} \/ \A f \in Files : Uncounted(f)

\* The phases of a run follow each other, unless the timer went off too early.
OneAtATime ==
    outrun \/ /\ running \/ (NoReads /\ ~writeTimeout /\ DOMAIN writes = {})
              /\ DOMAIN writes = {} \/ (NoReads /\ ~writeTimeout)
              /\ \A v, w \in DOMAIN writes : v = w

\* What is counted, or is to be written, does not exceed the logs.
Within(qty, h, g) == \A f \in Files \ strays[g] : qty[f] <= log[f][h]
Kept(g) == IsRecords(byHour[g]) /\ \A h \in DOMAIN byHour[g] : Within(byHour[g][h], h, g)
Bounded ==
    /\ \A g \in Generations : Kept(g)
    /\ \A w \in DOMAIN writes : \A d \in writes[w].docs : Within(d.qty, d.hour, d.gen)
    /\ \A d \in statsColl : Within(d.qty, d.hour, d.gen)

LogInv == LogTypeOK /\ WritesOK /\ ReadOnce /\ Ends /\ OneAtATime /\ Bounded

----------------------------------------------------------------------------
LEMMA Bounds == MaxHour \in Nat /\ 0 \in Hours /\ MongoFaults \in BOOLEAN
  BY ConstantsAssumption DEF Hours

LEMMA ZeroLines == NoLines \in [Files -> Nat] /\ \A f \in Files : NoLines[f] = 0
  BY DEF NoLines

\* Records without an entry.
LEMMA NoRecords == IsRecords(<<>>) /\ DOMAIN <<>> = {}
  BY DEF IsRecords

\* What was counted, and is to be written, is left alone by the steps that touch
\* neither the records nor the collection.
LEMMA RecordsKept ==
    ASSUME LogInv, UNCHANGED <<log, byHour, current, writes, statsColl, strays>>
    PROVE  WritesOK' /\ Bounded' /\ \A f \in Files : Uncounted(f)' = Uncounted(f)
  BY DEF LogInv, WritesOK, Bounded, Kept, Within, Uncounted, IsRecords

LEMMA LogInitInv == LogInit => LogInv
<1>. SUFFICES ASSUME LogInit PROVE LogInv
  OBVIOUS
<1>1. byHour[1] = [h \in 0..0 |-> NoLines] /\ current = 1 /\ 1 \in Generations
  BY DEF LogInit, Generations
<1>2. DOMAIN byHour[current] = {0} /\ byHour[current][0] = NoLines
  BY <1>1
<1>4. log \in [Files -> [Hours -> Nat]]
  BY ConstantsAssumption DEF LogInit
<1>5. writes = <<>> /\ DOMAIN writes = {} /\ statsColl = {} /\ DOMAIN byHour = Generations
      /\ \A g \in Generations : g # 1 => byHour[g] = <<>>
  BY DEF LogInit
<1>6. IsRecords(byHour[current])
  BY <1>1, <1>2, ZeroLines, Bounds DEF IsRecords
<1>7. LogTypeOK
  BY <1>1, <1>4, <1>5, <1>6, Bounds, ConstantsAssumption DEF LogInit, LogTypeOK, WriteIds
<1>8. WritesOK
  BY <1>5 DEF WritesOK, LogInit
<1>9. ReadOnce /\ Ends /\ OneAtATime
  BY <1>2, <1>5, ZeroLines DEF LogInit, ReadOnce, ReadsOf, Ends, OneAtATime, Uncounted, NoReads
<1>10. Bounded
  <2>1. ASSUME NEW g \in Generations PROVE Kept(g)
    <3>1. CASE g = 1
      BY <1>1, <1>2, <1>4, <1>6, <3>1, ZeroLines, Bounds DEF Kept, Within
    <3>2. CASE g # 1
      BY <1>5, <3>2, NoRecords DEF Kept
    <3>. QED
      BY <3>1, <3>2
  <2>. QED
    BY <1>5, <2>1 DEF Bounded
<1>. QED
  BY <1>7, <1>8, <1>9, <1>10 DEF LogInv

\* A log only grows.
LEMMA WorldInv ==
    ASSUME LogInv, World
    PROVE  LogInv'
<1>1. UNCHANGED <<running, reRunFlag, timeout, writeTimeout, byHour, current, readdirs, statting, reading,
                  writes, statsColl, daemonCrashed, strays, outrun, outruns>>
  BY DEF World, Tick, Create, Log, Unlink, flags, reads, history
<1>2. log' \in [Files -> [Hours -> Nat]] /\ \A f \in Files, h \in Hours : log[f][h] <= log'[f][h]
  <2>1. log \in [Files -> [Hours -> Nat]] /\ time \in Hours
    BY DEF LogInv, LogTypeOK
  <2>2. CASE UNCHANGED log
    <3>1. \A f \in Files, h \in Hours : log[f][h] \in Nat
      BY <2>1
    <3>. QED
      BY <2>1, <2>2, <3>1
  <2>3. ASSUME NEW f \in Files, Log(f)
        PROVE  log' \in [Files -> [Hours -> Nat]] /\ \A g \in Files, h \in Hours : log[g][h] <= log'[g][h]
    <3>1. log' = [log EXCEPT ![f] = [log[f] EXCEPT ![time] = log[f][time] + 1]]
      BY <2>1, <2>3 DEF Log
    <3>2. log[f] \in [Hours -> Nat] /\ log[f][time] \in Nat
      BY <2>1
    <3>3. [log[f] EXCEPT ![time] = log[f][time] + 1] \in [Hours -> Nat]
      BY <2>1, <3>2
    <3>4. \A g \in Files, h \in Hours : log[g][h] \in Nat
      BY <2>1
    <3>. QED
      BY <2>1, <3>1, <3>2, <3>3, <3>4
  <2>. QED
    BY <2>2, <2>3 DEF World, Tick, Create, Unlink
<1>3. exists' \subseteq Files /\ changed' \subseteq Files /\ time' \in Hours
  BY Bounds DEF World, Tick, Create, Log, Unlink, LogInv, LogTypeOK, Hours
<1>4. LogTypeOK'
  BY <1>1, <1>2, <1>3 DEF LogInv, LogTypeOK
<1>5. WritesOK' /\ ReadOnce' /\ Ends' /\ OneAtATime'
  BY <1>1 DEF LogInv, WritesOK, ReadOnce, ReadsOf, Ends, OneAtATime, Uncounted, NoReads
<1>6. Bounded'
  <2>1. \A f \in Files, h \in Hours : log[f][h] \in Nat /\ log'[f][h] \in Nat /\ log[f][h] <= log'[f][h]
    BY <1>2 DEF LogInv, LogTypeOK
  <2>2. ASSUME NEW q \in [Files -> Nat], NEW h \in Hours, NEW g \in Generations, Within(q, h, g)
        PROVE  Within(q, h, g)'
    BY <1>1, <2>1, <2>2 DEF Within
  <2>3. ASSUME NEW g \in Generations PROVE Kept(g)'
    <3>1. Kept(g) /\ \A h \in DOMAIN byHour[g] : h \in Hours /\ byHour[g][h] \in [Files -> Nat]
      BY DEF LogInv, Bounded, Kept, IsRecords
    <3>2. IsRecords(byHour[g])'
      BY <1>1, <3>1 DEF Kept, IsRecords
    <3>. QED
      BY <1>1, <2>2, <3>1, <3>2 DEF Kept
  <2>4. \A d \in Docs : d.gen \in Generations /\ d.hour \in Hours /\ d.qty \in [Files -> Nat]
    BY DEF Docs
  <2>5. \A w \in DOMAIN writes : writes[w].docs \subseteq Docs
    BY DEF LogInv, WritesOK, Write
  <2>6. statsColl \subseteq Docs
    BY DEF LogInv, WritesOK
  <2>7. ASSUME NEW w \in DOMAIN writes, NEW d \in writes[w].docs PROVE Within(d.qty, d.hour, d.gen)'
    <3>1. Within(d.qty, d.hour, d.gen) /\ d \in Docs
      BY <2>5 DEF LogInv, Bounded
    <3>. QED
      BY <1>1, <2>2, <2>4, <3>1
  <2>8. ASSUME NEW d \in statsColl PROVE Within(d.qty, d.hour, d.gen)'
    <3>1. Within(d.qty, d.hour, d.gen) /\ d \in Docs
      BY <2>6 DEF LogInv, Bounded
    <3>. QED
      BY <1>1, <2>2, <2>4, <3>1
  <2>. QED
    BY <1>1, <2>3, <2>7, <2>8 DEF Bounded
<1>. QED
  BY <1>4, <1>5, <1>6 DEF LogInv

\* When the process dies only the collection is left.
LEMMA DiesInv ==
    ASSUME LogInv, Dies, UNCHANGED world,
           statsColl' \subseteq Docs, \A d \in statsColl' : Within(d.qty, d.hour, d.gen)
    PROVE  LogInv'
<1>1. /\ UNCHANGED <<log, exists, changed, time, current, strays, outrun, outruns>>
      /\ readdirs' = 0 /\ statting' = [f \in Files |-> 0] /\ reading' = [f \in Files |-> 0]
      /\ writes' = <<>> /\ DOMAIN writes' = {}
      /\ running' = FALSE /\ reRunFlag' = FALSE /\ timeout' = FALSE /\ writeTimeout' = FALSE /\ daemonCrashed' = TRUE
      /\ DOMAIN byHour' = Generations /\ \A g \in Generations : byHour'[g] = <<>>
  BY DEF Dies, world
<1>2. current \in Generations
  BY DEF LogInv, LogTypeOK
<1>3. \A g \in Generations : IsRecords(byHour'[g]) /\ DOMAIN byHour'[g] = {}
  BY <1>1, NoRecords
<1>4. LogTypeOK'
  BY <1>1, <1>2, <1>3 DEF LogInv, LogTypeOK
<1>5. WritesOK'
  BY <1>1 DEF WritesOK
<1>6. ReadOnce' /\ Ends' /\ OneAtATime'
  BY <1>1 DEF ReadOnce, ReadsOf, Ends, OneAtATime, NoReads
<1>7. Bounded'
  <2>1. \A d \in statsColl' : Within(d.qty, d.hour, d.gen)'
    BY <1>1 DEF Within
  <2>2. \A g \in Generations : Kept(g)'
    BY <1>3 DEF Kept, IsRecords
  <2>. QED
    BY <1>1, <2>1, <2>2 DEF Bounded
<1>. QED
  BY <1>4, <1>5, <1>6, <1>7 DEF LogInv

LEMMA DiesKeepsInv ==
    ASSUME LogInv, Dies, UNCHANGED world, UNCHANGED statsColl
    PROVE  LogInv'
  BY DiesInv DEF LogInv, WritesOK, Bounded

\* A run starts from records that hold nothing; a file it has to share with the
\* reads of an earlier run is noted as a stray.
LEMMA AggregateInv ==
    ASSUME LogInv, aggregateLogs,
           UNCHANGED <<log, exists, time, writeTimeout, statting, reading, writes, statsColl, daemonCrashed>>,
           changed' \subseteq Files
    PROVE  LogInv'
<1>1. CASE Busy
  <2>1. UNCHANGED <<running, timeout, byHour, current, readdirs, strays, outrun, outruns>> /\ reRunFlag' = TRUE
    BY <1>1 DEF aggregateLogs, history
  <2>2. LogTypeOK'
    BY <2>1 DEF LogInv, LogTypeOK
  <2>3. WritesOK' /\ Bounded' /\ \A f \in Files : Uncounted(f)' = Uncounted(f)
    BY <2>1, RecordsKept
  <2>4. ReadOnce' /\ Ends' /\ OneAtATime'
    BY <2>1, <2>3 DEF LogInv, ReadOnce, ReadsOf, Ends, OneAtATime, NoReads
  <2>. QED
    BY <2>2, <2>3, <2>4 DEF LogInv
<1>2. CASE ~Busy
  <2>1. PICK g \in Generations \ InUse :
        /\ current' = g
        /\ byHour' = [k \in Generations |-> IF k = g THEN EmptyRecords
                                           ELSE IF Referenced(k) THEN byHour[k] ELSE <<>>]
        /\ strays' = [k \in Generations |-> IF k = g THEN {f \in Files : ReadsOf(f) > 0}
                                           ELSE IF k \in InUse THEN strays[k] ELSE {}]
    BY <1>2 DEF aggregateLogs
  <2>2. /\ ~running /\ running' = TRUE /\ timeout' = FALSE /\ UNCHANGED <<reRunFlag, outruns>>
        /\ readdirs' = readdirs + 1
        /\ outrun' = (outrun /\ (ReadsPending \/ writeTimeout \/ DOMAIN writes # {}))
    BY <1>2 DEF aggregateLogs, Busy
  <2>3. readdirs \in Nat /\ statting \in [Files -> Nat] /\ reading \in [Files -> Nat] /\ outrun \in BOOLEAN
        /\ DOMAIN byHour = Generations /\ strays \in [Generations -> SUBSET Files] /\ time \in Hours
    BY DEF LogInv, LogTypeOK
  <2>4. DOMAIN byHour' = Generations /\ byHour'[g] = EmptyRecords /\ strays'[g] = {f \in Files : ReadsOf(f) > 0}
    BY <2>1
  <2>5. DOMAIN EmptyRecords = 0..time /\ (\A h \in 0..time : EmptyRecords[h] = NoLines) /\ 0..time \subseteq Hours
    BY <2>3, Bounds DEF EmptyRecords, Hours
  <2>6. IsRecords(EmptyRecords)
    BY <2>5, ZeroLines DEF IsRecords, EmptyRecords
  <2>7. LogTypeOK'
    <3>1. strays' \in [Generations -> SUBSET Files]
      BY <2>1, <2>3
    <3>2. {running', reRunFlag', timeout', writeTimeout', daemonCrashed'} \subseteq BOOLEAN /\ outrun' \in BOOLEAN
      BY <2>2, <2>3 DEF LogInv, LogTypeOK
    <3>3. IsRecords(byHour[current])'
      BY <2>1, <2>4, <2>6 DEF IsRecords
    <3>. QED
      BY <2>1, <2>2, <2>3, <2>4, <3>1, <3>2, <3>3 DEF LogInv, LogTypeOK
  <2>8. \A f \in Files : Uncounted(f)'
    BY <2>1, <2>4, <2>5, ZeroLines DEF Uncounted
  <2>9. ReadOnce'
    <3>1. ASSUME NEW f \in Files \ strays'[g] PROVE ReadsOf(f)' = 1
      <4>1. ~(ReadsOf(f) > 0) /\ ReadsOf(f) \in Nat
        BY <2>3, <2>4, <3>1 DEF ReadsOf
      <4>2. readdirs = 0 /\ statting[f] = 0 /\ reading[f] = 0
        BY <2>3, <4>1 DEF ReadsOf
      <4>. QED
        BY <2>2, <4>2 DEF ReadsOf
    <3>. QED
      BY <2>1, <2>8, <3>1 DEF ReadOnce
  <2>10. Ends'
    BY <2>8 DEF Ends
  <2>11. OneAtATime'
    <3>1. CASE outrun'
      BY <3>1 DEF OneAtATime
    <3>2. CASE ~outrun'
      <4>1. DOMAIN writes = {}
        BY <2>2, <3>2 DEF LogInv, OneAtATime
      <4>. QED
        BY <2>2, <4>1 DEF OneAtATime
    <3>. QED
      BY <3>1, <3>2
  <2>12. \A k \in InUse : k # g
    BY <2>1
  <2>13. \A w \in DOMAIN writes : writes[w].gen \in InUse /\ (writes[w].state = "removing" => Referenced(writes[w].gen))
    BY DEF InUse, Referenced
  <2>14. \A d \in statsColl : d.gen \in InUse
    BY DEF InUse
  <2>15. \A k \in InUse : k \in Generations => strays'[k] = strays[k]
    BY <2>1, <2>12
  <2>16. \A k \in Generations : k # g /\ Referenced(k) => byHour'[k] = byHour[k] /\ k \in InUse
    BY <2>1 DEF InUse, Referenced
  <2>17. WritesOK'
    <3>1. \A w \in DOMAIN writes : writes[w] \in Write
      BY DEF LogInv, WritesOK
    <3>2. \A w \in DOMAIN writes : writes[w].gen \in Generations
      BY <3>1 DEF Write
    <3>3. \A w \in DOMAIN writes : writes[w].state = "removing" => byHour'[writes[w].gen] = byHour[writes[w].gen]
      BY <2>12, <2>13, <2>16, <3>2
    <3>. QED
      BY <3>3 DEF LogInv, WritesOK
  <2>18. Bounded'
    <3>1. ASSUME NEW k \in Generations PROVE Kept(k)'
      <4>1. CASE k = g
        <5>1. \A f \in Files, h \in Hours : log[f][h] \in Nat
          BY DEF LogInv, LogTypeOK
        <5>2. \A h \in 0..time : Within(NoLines, h, g)'
          BY <2>5, <5>1, ZeroLines DEF Within, NoLines
        <5>3. IsRecords(byHour'[k])
          BY <2>4, <2>6, <4>1
        <5>. QED
          BY <2>4, <2>5, <4>1, <5>2, <5>3 DEF Kept, IsRecords, Within, NoLines
      <4>2. CASE k # g /\ Referenced(k)
        <5>1. byHour'[k] = byHour[k] /\ strays'[k] = strays[k]
          BY <2>15, <2>16, <4>2
        <5>. QED
          BY <5>1 DEF LogInv, Bounded, Kept, IsRecords, Within
      <4>3. CASE k # g /\ ~Referenced(k)
        <5>1. byHour'[k] = <<>>
          BY <2>1, <4>3
        <5>. QED
          BY <5>1, NoRecords DEF Kept, IsRecords
      <4>. QED
        BY <4>1, <4>2, <4>3
    <3>2. ASSUME NEW w \in DOMAIN writes, NEW d \in writes[w].docs PROVE Within(d.qty, d.hour, d.gen)'
      <4>1. d.gen = writes[w].gen /\ writes[w] \in Write
        BY DEF LogInv, WritesOK
      <4>2. strays'[d.gen] = strays[d.gen]
        BY <2>13, <2>15, <4>1 DEF Write
      <4>. QED
        BY <4>2 DEF LogInv, Bounded, Within
    <3>3. ASSUME NEW d \in statsColl PROVE Within(d.qty, d.hour, d.gen)'
      <4>1. d.gen \in Generations
        BY DEF LogInv, WritesOK, Docs
      <4>2. strays'[d.gen] = strays[d.gen]
        BY <2>14, <2>15, <4>1
      <4>. QED
        BY <4>2 DEF LogInv, Bounded, Within
    <3>. QED
      BY <3>1, <3>2, <3>3 DEF Bounded
  <2>. QED
    BY <2>7, <2>9, <2>10, <2>11, <2>17, <2>18 DEF LogInv
<1>. QED
  BY <1>1, <1>2

LEMMA TimersInv ==
    ASSUME LogInv, RerunTimeout \/ \E f \in Files : WatcherEvent(f)
    PROVE  LogInv'
<1>1. CASE \E f \in Files : WatcherEvent(f)
  <2>1. PICK f \in Files : WatcherEvent(f)
    BY <1>1
  <2>2. changed' \subseteq Files
    BY <2>1 DEF WatcherEvent, LogInv, LogTypeOK
  <2>. QED
    BY <2>1, <2>2, AggregateInv DEF WatcherEvent
<1>2. CASE RerunTimeout /\ ~Busy
  <2>1. changed' \subseteq Files
    BY <1>2 DEF RerunTimeout, world, LogInv, LogTypeOK
  <2>. QED
    BY <1>2, <2>1, AggregateInv DEF RerunTimeout, world
<1>3. CASE RerunTimeout /\ Busy
  <2>1. /\ UNCHANGED <<running, byHour, current, readdirs, log, exists, changed, time, writeTimeout, statting, reading,
                       writes, statsColl, daemonCrashed, strays, outrun, outruns>>
        /\ timeout' = FALSE /\ reRunFlag' = TRUE
    BY <1>3 DEF RerunTimeout, world, history
  <2>2. LogTypeOK'
    BY <2>1 DEF LogInv, LogTypeOK
  <2>3. WritesOK' /\ Bounded' /\ \A f \in Files : Uncounted(f)' = Uncounted(f)
    BY <2>1, RecordsKept
  <2>4. ReadOnce' /\ Ends' /\ OneAtATime'
    BY <2>1, <2>3 DEF LogInv, ReadOnce, ReadsOf, Ends, OneAtATime, NoReads
  <2>. QED
    BY <2>2, <2>3, <2>4 DEF LogInv
<1>. QED
  BY <1>1, <1>2, <1>3

\* The records of the current run change, those of the others do not.
LEMMA CurrentChanges ==
    ASSUME LogInv, UNCHANGED <<log, current, writes, statsColl, strays>>,
           NEW r, byHour' = [byHour EXCEPT ![current] = r],
           IsRecords(r), DOMAIN byHour[current] \subseteq DOMAIN r,
           \A h \in DOMAIN r : Within(r[h], h, current)
    PROVE  WritesOK' /\ Bounded' /\ byHour'[current] = r /\ DOMAIN byHour' = Generations /\ IsRecords(byHour[current])'
<1>1. current \in Generations /\ DOMAIN byHour = Generations
  BY DEF LogInv, LogTypeOK
<1>2. byHour'[current] = r /\ DOMAIN byHour' = Generations /\ \A g \in Generations : g # current => byHour'[g] = byHour[g]
  BY <1>1
<1>3. \A w \in DOMAIN writes : writes[w] \in Write /\ writes[w].gen \in Generations
  BY DEF LogInv, WritesOK, Write
<1>4. WritesOK'
  <2>1. ASSUME NEW w \in DOMAIN writes, writes[w].state = "removing"
        PROVE  writes[w].hours \subseteq DOMAIN byHour'[writes[w].gen]
    <3>1. writes[w].hours \subseteq DOMAIN byHour[writes[w].gen]
      BY <2>1 DEF LogInv, WritesOK
    <3>. QED
      BY <1>2, <1>3, <3>1
  <2>. QED
    BY <2>1 DEF LogInv, WritesOK
<1>5. ASSUME NEW g \in Generations PROVE Kept(g)'
  <2>1. CASE g = current
    BY <1>2, <2>1 DEF Kept, IsRecords, Within
  <2>2. CASE g # current
    BY <1>2, <2>2 DEF LogInv, Bounded, Kept, IsRecords, Within
  <2>. QED
    BY <2>1, <2>2
<1>6. Bounded'
  <2>1. (\A w \in DOMAIN writes : \A d \in writes[w].docs : Within(d.qty, d.hour, d.gen)')
        /\ \A d \in statsColl : Within(d.qty, d.hour, d.gen)'
    BY DEF LogInv, Bounded, Within
  <2>. QED
    BY <1>5, <2>1 DEF Bounded
<1>. QED
  BY <1>2, <1>4, <1>6 DEF IsRecords

LEMMA FillHourGapsInv ==
    ASSUME LogInv, FillHourGaps
    PROVE  LogInv'
<1>. DEFINE old == byHour[current]
            new == Filled(old)
<1>1. /\ UNCHANGED <<log, exists, changed, time, running, reRunFlag, timeout, writeTimeout, current, readdirs, statting,
                     reading, writes, statsColl, daemonCrashed, strays, outrun, outruns>>
      /\ byHour' = [byHour EXCEPT ![current] = new]
  BY DEF FillHourGaps, world, flags, reads, history
<1>2. IsRecords(old) /\ 0..time \subseteq Hours /\ current \in Generations
  BY Bounds DEF LogInv, LogTypeOK, Hours
<1>4. DOMAIN new = DOMAIN old \cup 0..time /\ \A h \in DOMAIN new : new[h] = IF h \in DOMAIN old THEN old[h] ELSE NoLines
  BY DEF Filled
<1>5. IsRecords(new)
  BY <1>2, ZeroLines DEF IsRecords, Filled
<1>6. ASSUME NEW h \in DOMAIN new PROVE Within(new[h], h, current)
  <2>1. CASE h \in DOMAIN old
    BY <1>2, <1>4, <2>1 DEF LogInv, Bounded, Kept
  <2>2. CASE h \notin DOMAIN old
    <3>1. h \in Hours /\ new[h] = NoLines
      BY <1>2, <1>4, <2>2
    <3>2. \A f \in Files : log[f][h] \in Nat
      BY <3>1 DEF LogInv, LogTypeOK
    <3>. QED
      BY <3>1, <3>2, ZeroLines DEF Within
  <2>. QED
    BY <2>1, <2>2
<1>. HIDE DEF new
<1>7. WritesOK' /\ Bounded' /\ byHour'[current] = new /\ DOMAIN byHour' = Generations /\ IsRecords(byHour[current])'
  BY <1>1, <1>4, <1>5, <1>6, CurrentChanges
<1>8. LogTypeOK'
  BY <1>1, <1>7 DEF LogInv, LogTypeOK
<1>9. \A f \in Files : Uncounted(f) => Uncounted(f)'
  BY <1>1, <1>4, <1>7, ZeroLines DEF Uncounted
<1>10. ReadOnce' /\ Ends' /\ OneAtATime'
  BY <1>1, <1>9 DEF LogInv, ReadOnce, ReadsOf, Ends, OneAtATime, NoReads
<1>. QED
  BY <1>7, <1>8, <1>10 DEF LogInv

LEMMA WalkInv ==
    ASSUME LogInv, ReaddirDone \/ \E f \in Files : StatDone(f)
    PROVE  LogInv'
<1>1. readdirs \in Nat /\ statting \in [Files -> Nat] /\ reading \in [Files -> Nat] /\ exists \subseteq Files
  BY DEF LogInv, LogTypeOK
<1>2. ASSUME UNCHANGED <<log, exists, changed, time, running, reRunFlag, timeout, writeTimeout, byHour, current, writes,
                         statsColl, daemonCrashed, strays, outrun, outruns>>,
             readdirs' \in Nat, statting' \in [Files -> Nat], reading' \in [Files -> Nat], ~NoReads,
             \A f \in Files : ReadsOf(f)' \in Nat /\ ReadsOf(f) \in Nat /\ ReadsOf(f)' <= ReadsOf(f)
      PROVE  LogInv'
  <2>1. WritesOK' /\ Bounded' /\ \A f \in Files : Uncounted(f)' = Uncounted(f)
    BY <1>2, RecordsKept
  <2>2. LogTypeOK'
    BY <1>2 DEF LogInv, LogTypeOK
  <2>3. ReadOnce'
    <3>1. ASSUME NEW f \in Files \ strays[current] PROVE ReadsOf(f)' <= 1 /\ (ReadsOf(f)' = 1 => Uncounted(f)')
      <4>1. ReadsOf(f) <= 1 /\ (ReadsOf(f) = 1 => Uncounted(f))
        BY DEF LogInv, ReadOnce
      <4>2. ReadsOf(f)' = 1 => ReadsOf(f) = 1
        BY <1>2, <4>1
      <4>. QED
        BY <1>2, <2>1, <4>1, <4>2
    <3>. QED
      BY <1>2, <3>1 DEF ReadOnce
  <2>4. Ends' /\ OneAtATime'
    BY <1>2, <2>1 DEF LogInv, Ends, OneAtATime
  <2>. QED
    BY <2>1, <2>2, <2>3, <2>4 DEF LogInv
<1>3. CASE ReaddirDone
  <2>1. /\ readdirs > 0 /\ readdirs' = readdirs - 1 /\ UNCHANGED reading
        /\ statting' = [f \in Files |-> IF f \in exists THEN statting[f] + 1 ELSE statting[f]]
        /\ UNCHANGED <<log, exists, changed, time, running, reRunFlag, timeout, writeTimeout, byHour, current, writes,
                       statsColl, daemonCrashed, strays, outrun, outruns>>
    BY <1>3 DEF ReaddirDone, world, flags, history
  <2>2. readdirs' \in Nat /\ statting' \in [Files -> Nat] /\ reading' \in [Files -> Nat] /\ ~NoReads
    BY <1>1, <2>1 DEF NoReads
  <2>3. \A f \in Files : ReadsOf(f)' \in Nat /\ ReadsOf(f) \in Nat /\ ReadsOf(f)' <= ReadsOf(f)
    BY <1>1, <2>1, <2>2 DEF ReadsOf
  <2>. QED
    BY <1>2, <2>1, <2>2, <2>3
<1>4. ASSUME NEW f \in Files, StatDone(f), f \in exists PROVE LogInv'
  <2>1. /\ statting[f] > 0 /\ UNCHANGED readdirs
        /\ statting' = [statting EXCEPT ![f] = statting[f] - 1]
        /\ reading' = [reading EXCEPT ![f] = reading[f] + 1]
        /\ UNCHANGED <<log, exists, changed, time, running, reRunFlag, timeout, writeTimeout, byHour, current, writes,
                       statsColl, daemonCrashed, strays, outrun, outruns>>
    BY <1>4 DEF StatDone, world, flags, history
  <2>2. readdirs' \in Nat /\ statting' \in [Files -> Nat] /\ reading' \in [Files -> Nat] /\ ~NoReads
    BY <1>1, <2>1 DEF NoReads
  <2>3. \A g \in Files : ReadsOf(g)' \in Nat /\ ReadsOf(g) \in Nat /\ ReadsOf(g)' <= ReadsOf(g)
    <3>1. ASSUME NEW g \in Files PROVE statting'[g] + reading'[g] = statting[g] + reading[g]
      BY <1>1, <2>1
    <3>. QED
      BY <1>1, <2>1, <2>2, <3>1 DEF ReadsOf
  <2>. QED
    BY <1>2, <2>1, <2>2, <2>3
<1>5. ASSUME NEW f \in Files, StatDone(f), f \notin exists PROVE LogInv'
  BY <1>5, DiesKeepsInv DEF StatDone
<1>. QED
  BY <1>3, <1>4, <1>5

LEMMA ReadFileDoneInv ==
    ASSUME LogInv, NEW f \in Files, ReadFileDone(f)
    PROVE  LogInv'
<1>1. CASE ~(f \in exists /\ DaysKnown(f))
  BY <1>1, DiesKeepsInv DEF ReadFileDone
<1>2. CASE f \in exists /\ DaysKnown(f)
  <2>. DEFINE old == byHour[current]
              new == Counted(f)
              before(h) == IF h \in DOMAIN old THEN old[h] ELSE NoLines
              hours == {h \in Hours : log[f][h] > 0}
  <2>1. /\ UNCHANGED <<log, exists, changed, time, running, reRunFlag, timeout, current, readdirs, statting, writes,
                       statsColl, daemonCrashed, strays, outrun, outruns>>
        /\ reading[f] > 0 /\ reading' = [reading EXCEPT ![f] = reading[f] - 1]
        /\ byHour' = [byHour EXCEPT ![current] = new] /\ writeTimeout' = WriteTimerAfter(f)
    BY <1>2 DEF ReadFileDone, world, flags, history
  <2>2. /\ readdirs \in Nat /\ statting \in [Files -> Nat] /\ reading \in [Files -> Nat]
        /\ current \in Generations /\ IsRecords(old) /\ log \in [Files -> [Hours -> Nat]]
    BY DEF LogInv, LogTypeOK
  <2>3. f \notin strays[current] => ReadsOf(f) = 1 /\ Uncounted(f)
    <3>. SUFFICES ASSUME f \notin strays[current] PROVE ReadsOf(f) = 1 /\ Uncounted(f)
      OBVIOUS
    <3>1. ReadsOf(f) <= 1 /\ (ReadsOf(f) = 1 => Uncounted(f))
      BY DEF LogInv, ReadOnce
    <3>2. ReadsOf(f) = 1
      <4>1. readdirs \in Nat /\ statting[f] \in Nat /\ reading[f] \in Nat /\ reading[f] > 0
        BY <2>1, <2>2
      <4>. QED
        BY <3>1, <4>1 DEF ReadsOf
    <3>. QED
      BY <3>1, <3>2
  <2>4. new = [h \in DOMAIN old \cup hours |-> [before(h) EXCEPT ![f] = before(h)[f] + log[f][h]]]
    BY DEF Counted
  <2>5. \A h \in DOMAIN old \cup hours : h \in Hours /\ before(h) \in [Files -> Nat]
    BY <2>2, ZeroLines DEF IsRecords
  <2>6. \A h \in Hours : log[f][h] \in Nat
    BY <2>2
  <2>. HIDE DEF before, new
  <2>7. DOMAIN new = DOMAIN old \cup hours
    BY <2>4
  <2>8. \A h \in DOMAIN new : /\ h \in Hours /\ new[h] \in [Files -> Nat]
                              /\ new[h][f] = before(h)[f] + log[f][h]
                              /\ \A g \in Files : g # f => new[h][g] = before(h)[g]
    BY <2>4, <2>5, <2>6, <2>7
  <2>9. Uncounted(f) => \A h \in DOMAIN new : new[h][f] = log[f][h]
    <3>. SUFFICES ASSUME Uncounted(f), NEW h \in DOMAIN new PROVE new[h][f] = log[f][h]
      OBVIOUS
    <3>1. before(h)[f] = 0
      BY ZeroLines DEF Uncounted, before
    <3>. QED
      BY <2>6, <2>8, <3>1
  <2>10. IsRecords(new)
    <3>1. new = [h \in DOMAIN new |-> new[h]]
      BY <2>4
    <3>. QED
      BY <3>1, <2>8 DEF IsRecords
  <2>11. ASSUME NEW h \in DOMAIN new PROVE Within(new[h], h, current)
    <3>. SUFFICES ASSUME NEW g \in Files \ strays[current] PROVE new[h][g] <= log[g][h]
      BY DEF Within
    <3>1. log[g][h] \in Nat
      BY <2>2, <2>8
    <3>2. CASE g = f
      BY <2>3, <2>9, <3>1, <3>2
    <3>3. CASE g # f /\ h \in DOMAIN old
      <4>1. old[h][g] <= log[g][h]
        BY <2>2, <3>3 DEF LogInv, Bounded, Kept, Within
      <4>. QED
        BY <2>8, <3>3, <4>1 DEF before
    <3>4. CASE g # f /\ h \notin DOMAIN old
      BY <2>8, <3>1, <3>4, ZeroLines DEF before
    <3>. QED
      BY <3>2, <3>3, <3>4
  <2>12. WritesOK' /\ Bounded' /\ byHour'[current] = new /\ DOMAIN byHour' = Generations /\ IsRecords(byHour[current])'
    BY <2>1, <2>7, <2>10, <2>11, CurrentChanges
  <2>13. \A g \in Files : g # f /\ Uncounted(g) => Uncounted(g)'
    BY <2>1, <2>8, <2>12, ZeroLines DEF Uncounted, before
  <2>14. ~HasLine(f) /\ Uncounted(f) => Uncounted(f)'
    BY <2>1, <2>6, <2>8, <2>9, <2>12 DEF Uncounted, HasLine
  <2>15. reading' \in [Files -> Nat] /\ reading'[f] = reading[f] - 1 /\ \A g \in Files : g # f => reading'[g] = reading[g]
    BY <2>1, <2>2
  <2>16. LogTypeOK'
    <3>1. writeTimeout' \in BOOLEAN
      BY <2>1 DEF WriteTimerAfter, HasLine, LogInv, LogTypeOK
    <3>. QED
      BY <2>1, <2>12, <2>15, <3>1 DEF LogInv, LogTypeOK
  <2>17. ReadOnce'
    <3>. SUFFICES ASSUME NEW g \in Files \ strays[current] PROVE ReadsOf(g)' <= 1 /\ (ReadsOf(g)' = 1 => Uncounted(g)')
      BY <2>1 DEF ReadOnce
    <3>1. CASE g = f
      BY <2>1, <2>2, <2>3, <2>15, <3>1 DEF ReadsOf
    <3>2. CASE g # f
      <4>1. ReadsOf(g)' = ReadsOf(g)
        BY <2>1, <2>15, <3>2 DEF ReadsOf
      <4>. QED
        BY <2>13, <3>2, <4>1 DEF LogInv, ReadOnce
    <3>. QED
      BY <3>1, <3>2
  <2>18. Ends'
    BY <2>1, <2>13, <2>14 DEF LogInv, Ends, WriteTimerAfter
  <2>19. OneAtATime'
    <3>1. ~NoReads
      BY <2>1, <2>2 DEF NoReads
    <3>. QED
      BY <2>1, <3>1 DEF LogInv, OneAtATime
  <2>. QED
    BY <2>12, <2>16, <2>17, <2>18, <2>19 DEF LogInv
<1>. QED
  BY <1>1, <1>2

\* When the timer ends the reading, what it starts is the only replacement.
LEMMA WriteTimeoutInv ==
    ASSUME LogInv, WriteTimeout
    PROVE  LogInv'
<1>1. /\ UNCHANGED <<log, exists, changed, time, running, reRunFlag, timeout, byHour, current, readdirs, statting, reading,
                     statsColl, daemonCrashed, strays>>
      /\ writeTimeout /\ writeTimeout' = FALSE
      /\ outrun' = (outrun \/ ReadsPending) /\ outruns' = IF ReadsPending THEN outruns + 1 ELSE outruns
  BY DEF WriteTimeout, world, flags, reads
<1>. DEFINE rec == [gen |-> current, hours |-> DOMAIN byHour[current], state |-> "removing", docs |-> {}]
<1>2. PICK w \in WriteIds \ DOMAIN writes :
         writes' = [k \in DOMAIN writes \cup {w} |-> IF k = w THEN rec ELSE writes[k]]
  BY DEF WriteTimeout
<1>3. current \in Generations /\ DOMAIN byHour[current] \subseteq Hours
  BY DEF LogInv, LogTypeOK, IsRecords
<1>4. rec \in Write /\ rec.gen = current /\ rec.hours = DOMAIN byHour[current] /\ rec.docs = {}
  BY <1>3 DEF Write
<1>. HIDE DEF rec
<1>5. DOMAIN writes' = DOMAIN writes \cup {w} /\ writes'[w] = rec /\ \A k \in DOMAIN writes : writes'[k] = writes[k]
  BY <1>2
<1>6. LogTypeOK'
  <2>1. outrun' \in BOOLEAN /\ outruns' \in Nat
    BY <1>1 DEF LogInv, LogTypeOK, ReadsPending
  <2>. QED
    BY <1>1, <1>2, <1>5, <2>1 DEF LogInv, LogTypeOK
<1>7. WritesOK'
  <2>1. writes' \in [DOMAIN writes' -> Write]
    BY <1>2, <1>4, <1>5 DEF LogInv, WritesOK
  <2>2. ASSUME NEW k \in DOMAIN writes'
        PROVE  /\ writes'[k].state = "removing" => writes'[k].hours \subseteq DOMAIN byHour[writes'[k].gen]
               /\ \A d \in writes'[k].docs : d.gen = writes'[k].gen
    <3>1. CASE k = w
      BY <1>4, <1>5, <3>1
    <3>2. CASE k # w
      BY <1>5, <3>2 DEF LogInv, WritesOK
    <3>. QED
      BY <3>1, <3>2
  <2>. QED
    BY <1>1, <2>1, <2>2 DEF LogInv, WritesOK
<1>8. ReadOnce'
  BY <1>1 DEF LogInv, ReadOnce, ReadsOf, Uncounted
<1>9. Ends'
  BY <1>5 DEF Ends
<1>10. OneAtATime'
  <2>1. CASE outrun'
    BY <2>1 DEF OneAtATime
  <2>2. CASE ~outrun'
    <3>1. ~outrun /\ ~ReadsPending
      BY <1>1, <2>2
    <3>2. running /\ DOMAIN writes = {}
      BY <1>1, <3>1 DEF LogInv, OneAtATime
    <3>3. NoReads
      <4>1. readdirs \in Nat /\ statting \in [Files -> Nat] /\ reading \in [Files -> Nat]
        BY DEF LogInv, LogTypeOK
      <4>. QED
        BY <3>1, <4>1 DEF ReadsPending, NoReads
    <3>. QED
      BY <1>1, <1>5, <3>2, <3>3 DEF OneAtATime, NoReads
  <2>. QED
    BY <2>1, <2>2
<1>11. Bounded'
  <2>1. \A g \in Generations : Kept(g)'
    BY <1>1 DEF LogInv, Bounded, Kept, IsRecords, Within
  <2>2. \A k \in DOMAIN writes' : \A d \in writes'[k].docs : k \in DOMAIN writes /\ d \in writes[k].docs
    BY <1>4, <1>5
  <2>3. (\A k \in DOMAIN writes : \A d \in writes[k].docs : Within(d.qty, d.hour, d.gen)')
        /\ \A d \in statsColl : Within(d.qty, d.hour, d.gen)'
    BY <1>1 DEF LogInv, Bounded, Within
  <2>. QED
    BY <1>1, <2>1, <2>2, <2>3 DEF Bounded
<1>. QED
  BY <1>6, <1>7, <1>8, <1>9, <1>10, <1>11 DEF LogInv

\* The records are serialised as they are when the old documents are gone.
LEMMA RemoveDoneInv ==
    ASSUME LogInv, NEW w \in WriteIds, NEW ok \in BOOLEAN, RemoveDone(w, ok)
    PROVE  LogInv'
<1>. DEFINE newDocs == {[gen |-> writes[w].gen, hour |-> h, qty |-> byHour[writes[w].gen][h]] : h \in writes[w].hours}
<1>1. /\ UNCHANGED <<log, exists, changed, time, running, reRunFlag, timeout, writeTimeout, byHour, current, readdirs,
                     statting, reading, daemonCrashed, strays, outrun, outruns>>
      /\ w \in DOMAIN writes /\ writes[w].state = "removing" /\ statsColl' \subseteq statsColl
  BY DEF RemoveDone, world, flags, reads, history
<1>2. writes' = [writes EXCEPT ![w] = [writes[w] EXCEPT !.state = "inserting", !.docs = newDocs]]
  BY DEF RemoveDone
<1>3. writes[w] \in Write /\ writes[w].gen \in Generations /\ writes[w].hours \subseteq DOMAIN byHour[writes[w].gen]
  BY <1>1 DEF LogInv, WritesOK, Write
<1>4. Kept(writes[w].gen)
  BY <1>3 DEF LogInv, Bounded
<1>5. newDocs \subseteq Docs /\ \A d \in newDocs : d.gen = writes[w].gen
  BY <1>3, <1>4 DEF Docs, Kept, IsRecords
<1>6. \A d \in newDocs : Within(d.qty, d.hour, d.gen)
  BY <1>3, <1>4 DEF Kept
<1>. HIDE DEF newDocs
<1>7. DOMAIN writes' = DOMAIN writes /\ \A v \in DOMAIN writes : v # w => writes'[v] = writes[v]
  BY <1>2
<1>8. writes'[w] \in Write /\ writes'[w].gen = writes[w].gen /\ writes'[w].state = "inserting" /\ writes'[w].docs = newDocs
  BY <1>1, <1>2, <1>3, <1>5 DEF Write
<1>9. LogTypeOK'
  BY <1>1, <1>7 DEF LogInv, LogTypeOK
<1>10. WritesOK'
  <2>1. writes' \in [DOMAIN writes' -> Write]
    BY <1>1, <1>2, <1>7, <1>8 DEF LogInv, WritesOK
  <2>2. ASSUME NEW k \in DOMAIN writes'
        PROVE  /\ writes'[k].state = "removing" => writes'[k].hours \subseteq DOMAIN byHour[writes'[k].gen]
               /\ \A d \in writes'[k].docs : d.gen = writes'[k].gen
    <3>1. CASE k = w
      BY <1>5, <1>8, <3>1
    <3>2. CASE k # w
      BY <1>7, <3>2 DEF LogInv, WritesOK
    <3>. QED
      BY <3>1, <3>2
  <2>. QED
    BY <1>1, <2>1, <2>2 DEF LogInv, WritesOK
<1>11. ReadOnce'
  BY <1>1 DEF LogInv, ReadOnce, ReadsOf, Uncounted
<1>12. Ends' /\ OneAtATime'
  BY <1>1, <1>7 DEF LogInv, Ends, OneAtATime, NoReads, Uncounted
<1>13. Bounded'
  <2>1. \A g \in Generations : Kept(g)'
    BY <1>1 DEF LogInv, Bounded, Kept, IsRecords, Within
  <2>2. ASSUME NEW k \in DOMAIN writes', NEW d \in writes'[k].docs PROVE Within(d.qty, d.hour, d.gen)'
    <3>1. Within(d.qty, d.hour, d.gen)
      BY <1>6, <1>7, <1>8 DEF LogInv, Bounded
    <3>. QED
      BY <1>1, <3>1 DEF Within
  <2>3. \A d \in statsColl : Within(d.qty, d.hour, d.gen)'
    BY <1>1 DEF LogInv, Bounded, Within
  <2>. QED
    BY <1>1, <2>1, <2>2, <2>3 DEF Bounded
<1>. QED
  BY <1>9, <1>10, <1>11, <1>12, <1>13 DEF LogInv

LEMMA InsertDoneInv ==
    ASSUME LogInv, NEW w \in WriteIds, InsertDone(w)
    PROVE  LogInv'
<1>1. /\ UNCHANGED <<log, exists, changed, time, writeTimeout, byHour, current, readdirs, statting, reading,
                     daemonCrashed, strays, outrun, outruns>>
      /\ w \in DOMAIN writes
      /\ statsColl' = statsColl \cup writes[w].docs
      /\ writes' = [k \in DOMAIN writes \ {w} |-> writes[k]]
      /\ running' = FALSE /\ timeout' = (timeout \/ reRunFlag) /\ reRunFlag' = FALSE
  BY DEF InsertDone, world, reads, history, RerunTimerAfter
<1>2. DOMAIN writes' = DOMAIN writes \ {w} /\ \A k \in DOMAIN writes' : writes'[k] = writes[k]
  BY <1>1
<1>3. writes[w].docs \subseteq Docs
  BY <1>1 DEF LogInv, WritesOK, Write
<1>4. LogTypeOK'
  BY <1>1, <1>2 DEF LogInv, LogTypeOK
<1>5. WritesOK'
  <2>1. writes' \in [DOMAIN writes' -> Write]
    BY <1>1, <1>2 DEF LogInv, WritesOK
  <2>2. ASSUME NEW k \in DOMAIN writes'
        PROVE  /\ writes'[k].state = "removing" => writes'[k].hours \subseteq DOMAIN byHour[writes'[k].gen]
               /\ \A d \in writes'[k].docs : d.gen = writes'[k].gen
    BY <1>2 DEF LogInv, WritesOK
  <2>3. statsColl' \subseteq Docs
    BY <1>1, <1>3 DEF LogInv, WritesOK
  <2>. QED
    BY <1>1, <2>1, <2>2, <2>3 DEF WritesOK
<1>6. ReadOnce' /\ Ends'
  BY <1>1 DEF LogInv, ReadOnce, ReadsOf, Ends, Uncounted
<1>7. OneAtATime'
  <2>1. CASE outrun
    BY <1>1, <2>1 DEF OneAtATime
  <2>2. CASE ~outrun
    <3>1. DOMAIN writes' = {} /\ NoReads /\ ~writeTimeout
      BY <1>1, <1>2, <2>2 DEF LogInv, OneAtATime
    <3>. QED
      BY <1>1, <3>1 DEF OneAtATime, NoReads
  <2>. QED
    BY <2>1, <2>2
<1>8. Bounded'
  <2>1. \A g \in Generations : Kept(g)'
    BY <1>1 DEF LogInv, Bounded, Kept, IsRecords, Within
  <2>2. (\A k \in DOMAIN writes : \A d \in writes[k].docs : Within(d.qty, d.hour, d.gen)')
        /\ \A d \in statsColl : Within(d.qty, d.hour, d.gen)'
    BY <1>1 DEF LogInv, Bounded, Within
  <2>. QED
    BY <1>1, <1>2, <2>1, <2>2 DEF Bounded
<1>. QED
  BY <1>4, <1>5, <1>6, <1>7, <1>8 DEF LogInv

LEMMA FailuresInv ==
    ASSUME LogInv, NEW w \in WriteIds, ConnectFailed(w) \/ InsertRefused(w)
    PROVE  LogInv'
<1>1. CASE ConnectFailed(w)
  BY <1>1, DiesKeepsInv DEF ConnectFailed
<1>2. CASE InsertRefused(w)
  <2>1. w \in DOMAIN writes /\ statsColl' \subseteq statsColl \cup writes[w].docs /\ Dies /\ UNCHANGED world
    BY <1>2 DEF InsertRefused
  <2>2. writes[w].docs \subseteq Docs
    BY <2>1 DEF LogInv, WritesOK, Write
  <2>3. statsColl' \subseteq Docs /\ \A d \in statsColl' : Within(d.qty, d.hour, d.gen)
    BY <2>1, <2>2 DEF LogInv, WritesOK, Bounded
  <2>. QED
    BY <2>1, <2>3, DiesInv
<1>. QED
  BY <1>1, <1>2

LEMMA LogNextInv ==
    ASSUME LogInv, [LogNext]_logVars
    PROVE  LogInv'
<1>1. CASE UNCHANGED logVars
  <2>1. UNCHANGED <<log, exists, changed, time, running, reRunFlag, timeout, writeTimeout, byHour, current, readdirs,
                    statting, reading, writes, statsColl, daemonCrashed, strays, outrun, outruns>>
    BY <1>1 DEF logVars, world, flags, reads, history
  <2>2. WritesOK' /\ Bounded' /\ \A f \in Files : Uncounted(f)' = Uncounted(f)
    BY <2>1, RecordsKept
  <2>3. LogTypeOK'
    BY <2>1 DEF LogInv, LogTypeOK
  <2>4. ReadOnce' /\ Ends' /\ OneAtATime'
    BY <2>1, <2>2 DEF LogInv, ReadOnce, ReadsOf, Ends, OneAtATime, NoReads
  <2>. QED
    BY <2>2, <2>3, <2>4 DEF LogInv
<1>2. CASE World
  BY <1>2, WorldInv
<1>3. CASE RerunTimeout \/ \E f \in Files : WatcherEvent(f)
  BY <1>3, TimersInv
<1>4. CASE FillHourGaps
  BY <1>4, FillHourGapsInv
<1>5. CASE ReaddirDone \/ \E f \in Files : StatDone(f)
  BY <1>5, WalkInv
<1>6. ASSUME NEW f \in Files, ReadFileDone(f) PROVE LogInv'
  BY <1>6, ReadFileDoneInv
<1>7. CASE WriteTimeout
  BY <1>7, WriteTimeoutInv
<1>8. ASSUME NEW w \in WriteIds, InsertDone(w) PROVE LogInv'
  BY <1>8, InsertDoneInv
<1>9. ASSUME NEW w \in WriteIds, ConnectFailed(w) \/ InsertRefused(w) PROVE LogInv'
  BY <1>9, FailuresInv
<1>10. ASSUME NEW w \in WriteIds, RemoveDone(w, TRUE) \/ RemoveDone(w, FALSE) PROVE LogInv'
  BY <1>10, RemoveDoneInv
<1>. QED
  BY <1>1, <1>2, <1>3, <1>4, <1>5, <1>6, <1>7, <1>8, <1>9, <1>10 DEF LogNext, Daemon

\* No document of the collection counts a line of a file twice, unless an earlier
\* run was still reading that file when its run began: whatever is appended,
\* deleted or refused while the files are read, counted and written, and however
\* long the reads take.
THEOREM NeverOverCountsHolds == LogSpec => []NeverOverCounts
<1>1. LogInv /\ [LogNext]_logVars => LogInv'
  BY LogNextInv
<1>2. LogInv => NeverOverCounts
  BY DEF LogInv, Bounded, Within, NeverOverCounts
<1>. QED
  BY <1>1, <1>2, LogInitInv, PTL DEF LogSpec

\* A run stays unfinished only when it met no line; and unless the write timer went
\* off before the reads of its run were over, replacements of the collection never
\* overlap and nothing that a replacement writes can still change.
THEOREM ReplacementsExclusiveHolds == LogSpec => []ReplacementsExclusive
<1>1. LogInv /\ [LogNext]_logVars => LogInv'
  BY LogNextInv
<1>2. LogInv => ReplacementsExclusive
  <2>. SUFFICES ASSUME LogInv PROVE ReplacementsExclusive
    OBVIOUS
  <2>1. outrun \/ Cardinality(DOMAIN writes) <= 1
    <3>. SUFFICES ASSUME ~outrun PROVE Cardinality(DOMAIN writes) <= 1
      OBVIOUS
    <3>1. CASE DOMAIN writes = {}
      BY <3>1, FS_EmptySet
    <3>2. CASE DOMAIN writes # {}
      <4>1. PICK w \in DOMAIN writes : DOMAIN writes = {w}
        BY <3>2 DEF LogInv, OneAtATime
      <4>. QED
        BY <4>1, FS_Singleton
    <3>. QED
      BY <3>1, <3>2
  <2>2. NoReads => ~ReadsPending
    BY DEF NoReads, ReadsPending
  <2>3. outrun \/ DOMAIN writes = {} \/ (running /\ ~ReadsPending)
    BY <2>2 DEF LogInv, OneAtATime
  <2>4. (\A f \in Files : Uncounted(f)) => \A h \in DOMAIN byHour[current] : byHour[current][h] = NoLines
    <3>1. IsRecords(byHour[current])
      BY DEF LogInv, LogTypeOK
    <3>2. \A h \in DOMAIN byHour[current] : byHour[current][h] \in [Files -> Nat]
      BY <3>1 DEF IsRecords
    <3>. QED
      BY <3>2 DEF Uncounted, NoLines
  <2>5. WedgedOnlyWithoutLines
    BY <2>4 DEF WedgedOnlyWithoutLines, LogInv, Ends
  <2>. QED
    BY <2>1, <2>3, <2>5 DEF ReplacementsExclusive, LogInv
<1>. QED
  BY <1>1, <1>2, LogInitInv, PTL DEF LogSpec

----------------------------------------------------------------------------
\* The fetches whose bodies are in.
Arrived(r) == Fetches \ (fetches[r] \cup failedFetches[r])

\* A request whose fetches were started.
Joining ==
    \A r \in ServersRequests :
        /\ fetches[r] \cap failedFetches[r] = {}
        /\ apiPc[r] = "new" => fetches[r] = {} /\ requestQty[r] = 0 /\ failedFetches[r] = {}
        /\ apiPc[r] # "new" => requestQty[r] = Cardinality(Arrived(r))
        /\ apiPc[r] # "new" => \A f \in Arrived(r) :
              Servers[f[1]] \in DOMAIN serverData[r] /\ f[2] \in serverData[r][Servers[f[1]]]
        /\ apiPc[r] = "answered" => fetches[r] = {}

\* The collection is the last run, or is being replaced.
Replacing ==
    /\ collection # runs => collection = Removed /\ runs < MaxRuns
    /\ \A r \in StatsRequests :
          /\ since[r] <= runs
          /\ apiPc[r] = "waiting" /\ collection # runs => gap[r]

ApiInv == ApiTypeOK /\ AnswersComplete /\ StatsAnswersWhole /\ Joining /\ Replacing

----------------------------------------------------------------------------
\* GET /api/servers starts two fetches per server.
LEMMA FetchesCounted == IsFiniteSet(Fetches) /\ Cardinality(Fetches) = Expected /\ Expected \in Nat
<1>1. Len(Servers) \in Nat /\ DOMAIN Servers = 1..Len(Servers) /\ Len(Servers) > 0
  BY ApiAssumption, LenProperties
<1>2. IsFiniteSet(DOMAIN Servers) /\ Cardinality(DOMAIN Servers) = Len(Servers)
  BY <1>1, FS_Interval
<1>3. IsFiniteSet(Parts) /\ Cardinality(Parts) = 2
  <2>1. IsFiniteSet({"serverInfo"}) /\ Cardinality({"serverInfo"}) = 1
    BY FS_Singleton
  <2>2. Parts = {"serverInfo"} \cup {"stats"} /\ "stats" \notin {"serverInfo"}
    BY DEF Parts
  <2>. QED
    BY <2>1, <2>2, FS_AddElement
<1>4. IsFiniteSet(Fetches) /\ Cardinality(Fetches) = Len(Servers) * 2
  <2>. DEFINE D == DOMAIN Servers
  <2>1. IsFiniteSet(D) /\ Cardinality(D) = Len(Servers)
    BY <1>2
  <2>2. Fetches = D \X Parts
    BY DEF Fetches
  <2>. HIDE DEF D
  <2>3. IsFiniteSet(D \X Parts) /\ Cardinality(D \X Parts) = Cardinality(D) * Cardinality(Parts)
    BY <1>3, <2>1, FS_Product
  <2>. QED
    BY <1>3, <2>1, <2>2, <2>3
<1>. QED
  BY <1>1, <1>4 DEF Expected

\* A reply stores its part, and keeps those that are there.
LEMMA WithPartStores ==
    ASSUME NEW data \in Gathered, NEW h \in Hosts, NEW part \in Parts
    PROVE  /\ WithPart(data, h, part) \in Gathered
           /\ h \in DOMAIN WithPart(data, h, part) /\ part \in WithPart(data, h, part)[h]
           /\ \A x \in DOMAIN data :
                 x \in DOMAIN WithPart(data, h, part) /\ data[x] \subseteq WithPart(data, h, part)[x]
<1>1. PICK D \in SUBSET Hosts : data \in [D -> SUBSET Parts]
  BY DEF Gathered
<1>2. WithPart(data, h, part) \in [D \cup {h} -> SUBSET Parts]
  BY <1>1 DEF WithPart
<1>3. D \cup {h} \in SUBSET Hosts
  BY <1>1
<1>4. WithPart(data, h, part) \in Gathered
  BY <1>2, <1>3 DEF Gathered
<1>. QED
  BY <1>1, <1>4 DEF WithPart

LEMMA ApiInitInv == ApiInit => ApiInv
<1>. SUFFICES ASSUME ApiInit PROVE ApiInv
  OBVIOUS
<1>1. [h \in {} |-> {}] \in Gathered
  <2>1. [h \in {} |-> {}] \in [{} -> SUBSET Parts] /\ {} \in SUBSET Hosts
    OBVIOUS
  <2>. QED
    BY <2>1 DEF Gathered
<1>2. ApiTypeOK
  <2>1. 0 \in 0..Removed /\ 0 \in 0..MaxRuns /\ 0 \in 0..Expected
    BY ApiAssumption, FetchesCounted DEF Removed
  <2>. QED
    BY <1>1, <2>1 DEF ApiInit, ApiTypeOK
<1>3. AnswersComplete /\ StatsAnswersWhole
  BY DEF ApiInit, AnswersComplete, StatsAnswersWhole, ApiRequests
<1>4. Joining
  BY DEF ApiInit, Joining, ApiRequests
<1>5. Replacing
  BY ApiAssumption DEF ApiInit, Replacing, ApiRequests
<1>. QED
  BY <1>2, <1>3, <1>4, <1>5 DEF ApiInv

\* What a /servers step leaves alone.
LEMMA StatsKept ==
    ASSUME ApiInv, NEW r \in ServersRequests,
           UNCHANGED <<mongo, statsRequests>>,
           \A s \in ApiRequests : s # r => apiPc'[s] = apiPc[s]
    PROVE  StatsAnswersWhole' /\ Replacing'
<1>1. \A s \in StatsRequests : apiPc'[s] = apiPc[s]
  BY ApiAssumption DEF ApiRequests
<1>. QED
  BY <1>1 DEF ApiInv, StatsAnswersWhole, Replacing, mongo, statsRequests

\* What a /stats step, or a step of the daemon, leaves alone.
LEMMA ServersKept ==
    ASSUME ApiInv, UNCHANGED servers, \A s \in ServersRequests : apiPc'[s] = apiPc[s]
    PROVE  AnswersComplete' /\ Joining'
<1>1. \A r \in ServersRequests : Arrived(r)' = Arrived(r)
  BY DEF servers, Arrived
<1>. QED
  BY <1>1 DEF ApiInv, AnswersComplete, Joining, servers

LEMMA GetServersInv ==
    ASSUME ApiInv, NEW r \in ServersRequests, GetServers(r)
    PROVE  ApiInv'
<1>1. ApiTypeOK'
  BY DEF ApiInv, ApiTypeOK, GetServers, mongo, statsRequests, ApiRequests
<1>2. \A s \in ApiRequests : apiPc'[s] = IF s = r THEN "waiting" ELSE apiPc[s]
  BY DEF ApiInv, ApiTypeOK, GetServers, ApiRequests
<1>3. \A s \in ServersRequests : fetches'[s] = IF s = r THEN Fetches ELSE fetches[s]
  BY DEF ApiInv, ApiTypeOK, GetServers
<1>4. AnswersComplete'
  BY <1>2 DEF ApiInv, AnswersComplete, GetServers, ApiRequests
<1>5. Joining'
  <2>1. apiPc[r] = "new" /\ failedFetches[r] = {} /\ requestQty[r] = 0
    BY DEF ApiInv, Joining, GetServers
  <2>2. Arrived(r)' = {}
    BY <1>3, <2>1 DEF Arrived, GetServers
  <2>3. \A s \in ServersRequests : s # r => Arrived(s)' = Arrived(s)
    BY <1>3 DEF Arrived, GetServers
  <2>4. SUFFICES ASSUME NEW s \in ServersRequests
                 PROVE  /\ (fetches[s] \cap failedFetches[s])' = {}
                        /\ apiPc'[s] = "new" => fetches'[s] = {} /\ requestQty'[s] = 0 /\ failedFetches'[s] = {}
                        /\ apiPc'[s] # "new" => requestQty'[s] = Cardinality(Arrived(s)')
                        /\ apiPc'[s] # "new" => \A f \in Arrived(s)' :
                              Servers[f[1]] \in DOMAIN serverData'[s] /\ f[2] \in serverData'[s][Servers[f[1]]]
                        /\ apiPc'[s] = "answered" => fetches'[s] = {}
    BY DEF Joining
  <2>5. CASE s = r
    BY <1>2, <1>3, <2>1, <2>2, <2>5, FS_EmptySet DEF GetServers, ApiRequests
  <2>6. CASE s # r
    BY <1>2, <1>3, <2>3, <2>6 DEF ApiInv, Joining, GetServers, ApiRequests
  <2>. QED
    BY <2>5, <2>6
<1>6. StatsAnswersWhole' /\ Replacing'
  BY <1>2, StatsKept DEF GetServers
<1>. QED
  BY <1>1, <1>4, <1>5, <1>6 DEF ApiInv

LEMMA FetchDoneInv ==
    ASSUME ApiInv, NEW r \in ServersRequests, NEW f \in Fetches, FetchDone(r, f)
    PROVE  ApiInv'
<1>. DEFINE h == Servers[f[1]]
            qty == requestQty[r] + 1
            whole == qty = Expected
<1>1. h \in Hosts /\ f[2] \in Parts
  BY DEF Fetches, Hosts
<1>2. f \in fetches[r] /\ f \notin failedFetches[r] /\ apiPc[r] = "waiting"
  <2>1. f \in fetches[r] /\ apiPc[r] \in {"new", "waiting", "answered"}
    BY DEF FetchDone, ApiInv, ApiTypeOK, ApiRequests
  <2>. QED
    BY <2>1 DEF ApiInv, Joining
<1>3. \A s \in ServersRequests : fetches'[s] = IF s = r THEN fetches[r] \ {f} ELSE fetches[s]
  BY DEF ApiInv, ApiTypeOK, FetchDone
<1>4. \A s \in ServersRequests : serverData'[s] = IF s = r THEN WithPart(serverData[r], h, f[2]) ELSE serverData[s]
  BY DEF ApiInv, ApiTypeOK, FetchDone
<1>5. \A s \in ServersRequests : requestQty'[s] = IF s = r THEN qty ELSE requestQty[s]
  BY DEF ApiInv, ApiTypeOK, FetchDone
<1>6. \A s \in ApiRequests : apiPc'[s] = IF s = r /\ whole THEN "answered" ELSE apiPc[s]
  BY <1>5 DEF ApiInv, ApiTypeOK, FetchDone, ApiRequests
<1>7. \A s \in ServersRequests : response'[s] = IF s = r /\ whole THEN serverData'[r] ELSE response[s]
  BY <1>5 DEF ApiInv, ApiTypeOK, FetchDone
<1>8. serverData[r] \in Gathered
  BY DEF ApiInv, ApiTypeOK
<1>9. /\ serverData'[r] \in Gathered
      /\ h \in DOMAIN serverData'[r] /\ f[2] \in serverData'[r][h]
      /\ \A x \in DOMAIN serverData[r] : x \in DOMAIN serverData'[r] /\ serverData[r][x] \subseteq serverData'[r][x]
  BY <1>1, <1>4, <1>8, WithPartStores
\* The reply is counted once.
<1>10. Arrived(r)' = Arrived(r) \cup {f} /\ f \notin Arrived(r)
  BY <1>2, <1>3 DEF Arrived, FetchDone
<1>11. \A s \in ServersRequests : s # r => Arrived(s)' = Arrived(s)
  BY <1>3 DEF Arrived, FetchDone
<1>12. IsFiniteSet(Arrived(r)) /\ requestQty[r] = Cardinality(Arrived(r))
  BY <1>2, FetchesCounted, FS_Difference DEF ApiInv, Joining, Arrived
<1>13. qty = Cardinality(Arrived(r)')
  BY <1>10, <1>12, FS_AddElement
<1>14. qty \in 0..Expected
  <2>1. Arrived(r)' \in SUBSET Fetches
    BY DEF Arrived
  <2>2. IsFiniteSet(Arrived(r)') /\ Cardinality(Arrived(r)') <= Expected
    BY <2>1, FetchesCounted, FS_Subset
  <2>. QED
    BY <2>2, <1>13, FS_CardinalityType, FetchesCounted
<1>15. \A g \in Arrived(r)' : Servers[g[1]] \in DOMAIN serverData'[r] /\ g[2] \in serverData'[r][Servers[g[1]]]
  <2>1. SUFFICES ASSUME NEW g \in Arrived(r)'
                 PROVE  Servers[g[1]] \in DOMAIN serverData'[r] /\ g[2] \in serverData'[r][Servers[g[1]]]
    OBVIOUS
  <2>2. CASE g = f
    BY <2>2, <1>9
  <2>3. CASE g \in Arrived(r)
    <3>1. Servers[g[1]] \in DOMAIN serverData[r] /\ g[2] \in serverData[r][Servers[g[1]]]
      BY <2>3, <1>2 DEF ApiInv, Joining
    <3>. QED
      BY <3>1, <1>9
  <2>. QED
    BY <2>1, <2>2, <2>3, <1>10
\* With the last reply nothing is missing.
<1>16. whole => Arrived(r)' = Fetches
  <2>1. Arrived(r)' \in SUBSET Fetches
    BY DEF Arrived
  <2>. QED
    BY <2>1, <1>13, FetchesCounted, FS_Subset
<1>. HIDE DEF h, qty, whole
<1>17. ApiTypeOK'
  <2>1. serverData' \in [ServersRequests -> Gathered]
    BY <1>4, <1>9 DEF ApiInv, ApiTypeOK, FetchDone
  <2>2. response' \in [ServersRequests -> Gathered]
    BY <1>9 DEF ApiInv, ApiTypeOK, FetchDone
  <2>3. requestQty' \in [ServersRequests -> 0..Expected]
    BY <1>14 DEF ApiInv, ApiTypeOK, FetchDone, qty
  <2>4. apiPc' \in [ApiRequests -> {"new", "waiting", "answered"}]
    BY DEF ApiInv, ApiTypeOK, FetchDone
  <2>5. fetches' \in [ServersRequests -> SUBSET Fetches]
    BY DEF ApiInv, ApiTypeOK, FetchDone
  <2>6. UNCHANGED <<failedFetches, apiCrashed, collection, runs, since, gap, docs>>
    BY DEF FetchDone, mongo, statsRequests
  <2>. QED
    BY <2>1, <2>2, <2>3, <2>4, <2>5, <2>6 DEF ApiInv, ApiTypeOK
<1>18. AnswersComplete'
  <2>1. SUFFICES ASSUME NEW s \in ServersRequests, apiPc'[s] = "answered"
                 PROVE  DOMAIN response'[s] = Hosts /\ \A x \in Hosts : response'[s][x] = Parts
    BY DEF AnswersComplete
  <2>2. CASE s # r
    BY <2>1, <2>2, <1>6, <1>7 DEF ApiInv, AnswersComplete, ApiRequests
  <2>3. CASE s = r
    <3>1. whole /\ response'[s] = serverData'[r]
      BY <2>1, <2>3, <1>2, <1>6, <1>7 DEF ApiRequests
    <3>2. PICK D \in SUBSET Hosts : serverData'[r] \in [D -> SUBSET Parts]
      BY <1>9 DEF Gathered
    <3>3. SUFFICES ASSUME NEW x \in Hosts
                   PROVE  x \in DOMAIN serverData'[r] /\ Parts \subseteq serverData'[r][x]
      BY <2>3, <3>1, <3>2
    <3>4. PICK i \in DOMAIN Servers : Servers[i] = x
      BY DEF Hosts
    <3>5. \A p \in Parts : x \in DOMAIN serverData'[r] /\ p \in serverData'[r][x]
      <4>1. TAKE p \in Parts
      <4>2. <<i, p>> \in Arrived(r)'
        BY <3>1, <1>16 DEF Fetches
      <4>. QED
        BY <4>2, <3>4, <1>15
    <3>. QED
      BY <3>5 DEF Parts
  <2>. QED
    BY <2>2, <2>3
<1>19. Joining'
  <2>4. SUFFICES ASSUME NEW s \in ServersRequests
                 PROVE  /\ (fetches[s] \cap failedFetches[s])' = {}
                        /\ apiPc'[s] = "new" => fetches'[s] = {} /\ requestQty'[s] = 0 /\ failedFetches'[s] = {}
                        /\ apiPc'[s] # "new" => requestQty'[s] = Cardinality(Arrived(s)')
                        /\ apiPc'[s] # "new" => \A g \in Arrived(s)' :
                              Servers[g[1]] \in DOMAIN serverData'[s] /\ g[2] \in serverData'[s][Servers[g[1]]]
                        /\ apiPc'[s] = "answered" => fetches'[s] = {}
    BY DEF Joining
  <2>5. CASE s = r
    <3>1. apiPc'[s] # "new" /\ (apiPc'[s] = "answered" => whole)
      BY <2>5, <1>2, <1>6 DEF ApiRequests
    <3>2. fetches'[r] \subseteq Fetches /\ (whole => fetches'[r] = {})
      BY <1>16, <1>17 DEF Arrived, ApiTypeOK
    <3>3. (fetches[r] \cap failedFetches[r])' = {}
      BY <1>3 DEF ApiInv, Joining, FetchDone
    <3>. QED
      BY <2>5, <3>1, <3>2, <3>3, <1>5, <1>13, <1>15
  <2>6. CASE s # r
    BY <1>3, <1>4, <1>5, <1>6, <1>11, <2>6 DEF ApiInv, Joining, FetchDone, ApiRequests
  <2>. QED
    BY <2>5, <2>6
<1>20. StatsAnswersWhole' /\ Replacing'
  BY <1>6, StatsKept DEF FetchDone
<1>. QED
  BY <1>17, <1>18, <1>19, <1>20 DEF ApiInv

LEMMA FetchFailedInv ==
    ASSUME ApiInv, NEW r \in ServersRequests, NEW f \in Fetches, FetchFailed(r, f)
    PROVE  ApiInv'
<1>1. ApiTypeOK'
  BY ApiAssumption DEF ApiInv, ApiTypeOK, FetchFailed, mongo, statsRequests
<1>2. \A s \in ServersRequests : fetches'[s] = IF s = r THEN fetches[r] \ {f} ELSE fetches[s]
  BY DEF ApiInv, ApiTypeOK, FetchFailed
<1>3. \A s \in ServersRequests : failedFetches'[s] = IF s = r THEN failedFetches[r] \cup {f} ELSE failedFetches[s]
  BY DEF ApiInv, ApiTypeOK, FetchFailed
<1>4. f \in fetches[r] /\ apiPc[r] # "new" /\ apiPc[r] # "answered"
  BY DEF FetchFailed, ApiInv, Joining
<1>5. \A s \in ServersRequests : Arrived(s)' = Arrived(s)
  BY <1>2, <1>3, <1>4 DEF Arrived
<1>6. AnswersComplete'
  BY DEF ApiInv, AnswersComplete, FetchFailed
<1>7. Joining'
  BY <1>2, <1>3, <1>4, <1>5 DEF ApiInv, Joining, FetchFailed
<1>8. StatsAnswersWhole' /\ Replacing'
  BY StatsKept DEF FetchFailed
<1>. QED
  BY <1>1, <1>6, <1>7, <1>8 DEF ApiInv

LEMMA StatsStepInv ==
    ASSUME ApiInv, NEW r \in StatsRequests, GetStats(r) \/ MongoFailed(r) \/ StatsFound(r)
    PROVE  ApiInv'
<1>1. \A s \in ServersRequests : apiPc'[s] = apiPc[s]
  BY ApiAssumption DEF ApiInv, ApiTypeOK, GetStats, MongoFailed, StatsFound, ApiRequests
<1>2. AnswersComplete' /\ Joining'
  BY <1>1, ServersKept DEF GetStats, MongoFailed, StatsFound
<1>3. CASE GetStats(r)
  <2>1. ApiTypeOK'
    BY <1>3 DEF ApiInv, ApiTypeOK, GetStats, servers, mongo
  <2>2. \A s \in StatsRequests :
           /\ apiPc'[s] = IF s = r THEN "waiting" ELSE apiPc[s]
           /\ since'[s] = IF s = r THEN runs ELSE since[s]
           /\ gap'[s] = IF s = r THEN collection # runs ELSE gap[s]
    BY <1>3 DEF ApiInv, ApiTypeOK, GetStats, ApiRequests
  <2>3. StatsAnswersWhole'
    BY <1>3, <2>2 DEF ApiInv, StatsAnswersWhole, GetStats, mongo
  <2>4. Replacing'
    <3>1. runs \in Nat /\ UNCHANGED <<collection, runs>>
      BY <1>3, ApiAssumption DEF ApiInv, ApiTypeOK, GetStats, mongo
    <3>2. \A s \in StatsRequests : since'[s] <= runs
      BY <2>2, <3>1 DEF ApiInv, Replacing
    <3>. QED
      BY <2>2, <3>1, <3>2 DEF ApiInv, Replacing
  <2>. QED
    BY <1>2, <2>1, <2>3, <2>4 DEF ApiInv
<1>4. CASE MongoFailed(r)
  BY <1>2, <1>4 DEF ApiInv, ApiTypeOK, StatsAnswersWhole, Replacing, MongoFailed, servers, mongo, statsRequests
<1>5. CASE StatsFound(r)
  <2>1. ApiTypeOK'
    BY <1>5 DEF ApiInv, ApiTypeOK, StatsFound, Found, servers, mongo
  <2>2. \A s \in StatsRequests :
           /\ apiPc'[s] = IF s = r THEN "answered" ELSE apiPc[s]
           /\ docs'[s] = IF s = r THEN collection ELSE docs[s]
    BY <1>5 DEF ApiInv, ApiTypeOK, StatsFound, Found, ApiRequests
  <2>3. \/ collection \in since[r]..runs /\ (collection = 0 => since[r] = 0)
        \/ gap[r] /\ collection = Removed
    <3>1. since[r] \in Nat /\ runs \in Nat /\ since[r] <= runs /\ (collection # runs => collection = Removed)
      BY ApiAssumption DEF ApiInv, ApiTypeOK, Replacing
    <3>2. CASE collection = runs
      BY <3>1, <3>2
    <3>3. CASE collection # runs
      BY <3>1, <3>3, <1>5 DEF ApiInv, Replacing, StatsFound
    <3>. QED
      BY <3>2, <3>3
  <2>4. StatsAnswersWhole'
    BY <1>5, <2>2, <2>3 DEF ApiInv, StatsAnswersWhole, StatsFound, mongo
  <2>5. Replacing'
    BY <1>5, <2>2 DEF ApiInv, Replacing, StatsFound, mongo
  <2>. QED
    BY <1>2, <2>1, <2>4, <2>5 DEF ApiInv
<1>. QED
  BY <1>3, <1>4, <1>5

LEMMA DaemonInv ==
    ASSUME ApiInv, DaemonRemoves \/ DaemonInserts
    PROVE  ApiInv'
<1>1. AnswersComplete' /\ Joining'
  BY ServersKept DEF DaemonRemoves, DaemonInserts
<1>2. collection \in Nat /\ runs \in Nat /\ MaxRuns \in Nat /\ Removed = MaxRuns + 1 /\ runs <= MaxRuns
  BY ApiAssumption DEF ApiInv, ApiTypeOK, Removed
<1>3. \A r \in StatsRequests : since[r] \in Nat /\ docs[r] \in Nat
  BY ApiAssumption DEF ApiInv, ApiTypeOK, Removed
<1>4. CASE DaemonRemoves
  <2>1. ApiTypeOK'
    <3>1. collection' \in 0..Removed
      BY <1>2, <1>4 DEF DaemonRemoves
    <3>2. gap' \in [StatsRequests -> BOOLEAN]
      BY <1>4 DEF DaemonRemoves, ApiInv, ApiTypeOK
    <3>. QED
      BY <1>4, <3>1, <3>2 DEF ApiInv, ApiTypeOK, DaemonRemoves, servers
  <2>2. \A r \in StatsRequests : gap'[r] = (gap[r] \/ apiPc[r] = "waiting")
    BY <1>4 DEF DaemonRemoves
  <2>3. StatsAnswersWhole'
    BY <1>4, <2>2 DEF ApiInv, StatsAnswersWhole, DaemonRemoves
  <2>4. Replacing'
    BY <1>4, <2>2 DEF ApiInv, Replacing, DaemonRemoves
  <2>. QED
    BY <1>1, <2>1, <2>3, <2>4 DEF ApiInv
<1>5. CASE DaemonInserts
  <2>1. runs < MaxRuns /\ collection' = runs + 1 /\ runs' = runs + 1
    BY <1>5 DEF DaemonInserts, ApiInv, Replacing
  <2>2. ApiTypeOK'
    BY <1>2, <1>5, <2>1 DEF ApiInv, ApiTypeOK, DaemonInserts, servers, statsRequests
  <2>3. StatsAnswersWhole'
    BY <1>2, <1>3, <1>5, <2>1 DEF ApiInv, StatsAnswersWhole, DaemonInserts, statsRequests
  <2>4. Replacing'
    BY <1>2, <1>3, <1>5, <2>1 DEF ApiInv, Replacing, DaemonInserts, statsRequests
  <2>. QED
    BY <1>1, <2>2, <2>3, <2>4 DEF ApiInv
<1>. QED
  BY <1>4, <1>5

\* Whatever the order of the replies, of the failures and of the daemon's steps, an
\* answer of GET /api/servers has both parts of every server, and one of GET
\* /api/stats is a whole run of the daemon unless a replacement overlapped it.
THEOREM AnswersWholeHolds == ApiSpec => []AnswersWhole
<1>1. ApiInv /\ [ApiNext]_apiVars => ApiInv'
  <2>. SUFFICES ASSUME ApiInv, [ApiNext]_apiVars PROVE ApiInv'
    OBVIOUS
  <2>1. CASE UNCHANGED apiVars
    <3>1. AnswersComplete' /\ Joining'
      BY <2>1, ServersKept DEF apiVars
    <3>. QED
      BY <2>1, <3>1 DEF ApiInv, ApiTypeOK, StatsAnswersWhole, Replacing, apiVars, servers, mongo, statsRequests
  <2>2. ASSUME NEW r \in ServersRequests, GetServers(r) PROVE ApiInv'
    BY <2>2, GetServersInv
  <2>3. ASSUME NEW r \in ServersRequests, NEW f \in Fetches, FetchEnds(r, f) PROVE ApiInv'
    BY <2>3, FetchDoneInv, FetchFailedInv DEF FetchEnds
  <2>4. ASSUME NEW r \in StatsRequests, GetStats(r) \/ MongoFailed(r) \/ StatsFound(r) PROVE ApiInv'
    BY <2>4, StatsStepInv
  <2>5. CASE DaemonRemoves \/ DaemonInserts
    BY <2>5, DaemonInv
  <2>. QED
    BY <2>1, <2>2, <2>3, <2>4, <2>5 DEF ApiNext
<1>2. ApiInv => AnswersWhole
  BY DEF ApiInv, AnswersWhole
<1>. QED
  BY <1>1, <1>2, ApiInitInv, PTL DEF ApiSpec
=============================================================================
