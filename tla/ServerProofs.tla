-------------------------------- MODULE ServerProofs ------------------------
(***************************************************************************)
(* Proofs about the server's processes and threads: hot restart, and what  *)
(* ServerThreads and the statsd sink of StatsStore say of threads.  The    *)
(* argument about threads is above each part.                              *)
(*                                                                         *)
(* Hot restart, for any number of processes and listeners of the           *)
(* configuration and of LDS: a process asserts only when it asks for the   *)
(* socket of a late listener and meets the first request of its child,     *)
(* every message is in the socket of the process it is for, and once a     *)
(* process has served, some process listens.                               *)
(*                                                                         *)
(* HrSound is not inductive.  That a blocking call receives its reply, and *)
(* nothing else, rests on what the lock, the flag and the order of the     *)
(* calls achieve together:                                                 *)
(*   - HrOneStarts: the flag keeps a second process from starting, so that *)
(*     a starting process has no child to ask it;                          *)
(*   - HrProcOK: a process that asks has not let go of its parent, and     *)
(*     holds the lock for the two calls that take it;                      *)
(*   - HrPairOK: a process whose child is past its first call has let go   *)
(*     of its own parent, and asks nobody any more;                        *)
(*   - HrNamesOK: a name belongs to the process that is alive, though the  *)
(*     names are used again;                                               *)
(*   - HrMailOK: at most one question is on its way to a process, and one  *)
(*     reply (HrReplyOK); what else arrives was sent by the child and is   *)
(*     still true, and to a process that asks comes only where no lock     *)
(*     keeps the two apart: a late listener (HrRequestOK);                 *)
(*   - HrListens: the newest process that has served listens.              *)
(* A handler is a sequence of primitive changes, each of which keeps HrOK: *)
(* a record changes (HrChangeOK), a message is taken (HrTakeOK) or sent    *)
(* (HrRequestSent, HrReplySent), a process comes or goes (HrComesOrGoes,   *)
(* HrGoneOK).                                                              *)
(***************************************************************************)
EXTENDS HotRestart, MCMachinery, SequenceTheorems, FiniteSetTheorems, WellFoundedInduction, TLAPS

HrPhases == {"none", "new", "askAdmin", "askSocket", "askStats", "config", "loop", "serving", "exiting", "exited"}
HrAsking == {"askAdmin", "askSocket", "askStats"}
HrAsks == {"ShutdownAdminRequest", "GetListenSocketRequest", "GetStatsRequest"}
HrAnswers == {"ShutdownAdminReply", "GetListenSocketReply", "GetStatsReply"}
HrTypes == HrAsks \cup HrAnswers \cup {"DrainListenersRequest", "TerminateRequest"}

HrMsg == [type : HrTypes, from : HrEpochs]
HrProc == [phase : HrPhases, from : HrPhases, parentGone : BOOLEAN, statTimer : BOOLEAN, listening : BOOLEAN, asked : BOOLEAN]
HrNames == 0..2
HrBounds == [HrNames -> HrEpochs \cup {HrNobody}]
HrInboxes == [HrNames -> Seq(HrMsg)]
HrProcs == [HrEpochs -> HrProc]
HrState == [initializing : BOOLEAN, lock : HrEpochs \cup {HrNobody}, bound : HrBounds, inbox : HrInboxes,
            proc : HrProcs, crashed : BOOLEAN]

\* What each blocking call asks.
HrAskOf(phase) == CASE phase = "askAdmin" -> "ShutdownAdminRequest"
                    [] phase = "askSocket" -> "GetListenSocketRequest"
                    [] OTHER -> "GetStatsRequest"

HrAlive(x) == x.phase \notin {"none", "exited"}
HrServed(x) == x.phase \in {"serving", "exiting", "exited"} \/ (x.phase \in {"askSocket", "askStats"} /\ x.from = "serving")
HrStarting(x) == \/ x.phase \in {"new", "askAdmin", "config", "loop"}
                 \/ x.phase = "askSocket" /\ x.from = "config"
                 \/ x.phase = "askStats" /\ x.from = "loop"

\* It asks for the socket of a listener of LDS.
HrLate(x) == x.phase = "askSocket" /\ x.from = "serving"

\* A process by itself.
HrProcOK(p, e) ==
    LET x == p.proc[e]
    IN  /\ x.phase = "none" => x = HrNew
        /\ x.phase = "askSocket" => x.from \in {"config", "serving"}
        /\ x.phase = "askStats" => x.from \in {"loop", "serving"}
        /\ x.phase \in HrAsking => e > 0 /\ ~x.parentGone
        /\ x.phase \in {"askAdmin", "askStats"} => p.lock = e
        /\ x.parentGone => x.phase \in {"serving", "exiting", "exited"}

\* A process and the next.
HrPairOK(p, e) ==
    LET x == p.proc[e]
        y == p.proc[e + 1]
    IN  /\ x.phase \in {"exiting", "exited"} => y.parentGone
        /\ e > 0 /\ y.phase \notin {"none", "new", "askAdmin"} => x.parentGone

\* Processes start one after the other.
HrInOrder(p) ==
    \A e, f \in HrEpochs : f > e /\ p.proc[e].phase = "none" => p.proc[f].phase = "none"

\* A process that starts has set the flag and is the last one.
HrOneStarts(p) ==
    \A e \in HrEpochs : HrStarting(p.proc[e]) => p.initializing /\ \A f \in HrEpochs : f > e => p.proc[f].phase = "none"

\* A name is bound to the process that is alive; an unbound one has no messages.
HrNamesOK(p) ==
    /\ \A e \in HrEpochs : HrAlive(p.proc[e]) <=> p.bound[hrAddress(e)] = e
    /\ \A a \in HrNames : p.bound[a] # HrNobody => hrAddress(p.bound[a]) = a
    /\ \A a \in HrNames : p.bound[a] = HrNobody => p.inbox[a] = <<>>

\* A reply, in the socket of e.
HrReplyOK(p, e, m) ==
    /\ p.proc[e].phase \in HrAsking /\ m.type = HrReplies[p.proc[e].phase] /\ m.from = e - 1
    /\ m.type = "ShutdownAdminReply" /\ e - 1 > 0 => p.proc[e - 1].parentGone
    /\ \A i \in 1..Len(p.inbox[hrAddress(e - 1)]) : p.inbox[hrAddress(e - 1)][i].type \notin HrAsks

\* A request; a process that asks gets none, but for a late listener the first
\* one of the child.
HrRequestOK(p, e, m) ==
    /\ p.proc[e].phase \in HrAsking => HrLate(p.proc[e]) /\ m.type = "ShutdownAdminRequest"
    /\ m.from = e + 1 /\ e + 1 \in HrEpochs
    /\ m.type \in HrAsks => p.proc[e + 1].phase \in HrAsking /\ m.type = HrAskOf(p.proc[e + 1].phase)
    /\ m.type = "DrainListenersRequest" => HrServed(p.proc[e + 1])
    /\ m.type = "TerminateRequest" => p.proc[e + 1].parentGone

\* The messages in the socket of e: one question and one reply at most.
HrMailOK(p, e) ==
    LET box == p.inbox[hrAddress(e)]
    IN  /\ \A i \in 1..Len(box) : IF box[i].type \in HrAnswers THEN HrReplyOK(p, e, box[i]) ELSE HrRequestOK(p, e, box[i])
        /\ \A i, j \in 1..Len(box) : box[i].type \in HrAsks /\ box[j].type \in HrAsks => i = j
        /\ \A i, j \in 1..Len(box) : box[i].type \in HrAnswers /\ box[j].type \in HrAnswers => i = j

\* The newest process that has served listens.
HrListens(p) ==
    (\E e \in HrEpochs : HrServed(p.proc[e])) =>
       \E e \in HrEpochs : HrServed(p.proc[e]) /\ p.proc[e].listening /\ \A f \in HrEpochs : f > e => ~HrServed(p.proc[f])

\* The inductive invariant, as a predicate of a state.
HrOK(p) ==
    /\ p \in HrState /\ ~p.crashed
    /\ \A e \in HrEpochs : HrProcOK(p, e)
    /\ \A e \in HrEpochs : e + 1 \in HrEpochs => HrPairOK(p, e)
    /\ p.proc[HrMaxEpoch].phase \notin {"exiting", "exited"}
    /\ HrInOrder(p) /\ HrOneStarts(p) /\ HrNamesOK(p) /\ HrListens(p)
    /\ \A e \in HrEpochs : HrAlive(p.proc[e]) => HrMailOK(p, e)

\* And of the specification: a process that has asserted met the request of its
\* child.
HrInv ==
    /\ hr \in HrState /\ HrOK([hr EXCEPT !.crashed = FALSE])
    /\ hr.crashed => \E e \in HrEpochs : HrMeetsChild(e)

----------------------------------------------------------------------------
\* Arithmetic of the epochs and of hrAddress().
LEMMA HrEpochFacts ==
    /\ 0 \in HrEpochs /\ HrMaxEpoch \in HrEpochs /\ HrNobody \notin HrEpochs
    /\ \A e \in HrEpochs : /\ e \in Nat /\ e + 1 # e /\ e <= HrMaxEpoch /\ (e # HrMaxEpoch => e + 1 \in HrEpochs)
                           /\ e > 0 => e - 1 \in HrEpochs /\ (e - 1) + 1 = e /\ e - 1 # e
    /\ \A e \in HrEpochs : hrAddress(e) \in HrNames
  BY HrAssumption DEF HrEpochs, HrNobody, hrAddress, HrNames

\* Epochs are ordered, and the next one is above.
LEMMA HrOrder ==
    /\ \A f, g \in HrEpochs : f > g \/ g > f \/ f = g
    /\ \A f, g \in HrEpochs : f > g => f # g
    /\ \A f \in HrEpochs : f + 1 \in HrEpochs => f # HrMaxEpoch /\ f + 1 # f /\ f + 1 > f /\ (f + 1) - 1 = f
                                              /\ (f > 0 <=> f + 1 > 1) /\ f + 1 > 0
  BY HrAssumption DEF HrEpochs

\* The types of the fields.
LEMMA HrFields ==
    ASSUME NEW p \in HrState
    PROVE  /\ p.initializing \in BOOLEAN /\ p.lock \in HrEpochs \cup {HrNobody} /\ p.crashed \in BOOLEAN
           /\ p.bound \in HrBounds /\ p.inbox \in HrInboxes /\ p.proc \in HrProcs
           /\ \A e \in HrEpochs : p.proc[e] \in HrProc
           /\ \A e \in HrEpochs : p.inbox[hrAddress(e)] \in Seq(HrMsg)
<1>1. /\ p.initializing \in BOOLEAN /\ p.lock \in HrEpochs \cup {HrNobody} /\ p.crashed \in BOOLEAN
      /\ p.bound \in HrBounds /\ p.inbox \in HrInboxes /\ p.proc \in HrProcs
  BY DEF HrState
<1>. QED
  BY <1>1, HrEpochFacts DEF HrProcs, HrInboxes

\* An asking process and its parent are both alive, and the parent does not ask.
LEMMA HrParentThere ==
    ASSUME NEW p, HrOK(p), NEW e \in HrEpochs, e > 0, p.proc[e].phase # "none", ~p.proc[e].parentGone
    PROVE  e - 1 \in HrEpochs /\ HrAlive(p.proc[e - 1]) /\ p.proc[e - 1].phase # "exiting"
<1>1. e - 1 \in HrEpochs /\ (e - 1) + 1 = e /\ e > e - 1
  BY HrEpochFacts DEF HrEpochs
<1>2. HrPairOK(p, e - 1) /\ p.proc[e - 1].phase # "none"
  BY <1>1 DEF HrOK, HrInOrder
<1>. QED
  BY <1>1, <1>2 DEF HrPairOK, HrAlive

\* One process changes by itself.
HrMayChange(p, q, e, x) ==
    LET o == p.proc[e]
        box == p.inbox[hrAddress(e)]
    IN  /\ HrAlive(o) /\ HrAlive(x)
        /\ HrProcOK(q, e)
        /\ q.lock = p.lock \/ p.lock \in {HrNobody, e}
        /\ o.parentGone => x.parentGone
        /\ e > 1 /\ x.phase \notin {"new", "askAdmin"} => p.proc[e - 1].parentGone
        /\ x.phase = "exiting" => e # HrMaxEpoch /\ p.proc[e + 1].parentGone
        /\ HrStarting(x) => HrStarting(o)
        /\ q.initializing = p.initializing \/ (HrStarting(o) /\ ~HrStarting(x))
        /\ HrServed(o) => HrServed(x)
        /\ HrServed(x) /\ ~HrServed(o) => x.listening
        /\ o.listening => x.listening \/ (e # HrMaxEpoch /\ HrServed(p.proc[e + 1]))
        /\ \/ x.phase = o.phase /\ x.from = o.from
           \/ box = <<>>
           \/ o.phase \notin HrAsking /\ x.phase \notin HrAsking
           \/ o.phase \notin HrAsking /\ HrLate(x) /\ \A i \in 1..Len(box) : box[i].type = "ShutdownAdminRequest"
           \/ x.phase \notin HrAsking /\ \A i \in 1..Len(box) : box[i].type \notin HrAnswers
        /\ \/ x.phase = o.phase \/ o.phase \notin HrAsking
           \/ \A i \in 1..Len(p.inbox[hrAddress(e - 1)]) : p.inbox[hrAddress(e - 1)][i].type \notin HrAsks

\* HrOK is kept when one record changes so.
LEMMA HrChangeOK ==
    ASSUME NEW p, NEW q, HrOK(p), NEW e \in HrEpochs, NEW x \in HrProc, q \in HrState,
           q.proc = [p.proc EXCEPT ![e] = x], q.inbox = p.inbox, q.bound = p.bound, ~q.crashed,
           HrMayChange(p, q, e, x)
    PROVE  HrOK(q)
<1>. DEFINE o == p.proc[e]
<1>1. p \in HrState /\ p.proc \in HrProcs
  BY HrFields DEF HrOK
<1>2. q.proc[e] = x /\ \A f \in HrEpochs : f # e => q.proc[f] = p.proc[f]
  BY <1>1 DEF HrProcs
<1>3. \A f \in HrEpochs : HrProcOK(q, f)
  <2>. SUFFICES ASSUME NEW f \in HrEpochs, f # e PROVE HrProcOK(q, f)
    BY DEF HrMayChange
  <2>1. HrProcOK(p, f) /\ q.proc[f] = p.proc[f]
    BY <1>2 DEF HrOK
  <2>2. f # HrNobody
    BY HrEpochFacts
  <2>. QED
    BY <2>1, <2>2 DEF HrProcOK, HrMayChange
<1>4. \A f \in HrEpochs : f + 1 \in HrEpochs => HrPairOK(q, f)
  <2>. SUFFICES ASSUME NEW f \in HrEpochs, f + 1 \in HrEpochs PROVE HrPairOK(q, f)
    OBVIOUS
  <2>1. HrPairOK(p, f)
    BY DEF HrOK
  <2>2. CASE f = e
    <3>1. q.proc[f + 1] = p.proc[f + 1] /\ q.proc[f] = x /\ f # HrMaxEpoch
      BY <1>2, <2>2, HrOrder
    <3>. QED
      BY <2>1, <2>2, <3>1 DEF HrPairOK, HrMayChange, HrAlive
  <2>3. CASE f + 1 = e
    <3>1. q.proc[f] = p.proc[f] /\ q.proc[f + 1] = x /\ f = e - 1 /\ (f > 0 <=> e > 1)
      BY <1>2, <2>3, HrOrder
    <3>. QED
      BY <2>1, <2>3, <3>1 DEF HrPairOK, HrMayChange, HrAlive
  <2>4. CASE f # e /\ f + 1 # e
    BY <1>2, <2>1, <2>4 DEF HrPairOK
  <2>. QED
    BY <2>2, <2>3, <2>4
<1>5. q.proc[HrMaxEpoch].phase \notin {"exiting", "exited"}
  BY <1>2, HrEpochFacts DEF HrOK, HrMayChange, HrAlive
<1>10. HrInOrder(q)
  <2>1. \A f \in HrEpochs : p.proc[f].phase = "none" <=> q.proc[f].phase = "none"
    BY <1>2 DEF HrMayChange, HrAlive
  <2>. QED
    BY <2>1 DEF HrOK, HrInOrder
<1>6. HrOneStarts(q)
  <2>1. \A f \in HrEpochs : HrStarting(q.proc[f]) => HrStarting(p.proc[f])
    BY <1>2 DEF HrMayChange
  <2>2. \A f \in HrEpochs : p.proc[f].phase = "none" => q.proc[f].phase = "none"
    BY <1>2 DEF HrMayChange, HrAlive
  <2>3. \A f, g \in HrEpochs : HrStarting(p.proc[f]) /\ HrStarting(p.proc[g]) => f = g
    <3>1. \A f \in HrEpochs : HrStarting(p.proc[f]) => p.proc[f].phase # "none"
      BY DEF HrStarting
    <3>2. \A f, g \in HrEpochs : f > g \/ g > f \/ f = g
      BY HrOrder
    <3>. QED
      BY <3>1, <3>2 DEF HrOK, HrOneStarts
  <2>. SUFFICES ASSUME NEW f \in HrEpochs, HrStarting(q.proc[f])
                PROVE  q.initializing /\ \A g \in HrEpochs : g > f => q.proc[g].phase = "none"
    BY DEF HrOneStarts
  <2>4. HrStarting(p.proc[f]) /\ p.initializing /\ \A g \in HrEpochs : g > f => p.proc[g].phase = "none"
    BY <2>1 DEF HrOK, HrOneStarts
  <2>5. q.initializing
    BY <1>2, <2>3, <2>4 DEF HrMayChange
  <2>. QED
    BY <2>2, <2>4, <2>5
<1>7. HrNamesOK(q)
  BY <1>2 DEF HrNamesOK, HrOK, HrMayChange
<1>8. HrListens(q)
  <2>1. \A f \in HrEpochs : f # e => (HrServed(q.proc[f]) <=> HrServed(p.proc[f]))
    BY <1>2
  <2>2. CASE HrServed(x) /\ ~HrServed(o)
    <3>1. HrStarting(o) /\ \A f \in HrEpochs : f > e => p.proc[f].phase = "none"
      <4>1. o \in HrProc /\ HrProcOK(p, e)
        BY <1>1, HrFields DEF HrOK
      <4>2. HrStarting(o)
        BY <2>2, <4>1 DEF HrMayChange, HrAlive, HrServed, HrStarting, HrProc, HrPhases, HrProcOK
      <4>. QED
        BY <4>2 DEF HrOK, HrOneStarts
    <3>2. \A f \in HrEpochs : f > e => ~HrServed(q.proc[f])
      BY <1>2, <3>1, HrOrder DEF HrServed
    <3>. QED
      BY <1>2, <2>2, <3>2 DEF HrListens, HrMayChange
  <2>3. CASE HrServed(o)
    <3>1. PICK g \in HrEpochs : HrServed(p.proc[g]) /\ p.proc[g].listening /\ \A f \in HrEpochs : f > g => ~HrServed(p.proc[f])
      BY <2>3 DEF HrOK, HrListens
    <3>2. q.proc[g].listening
      <4>1. CASE g = e
        <5>1. e # HrMaxEpoch => e + 1 \in HrEpochs /\ e + 1 > e
          BY HrEpochFacts
        <5>. QED
          BY <1>2, <3>1, <4>1, <5>1 DEF HrMayChange
      <4>2. CASE g # e
        BY <1>2, <3>1, <4>2
      <4>. QED
        BY <4>1, <4>2
    <3>3. HrServed(q.proc[g])
      BY <1>2, <2>1, <3>1 DEF HrMayChange
    <3>4. \A f \in HrEpochs : f > g => ~HrServed(q.proc[f])
      BY <1>2, <2>1, <2>3, <3>1 DEF HrMayChange
    <3>. QED
      BY <3>2, <3>3, <3>4 DEF HrListens
  <2>4. CASE ~HrServed(x) /\ ~HrServed(o)
    <3>1. \A f \in HrEpochs : HrServed(q.proc[f]) <=> HrServed(p.proc[f])
      BY <1>2, <2>1, <2>4
    <3>2. CASE \E f \in HrEpochs : HrServed(q.proc[f])
      <4>1. PICK g \in HrEpochs : HrServed(p.proc[g]) /\ p.proc[g].listening /\ \A f \in HrEpochs : f > g => ~HrServed(p.proc[f])
        BY <3>1, <3>2 DEF HrOK, HrListens
      <4>2. q.proc[g].listening
        BY <1>2, <2>4, <4>1
      <4>. QED
        BY <3>1, <4>1, <4>2 DEF HrListens
    <3>. QED
      BY <3>2 DEF HrListens
  <2>. QED
    BY <2>2, <2>3, <2>4 DEF HrMayChange
<1>9. \A f \in HrEpochs : HrAlive(q.proc[f]) => HrMailOK(q, f)
  <2>. SUFFICES ASSUME NEW f \in HrEpochs, HrAlive(q.proc[f]) PROVE HrMailOK(q, f)
    OBVIOUS
  <2>. DEFINE box == p.inbox[hrAddress(f)]
  <2>1. HrAlive(p.proc[f]) /\ HrMailOK(p, f)
    BY <1>2 DEF HrOK, HrMayChange
  <2>2. ASSUME NEW i \in 1..Len(box), box[i].type \in HrAnswers PROVE HrReplyOK(q, f, box[i])
    <3>1. HrReplyOK(p, f, box[i])
      BY <2>1, <2>2 DEF HrMailOK
    <3>2. q.proc[f].phase = p.proc[f].phase
      <4>1. CASE f = e
        <5>1. box[i].type # "ShutdownAdminRequest" /\ p.proc[f].phase \in HrAsking /\ box # <<>>
          BY <2>2, <3>1 DEF HrAnswers, HrReplyOK
        <5>. QED
          BY <1>2, <2>2, <4>1, <5>1 DEF HrMayChange
      <4>. QED
        BY <1>2, <4>1
    <3>3. f - 1 > 0 /\ p.proc[f - 1].parentGone => q.proc[f - 1].parentGone
      BY <1>2, HrEpochFacts DEF HrMayChange
    <3>. QED
      BY <3>1, <3>2, <3>3 DEF HrReplyOK
  <2>3. ASSUME NEW i \in 1..Len(box), box[i].type \notin HrAnswers PROVE HrRequestOK(q, f, box[i])
    <3>1. HrRequestOK(p, f, box[i])
      BY <2>1, <2>3 DEF HrMailOK
    <3>2. q.proc[f].phase \in HrAsking => HrLate(q.proc[f]) /\ box[i].type = "ShutdownAdminRequest"
      <4>1. CASE f = e
        <5>1. box # <<>>
          BY <2>3
        <5>. QED
          BY <1>2, <2>3, <3>1, <4>1, <5>1 DEF HrMayChange, HrRequestOK, HrLate
      <4>. QED
        BY <1>2, <3>1, <4>1 DEF HrRequestOK
    <3>3. CASE f + 1 = e
      <4>1. f = e - 1 /\ q.proc[f + 1] = x /\ p.proc[f + 1] = o
        BY <1>2, <3>3, HrEpochFacts
      <4>2. box[i].type \in HrAsks => x.phase = o.phase
        BY <2>3, <3>1, <4>1 DEF HrMayChange, HrRequestOK
      <4>. QED
        BY <3>1, <3>2, <4>1, <4>2 DEF HrRequestOK, HrMayChange
    <3>4. CASE f + 1 # e
      BY <1>2, <3>1, <3>2, <3>4 DEF HrRequestOK
    <3>. QED
      BY <3>3, <3>4
  <2>. QED
    BY <2>1, <2>2, <2>3 DEF HrMailOK
<1>. QED
  BY <1>3, <1>4, <1>5, <1>6, <1>7, <1>8, <1>9, <1>10 DEF HrOK

\* Processes that are alive have names of their own.
LEMMA HrOwnNames ==
    ASSUME NEW p, HrOK(p), NEW e \in HrEpochs, NEW f \in HrEpochs, e # f, HrAlive(p.proc[e]), HrAlive(p.proc[f])
    PROVE  hrAddress(e) # hrAddress(f)
  BY DEF HrOK, HrNamesOK

\* What a process finds in its socket.
LEMMA HrBoxTyped ==
    ASSUME NEW p, HrOK(p), NEW e \in HrEpochs
    PROVE  p.inbox[hrAddress(e)] \in Seq(HrMsg)
  BY HrFields DEF HrOK

\* Only one socket's messages change.
HrSameBut(p, q) ==
    /\ q \in HrState /\ ~q.crashed /\ q.initializing = p.initializing /\ q.lock = p.lock
    /\ q.bound = p.bound /\ q.proc = p.proc

\* The reply that e waits for is there.
HrHasReply(p, e) == \E j \in 1..Len(p.inbox[hrAddress(e)]) : p.inbox[hrAddress(e)][j].type \in HrAnswers

\* The child of e has its reply, so no question of it is left with e.
LEMMA HrReplied ==
    ASSUME NEW p, HrOK(p), NEW e \in HrEpochs, e + 1 \in HrEpochs, HrAlive(p.proc[e + 1]), HrHasReply(p, e + 1)
    PROVE  \A i \in 1..Len(p.inbox[hrAddress(e)]) : p.inbox[hrAddress(e)][i].type \notin HrAsks
<1>1. PICK j \in 1..Len(p.inbox[hrAddress(e + 1)]) : p.inbox[hrAddress(e + 1)][j].type \in HrAnswers
  BY DEF HrHasReply
<1>2. HrMailOK(p, e + 1) /\ (e + 1) - 1 = e
  BY HrOrder DEF HrOK
<1>3. HrReplyOK(p, e + 1, p.inbox[hrAddress(e + 1)][j])
  BY <1>1, <1>2 DEF HrMailOK
<1>. QED
  BY <1>2, <1>3 DEF HrReplyOK

\* HrOK is kept when one socket changes and its messages are as they should be.
LEMMA HrMailChanges ==
    ASSUME NEW p, NEW q, HrOK(p), HrSameBut(p, q), NEW e \in HrEpochs, HrAlive(p.proc[e]), NEW box,
           q.inbox = [p.inbox EXCEPT ![hrAddress(e)] = box],
           HrMailOK(q, e),
           ASSUME e + 1 \in HrEpochs, HrAlive(p.proc[e + 1]), HrHasReply(p, e + 1)
           PROVE  \A i \in 1..Len(box) : box[i].type \notin HrAsks
    PROVE  HrOK(q)
<1>1. p \in HrState /\ p.inbox \in HrInboxes /\ p.proc = q.proc /\ hrAddress(e) \in HrNames
  BY HrFields, HrEpochFacts DEF HrOK, HrSameBut
<1>2. q.inbox[hrAddress(e)] = box
  BY <1>1 DEF HrInboxes
<1>3. \A a \in HrNames : a # hrAddress(e) => q.inbox[a] = p.inbox[a]
  BY <1>1 DEF HrInboxes
<1>4. \A f \in HrEpochs : f # e /\ HrAlive(p.proc[f]) => q.inbox[hrAddress(f)] = p.inbox[hrAddress(f)]
  BY <1>3, HrOwnNames, HrEpochFacts
<1>5. /\ \A f \in HrEpochs : HrProcOK(q, f)
      /\ \A f \in HrEpochs : f + 1 \in HrEpochs => HrPairOK(q, f)
      /\ q.proc[HrMaxEpoch].phase \notin {"exiting", "exited"}
  BY <1>1 DEF HrOK, HrSameBut, HrProcOK, HrPairOK
<1>6. HrInOrder(q) /\ HrOneStarts(q) /\ HrListens(q)
  BY <1>1 DEF HrOK, HrSameBut, HrInOrder, HrOneStarts, HrListens
<1>7. HrNamesOK(q)
  <2>1. q.bound = p.bound /\ p.bound[hrAddress(e)] = e /\ e # HrNobody
    BY HrEpochFacts DEF HrSameBut, HrOK, HrNamesOK
  <2>. QED
    BY <1>1, <1>3, <2>1 DEF HrOK, HrNamesOK
<1>8. ASSUME NEW f \in HrEpochs, HrAlive(q.proc[f]) PROVE HrMailOK(q, f)
  <2>1. CASE f = e
    BY <2>1
  <2>2. CASE f # e
    <3>. DEFINE mail == p.inbox[hrAddress(f)]
    <3>1. q.inbox[hrAddress(f)] = mail /\ HrMailOK(p, f)
      BY <1>1, <1>4, <1>8, <2>2 DEF HrOK
    <3>2. ASSUME NEW i \in 1..Len(mail), mail[i].type \in HrAnswers PROVE HrReplyOK(q, f, mail[i])
      <4>1. HrReplyOK(p, f, mail[i])
        BY <3>1, <3>2 DEF HrMailOK
      <4>2. p.proc[f].phase \in HrAsking
        BY <4>1 DEF HrReplyOK
      <4>3. p.proc[f].phase # "none" /\ ~p.proc[f].parentGone /\ f > 0
        BY <4>2 DEF HrOK, HrProcOK, HrAsking
      <4>4. f - 1 \in HrEpochs /\ HrAlive(p.proc[f - 1])
        BY <4>3, HrParentThere
      <4>5. CASE f - 1 = e
        <5>1. f = e + 1 /\ e + 1 \in HrEpochs
          BY <4>5, <4>3, HrEpochFacts
        <5>2. HrHasReply(p, e + 1) /\ HrAlive(p.proc[e + 1])
          BY <1>1, <1>8, <3>2, <5>1 DEF HrHasReply
        <5>4. \A j \in 1..Len(box) : box[j].type \notin HrAsks
          BY <5>1, <5>2
        <5>. QED
          BY <1>1, <1>2, <3>1, <4>1, <4>5, <5>4 DEF HrReplyOK
      <4>6. CASE f - 1 # e
        <5>1. q.inbox[hrAddress(f - 1)] = p.inbox[hrAddress(f - 1)]
          BY <1>4, <4>4, <4>6
        <5>. QED
          BY <1>1, <3>1, <4>1, <5>1 DEF HrReplyOK
      <4>. QED
        BY <4>5, <4>6
    <3>3. ASSUME NEW i \in 1..Len(mail), mail[i].type \notin HrAnswers PROVE HrRequestOK(q, f, mail[i])
      BY <1>1, <3>1, <3>3 DEF HrMailOK, HrRequestOK
    <3>. QED
      BY <3>1, <3>2, <3>3 DEF HrMailOK
  <2>. QED
    BY <2>1, <2>2
<1>. QED
  BY <1>5, <1>6, <1>7, <1>8 DEF HrOK, HrSameBut

\* HrOK is kept when a message is read: hrTake().
LEMMA HrTakeOK ==
    ASSUME NEW p, NEW q, HrOK(p), HrSameBut(p, q), NEW e \in HrEpochs, HrAlive(p.proc[e]), p.inbox[hrAddress(e)] # <<>>,
           p.proc[e].phase \notin HrAsking \/ Head(p.inbox[hrAddress(e)]).type \in HrAnswers,
           q.inbox = [p.inbox EXCEPT ![hrAddress(e)] = Tail(@)]
    PROVE  HrOK(q)
<1>. DEFINE mail == p.inbox[hrAddress(e)]
            box == Tail(mail)
<1>1. mail \in Seq(HrMsg) /\ mail # <<>>
  BY HrBoxTyped
<1>2. Len(box) = Len(mail) - 1 /\ \A i \in 1..Len(box) : box[i] = mail[i + 1] /\ i + 1 \in 1..Len(mail) /\ i + 1 # 1
  BY <1>1
<1>3. p.inbox \in HrInboxes /\ q.proc = p.proc /\ hrAddress(e) \in HrNames
  BY HrFields, HrEpochFacts DEF HrOK, HrSameBut
<1>4. q.inbox[hrAddress(e)] = box
  BY <1>3 DEF HrInboxes
<1>5. HrMailOK(p, e) /\ 1 \in 1..Len(mail) /\ Head(mail) = mail[1]
  BY <1>1 DEF HrOK
<1>6. HrMailOK(q, e)
  <2>1. ASSUME NEW i \in 1..Len(box) PROVE box[i].type \notin HrAnswers /\ HrRequestOK(q, e, box[i])
    <3>1. box[i] = mail[i + 1] /\ i + 1 \in 1..Len(mail) /\ i + 1 # 1
      BY <1>1, <1>2
    <3>2. box[i].type \notin HrAnswers
      BY <1>5, <3>1 DEF HrMailOK, HrReplyOK
    <3>3. HrRequestOK(p, e, box[i])
      BY <1>5, <3>1, <3>2 DEF HrMailOK
    <3>. QED
      BY <1>3, <3>2, <3>3 DEF HrRequestOK
  <2>2. ASSUME NEW i \in 1..Len(box), NEW j \in 1..Len(box), box[i].type \in HrAsks, box[j].type \in HrAsks PROVE i = j
    <3>1. i + 1 = j + 1
      BY <1>2, <1>5, <2>2 DEF HrMailOK
    <3>. QED
      BY <3>1
  <2>. QED
    BY <1>4, <2>1, <2>2 DEF HrMailOK
<1>7. ASSUME e + 1 \in HrEpochs, HrAlive(p.proc[e + 1]), HrHasReply(p, e + 1)
      PROVE  \A i \in 1..Len(box) : box[i].type \notin HrAsks
  BY <1>2, <1>7, HrReplied
<1>. QED
  BY <1>3, <1>4, <1>6, <1>7, HrMailChanges

\* What comes first to a process that asks: its reply, or for a late listener the
\* request of the child.
LEMMA HrAskingBox ==
    ASSUME NEW p, HrOK(p), NEW e \in HrEpochs, p.proc[e].phase \in HrAsking, p.inbox[hrAddress(e)] # <<>>
    PROVE  LET mail == p.inbox[hrAddress(e)]
           IN  \/ /\ HrReplyOK(p, e, Head(mail)) /\ Head(mail).type \in HrAnswers
                  /\ \A i \in 1..Len(Tail(mail)) : Tail(mail)[i].type \notin HrAnswers
               \/ HrLate(p.proc[e]) /\ Head(mail).type = "ShutdownAdminRequest" /\ Head(mail).from = e + 1
<1>. DEFINE mail == p.inbox[hrAddress(e)]
<1>1. mail \in Seq(HrMsg) /\ mail # <<>>
  BY HrBoxTyped
<1>2. HrMailOK(p, e)
  BY DEF HrOK, HrAlive, HrAsking
<1>3. 1 \in 1..Len(mail) /\ Head(mail) = mail[1]
  BY <1>1
<1>4. CASE mail[1].type \in HrAnswers
  <2>1. ASSUME NEW i \in 1..Len(Tail(mail)) PROVE Tail(mail)[i].type \notin HrAnswers
    <3>1. Tail(mail)[i] = mail[i + 1] /\ i + 1 \in 1..Len(mail) /\ i + 1 # 1
      BY <1>1
    <3>. QED
      BY <1>2, <1>3, <1>4, <3>1 DEF HrMailOK
  <2>. QED
    BY <1>2, <1>3, <1>4, <2>1 DEF HrMailOK
<1>5. CASE mail[1].type \notin HrAnswers
  BY <1>2, <1>3, <1>5 DEF HrMailOK, HrRequestOK
<1>. QED
  BY <1>4, <1>5

HrRequests == HrAsks \cup {"DrainListenersRequest", "TerminateRequest"}

\* The socket of the parent of a process that has its reply is another one.
LEMMA HrReplyKept ==
    ASSUME NEW p, NEW q, HrOK(p), HrSameBut(p, q), NEW e \in HrEpochs, HrAlive(p.proc[e]), NEW box,
           q.inbox = [p.inbox EXCEPT ![hrAddress(e)] = box], NEW m, HrReplyOK(p, e, m)
    PROVE  HrReplyOK(q, e, m)
<1>1. p.proc[e].phase \in HrAsking /\ p.inbox \in HrInboxes /\ q.proc = p.proc
  BY HrFields DEF HrReplyOK, HrOK, HrSameBut
<1>2. p.proc[e].phase # "none" /\ ~p.proc[e].parentGone /\ e > 0
  BY <1>1 DEF HrOK, HrProcOK, HrAsking
<1>3. e - 1 \in HrEpochs /\ HrAlive(p.proc[e - 1]) /\ e - 1 # e
  BY <1>2, HrParentThere, HrEpochFacts
<1>4. hrAddress(e - 1) # hrAddress(e) /\ hrAddress(e - 1) \in HrNames
  BY <1>3, HrOwnNames, HrEpochFacts
<1>5. q.inbox[hrAddress(e - 1)] = p.inbox[hrAddress(e - 1)]
  BY <1>1, <1>4 DEF HrInboxes
<1>. QED
  BY <1>1, <1>5 DEF HrReplyOK

\* HrOK is kept when a child sends a request: sendMessage() to the parent.
LEMMA HrRequestSent ==
    ASSUME NEW p, NEW q, HrOK(p), HrSameBut(p, q), NEW e \in HrEpochs, HrAlive(p.proc[e]),
           NEW m, m \in HrMsg, m.type \in HrRequests, HrRequestOK(p, e, m),
           m.type \in HrAsks => ~HrHasReply(p, e + 1)
                                /\ \A i \in 1..Len(p.inbox[hrAddress(e)]) : p.inbox[hrAddress(e)][i].type \notin HrAsks,
           q.inbox = [p.inbox EXCEPT ![hrAddress(e)] = Append(@, m)]
    PROVE  HrOK(q)
<1>. DEFINE mail == p.inbox[hrAddress(e)]
            box == Append(mail, m)
<1>1. mail \in Seq(HrMsg)
  BY HrBoxTyped
<1>2. /\ Len(box) = Len(mail) + 1 /\ box[Len(mail) + 1] = m
      /\ \A i \in 1..Len(box) : (i \in 1..Len(mail) /\ box[i] = mail[i]) \/ (i = Len(mail) + 1 /\ box[i] = m)
  BY <1>1
<1>3. p.inbox \in HrInboxes /\ q.proc = p.proc /\ hrAddress(e) \in HrNames
  BY HrFields, HrEpochFacts DEF HrOK, HrSameBut
<1>4. q.inbox[hrAddress(e)] = box /\ q.inbox = [p.inbox EXCEPT ![hrAddress(e)] = box]
  BY <1>3 DEF HrInboxes
<1>5. HrMailOK(p, e)
  BY DEF HrOK
<1>. HIDE DEF box
<1>6. HrMailOK(q, e)
  <2>0. m.type \notin HrAnswers
    BY DEF HrRequests, HrAsks, HrAnswers
  <2>1. ASSUME NEW i \in 1..Len(box), box[i].type \notin HrAnswers PROVE HrRequestOK(q, e, box[i])
    <3>1. HrRequestOK(p, e, box[i])
      <4>1. CASE i \in 1..Len(mail) /\ box[i] = mail[i]
        BY <1>5, <2>1, <4>1 DEF HrMailOK
      <4>2. CASE box[i] = m
        BY <4>2
      <4>. QED
        BY <1>2, <4>1, <4>2
    <3>. QED
      BY <1>3, <3>1 DEF HrRequestOK
  <2>3. ASSUME NEW i \in 1..Len(box), box[i].type \in HrAnswers
        PROVE  i \in 1..Len(mail) /\ box[i] = mail[i] /\ HrReplyOK(q, e, box[i])
    <3>1. i \in 1..Len(mail) /\ box[i] = mail[i]
      BY <1>2, <2>0, <2>3
    <3>2. HrReplyOK(p, e, box[i])
      BY <1>5, <2>3, <3>1 DEF HrMailOK
    <3>. QED
      BY <1>4, <3>1, <3>2, HrReplyKept
  <2>4. ASSUME NEW i \in 1..Len(box), NEW j \in 1..Len(box), box[i].type \in HrAnswers, box[j].type \in HrAnswers PROVE i = j
    BY <1>5, <2>3, <2>4 DEF HrMailOK
  <2>2. ASSUME NEW i \in 1..Len(box), NEW j \in 1..Len(box), box[i].type \in HrAsks, box[j].type \in HrAsks PROVE i = j
    <3>1. CASE i \in 1..Len(mail) /\ box[i] = mail[i] /\ j \in 1..Len(mail) /\ box[j] = mail[j]
      BY <1>5, <2>2, <3>1 DEF HrMailOK
    <3>2. CASE box[i] = m \/ box[j] = m
      <4>1. m.type \in HrAsks
        BY <2>2, <3>2
      <4>2. ~(i \in 1..Len(mail) /\ box[i] = mail[i]) /\ ~(j \in 1..Len(mail) /\ box[j] = mail[j])
        BY <4>1, <2>2
      <4>. QED
        BY <1>2, <4>2
    <3>. QED
      BY <1>2, <3>1, <3>2
  <2>. QED
    BY <1>4, <2>1, <2>2, <2>3, <2>4 DEF HrMailOK
<1>7. ASSUME e + 1 \in HrEpochs, HrAlive(p.proc[e + 1]), HrHasReply(p, e + 1)
      PROVE  \A i \in 1..Len(box) : box[i].type \notin HrAsks
  <2>1. \A i \in 1..Len(mail) : mail[i].type \notin HrAsks
    BY <1>7, HrReplied
  <2>. QED
    BY <1>2, <1>7, <2>1
<1>. QED
  BY <1>3, <1>4, <1>6, <1>7, HrMailChanges

\* HrOK is kept when a parent replies: sendMessage() to the child.
LEMMA HrReplySent ==
    ASSUME NEW p, NEW q, HrOK(p), HrSameBut(p, q), NEW e \in HrEpochs, e > 0, p.proc[e].phase \in HrAsking,
           NEW m, m \in HrMsg, m.type = HrReplies[p.proc[e].phase], m.from = e - 1,
           m.type = "ShutdownAdminReply" /\ e - 1 > 0 => p.proc[e - 1].parentGone,
           ~HrHasReply(p, e),
           \A i \in 1..Len(p.inbox[hrAddress(e - 1)]) : p.inbox[hrAddress(e - 1)][i].type \notin HrAsks,
           q.inbox = [p.inbox EXCEPT ![hrAddress(e)] = Append(@, m)]
    PROVE  HrOK(q)
<1>. DEFINE mail == p.inbox[hrAddress(e)]
            box == Append(mail, m)
<1>1. mail \in Seq(HrMsg)
  BY HrBoxTyped
<1>2. \A i \in 1..Len(box) : (i \in 1..Len(mail) /\ box[i] = mail[i]) \/ (i = Len(mail) + 1 /\ box[i] = m)
  BY <1>1
<1>3. p.inbox \in HrInboxes /\ q.proc = p.proc /\ hrAddress(e) \in HrNames /\ HrAlive(p.proc[e])
  BY HrFields, HrEpochFacts DEF HrOK, HrSameBut, HrAlive, HrAsking
<1>4. q.inbox[hrAddress(e)] = box /\ q.inbox = [p.inbox EXCEPT ![hrAddress(e)] = box]
  BY <1>3 DEF HrInboxes
<1>5. m.type \in HrAnswers /\ m.type \notin HrAsks
  BY DEF HrReplies, HrAsking, HrAnswers, HrAsks
<1>. HIDE DEF box
<1>6. HrMailOK(q, e)
  <2>1. HrMailOK(p, e)
    BY <1>3 DEF HrOK
  <2>2. HrReplyOK(p, e, m)
    BY DEF HrReplyOK
  <2>3. HrReplyOK(q, e, m)
    BY <1>3, <1>4, <2>2, HrReplyKept
  <2>4. ASSUME NEW i \in 1..Len(box), box[i].type \in HrAnswers PROVE i = Len(mail) + 1 /\ box[i] = m
    BY <1>2, <2>4 DEF HrHasReply
  <2>5. ASSUME NEW i \in 1..Len(box), box[i].type \notin HrAnswers
        PROVE  i \in 1..Len(mail) /\ box[i] = mail[i] /\ HrRequestOK(q, e, box[i])
    <3>1. i \in 1..Len(mail) /\ box[i] = mail[i]
      BY <1>2, <1>5, <2>5
    <3>2. HrRequestOK(p, e, box[i])
      BY <2>1, <2>5, <3>1 DEF HrMailOK
    <3>. QED
      BY <1>3, <3>1, <3>2 DEF HrRequestOK
  <2>6. ASSUME NEW i \in 1..Len(box), NEW j \in 1..Len(box), box[i].type \in HrAsks, box[j].type \in HrAsks PROVE i = j
    <3>1. box[i].type \notin HrAnswers /\ box[j].type \notin HrAnswers
      BY <2>6 DEF HrAsks, HrAnswers
    <3>. QED
      BY <2>1, <2>5, <2>6, <3>1 DEF HrMailOK
  <2>7. \A i \in 1..Len(box) : IF box[i].type \in HrAnswers THEN HrReplyOK(q, e, box[i]) ELSE HrRequestOK(q, e, box[i])
    BY <2>3, <2>4, <2>5
  <2>8. \A i, j \in 1..Len(box) : box[i].type \in HrAnswers /\ box[j].type \in HrAnswers => i = j
    BY <2>4
  <2>9. \A i, j \in 1..Len(box) : box[i].type \in HrAsks /\ box[j].type \in HrAsks => i = j
    BY <2>6
  <2>. QED
    BY <1>4, <2>7, <2>8, <2>9 DEF HrMailOK
<1>7. ASSUME e + 1 \in HrEpochs, HrAlive(p.proc[e + 1]), HrHasReply(p, e + 1)
      PROVE  \A i \in 1..Len(box) : box[i].type \notin HrAsks
  <2>1. \A i \in 1..Len(mail) : mail[i].type \notin HrAsks
    BY <1>7, HrReplied
  <2>. QED
    BY <1>2, <1>5, <2>1
<1>. QED
  BY <1>3, <1>4, <1>6, <1>7, HrMailChanges

\* A process that was told to exit is gone.
LEMMA HrGoneOK ==
    ASSUME NEW p, NEW q, HrOK(p), NEW e \in HrEpochs, p.proc[e].phase = "exiting",
           q \in HrState, ~q.crashed, q.initializing = p.initializing, q.lock = p.lock,
           NEW x \in HrProc, x.phase = "exited", x.parentGone = p.proc[e].parentGone,
           q.proc = [p.proc EXCEPT ![e] = x],
           q.bound = [p.bound EXCEPT ![hrAddress(e)] = HrNobody],
           q.inbox = [p.inbox EXCEPT ![hrAddress(e)] = <<>>]
    PROVE  HrOK(q)
<1>0. p \in HrState /\ p.proc \in HrProcs /\ p.bound \in HrBounds /\ p.inbox \in HrInboxes
  BY HrFields DEF HrOK
<1>1. q.proc[e] = x /\ \A f \in HrEpochs : f # e => q.proc[f] = p.proc[f]
  BY <1>0 DEF HrProcs
<1>2. HrAlive(p.proc[e]) /\ p.bound[hrAddress(e)] = e /\ hrAddress(e) \in HrNames
  BY HrEpochFacts DEF HrAlive, HrOK, HrNamesOK
<1>3. /\ q.bound[hrAddress(e)] = HrNobody /\ q.inbox[hrAddress(e)] = <<>>
      /\ \A a \in HrNames : a # hrAddress(e) => q.bound[a] = p.bound[a] /\ q.inbox[a] = p.inbox[a]
  BY <1>0, <1>2 DEF HrBounds, HrInboxes
<1>4. e # HrMaxEpoch /\ e + 1 \in HrEpochs
  BY HrEpochFacts DEF HrOK
<1>5. p.proc[e + 1].parentGone
  BY <1>4 DEF HrOK, HrPairOK
<1>6. \A f \in HrEpochs : HrProcOK(q, f)
  BY <1>1 DEF HrOK, HrProcOK, HrAsking
<1>7. \A f \in HrEpochs : f + 1 \in HrEpochs => HrPairOK(q, f)
  <2>. SUFFICES ASSUME NEW f \in HrEpochs, f + 1 \in HrEpochs PROVE HrPairOK(q, f)
    OBVIOUS
  <2>1. HrPairOK(p, f)
    BY DEF HrOK
  <2>2. CASE f = e
    BY <1>1, <1>5, <2>1, <2>2, HrOrder DEF HrPairOK
  <2>3. CASE f + 1 = e
    <3>1. f # e
      BY <2>3, HrOrder
    <3>. QED
      BY <1>1, <2>1, <2>3, <3>1 DEF HrPairOK
  <2>4. CASE f # e /\ f + 1 # e
    BY <1>1, <2>1, <2>4 DEF HrPairOK
  <2>. QED
    BY <2>2, <2>3, <2>4
<1>8. q.proc[HrMaxEpoch].phase \notin {"exiting", "exited"}
  BY <1>1, <1>4, HrEpochFacts DEF HrOK
<1>9. HrInOrder(q) /\ HrOneStarts(q)
  <2>1. \A f \in HrEpochs : (q.proc[f].phase = "none" <=> p.proc[f].phase = "none") /\ (HrStarting(q.proc[f]) <=> HrStarting(p.proc[f]))
    BY <1>1 DEF HrStarting
  <2>. QED
    BY <2>1 DEF HrOK, HrInOrder, HrOneStarts
<1>10. HrNamesOK(q)
  <2>1. \A f \in HrEpochs : HrAlive(q.proc[f]) <=> q.bound[hrAddress(f)] = f
    <3>. SUFFICES ASSUME NEW f \in HrEpochs PROVE HrAlive(q.proc[f]) <=> q.bound[hrAddress(f)] = f
      OBVIOUS
    <3>1. HrAlive(p.proc[f]) <=> p.bound[hrAddress(f)] = f
      BY DEF HrOK, HrNamesOK
    <3>2. f # HrNobody /\ hrAddress(f) \in HrNames
      BY HrEpochFacts
    <3>3. CASE f = e
      BY <1>1, <1>3, <3>2, <3>3 DEF HrAlive
    <3>4. CASE f # e
      BY <1>1, <1>2, <1>3, <3>1, <3>2, <3>4
    <3>. QED
      BY <3>3, <3>4
  <2>. QED
    BY <1>3, <2>1 DEF HrNamesOK, HrOK
<1>11. HrListens(q)
  <2>1. \A f \in HrEpochs : HrServed(q.proc[f]) <=> HrServed(p.proc[f])
    BY <1>1 DEF HrServed
  <2>2. HrServed(p.proc[e]) /\ HrServed(p.proc[e + 1]) /\ e + 1 > e
    BY <1>4, <1>5, HrOrder DEF HrServed, HrOK, HrProcOK
  <2>3. PICK g \in HrEpochs : HrServed(p.proc[g]) /\ p.proc[g].listening /\ \A f \in HrEpochs : f > g => ~HrServed(p.proc[f])
    BY <2>2 DEF HrOK, HrListens
  <2>4. g # e
    BY <1>4, <2>2, <2>3
  <2>. QED
    BY <1>1, <2>1, <2>3, <2>4 DEF HrListens
<1>12. ASSUME NEW f \in HrEpochs, HrAlive(q.proc[f]) PROVE HrMailOK(q, f)
  <2>. DEFINE mail == p.inbox[hrAddress(f)]
  <2>1. f # e /\ HrAlive(p.proc[f]) /\ HrMailOK(p, f) /\ q.proc[f] = p.proc[f]
    BY <1>1, <1>12 DEF HrAlive, HrOK
  <2>2. q.inbox[hrAddress(f)] = mail
    BY <1>2, <1>3, <2>1, HrOwnNames, HrEpochFacts
  <2>3. ASSUME NEW i \in 1..Len(mail), mail[i].type \in HrAnswers PROVE HrReplyOK(q, f, mail[i])
    <3>1. HrReplyOK(p, f, mail[i])
      BY <2>1, <2>3 DEF HrMailOK
    <3>2. p.proc[f].phase \in HrAsking
      BY <3>1 DEF HrReplyOK
    <3>3. p.proc[f].phase # "none" /\ ~p.proc[f].parentGone /\ f > 0
      BY <3>2 DEF HrOK, HrProcOK, HrAsking
    <3>4. f - 1 \in HrEpochs /\ HrAlive(p.proc[f - 1]) /\ f - 1 # e
      BY <3>3, HrParentThere
    <3>5. q.inbox[hrAddress(f - 1)] = p.inbox[hrAddress(f - 1)] /\ q.proc[f - 1] = p.proc[f - 1]
      BY <1>1, <1>2, <1>3, <3>4, HrOwnNames, HrEpochFacts
    <3>. QED
      BY <2>1, <2>2, <3>1, <3>5 DEF HrReplyOK
  <2>4. ASSUME NEW i \in 1..Len(mail), mail[i].type \notin HrAnswers PROVE HrRequestOK(q, f, mail[i])
    <3>1. HrRequestOK(p, f, mail[i])
      BY <2>1, <2>4 DEF HrMailOK
    <3>2. CASE f + 1 = e
      BY <1>1, <2>1, <3>1, <3>2 DEF HrRequestOK, HrServed, HrAsking
    <3>3. CASE f + 1 # e
      BY <1>1, <2>1, <3>1, <3>3 DEF HrRequestOK
    <3>. QED
      BY <3>2, <3>3
  <2>. QED
    BY <2>1, <2>2, <2>3, <2>4 DEF HrMailOK
<1>. QED
  BY <1>6, <1>7, <1>8, <1>9, <1>10, <1>11, <1>12 DEF HrOK

\* The last process starts, or gives up, while its parent has no message of it.
HrMayCome(p, q, e, x) ==
    /\ q.initializing /\ q.lock = p.lock
    /\ HrAlive(x) => q.bound[hrAddress(e)] = e
    /\ ~HrAlive(x) => q.bound[hrAddress(e)] = HrNobody
    /\ q.inbox[hrAddress(e)] = <<>>
    /\ \A a \in HrNames : a # hrAddress(e) => q.bound[a] = p.bound[a] /\ q.inbox[a] = p.inbox[a]
    /\ p.bound[hrAddress(e)] \in {HrNobody, e}
    /\ p.proc[e].phase \in {"none", "config"} /\ x \in {HrNew, [HrNew EXCEPT !.phase = "new"]}
    /\ e > 0 => p.proc[e - 1].phase # "none"
    /\ \A f \in HrEpochs : f # e => ~HrStarting(p.proc[f])
    /\ \A f \in HrEpochs : f > e => p.proc[f].phase = "none"

\* HrOK is kept when the last process starts, or its configuration fails.
LEMMA HrComesOrGoes ==
    ASSUME NEW p, NEW q, HrOK(p), NEW e \in HrEpochs, NEW x \in HrProc, q \in HrState, ~q.crashed,
           q.proc = [p.proc EXCEPT ![e] = x], HrMayCome(p, q, e, x)
    PROVE  HrOK(q)
<1>. USE DEF HrMayCome
<1>0. p \in HrState /\ p.proc \in HrProcs
  BY HrFields DEF HrOK
<1>1. q.proc[e] = x /\ \A f \in HrEpochs : f # e => q.proc[f] = p.proc[f]
  BY <1>0 DEF HrProcs
<1>2. /\ x.phase \in {"none", "new"} /\ ~x.parentGone
      /\ ~HrServed(x) /\ (x.phase = "none" => x = HrNew)
  BY DEF HrNew, HrServed
<1>3. ~p.proc[e].parentGone /\ ~HrServed(p.proc[e]) /\ p.proc[e].phase \notin HrAsking
  BY DEF HrOK, HrProcOK, HrServed, HrAsking, HrNew
<1>4. e # HrNobody /\ hrAddress(e) \in HrNames
  BY HrEpochFacts
<1>5. \A f \in HrEpochs : HrProcOK(q, f)
  BY <1>1, <1>2 DEF HrOK, HrProcOK, HrAsking
<1>6. \A f \in HrEpochs : f + 1 \in HrEpochs => HrPairOK(q, f)
  <2>. SUFFICES ASSUME NEW f \in HrEpochs, f + 1 \in HrEpochs PROVE HrPairOK(q, f)
    OBVIOUS
  <2>1. HrPairOK(p, f)
    BY DEF HrOK
  <2>2. CASE f = e
    <3>1. f + 1 > e /\ f + 1 # e
      BY <2>2, HrOrder
    <3>. QED
      BY <1>1, <1>2, <2>1, <2>2, <3>1 DEF HrPairOK
  <2>3. CASE f + 1 = e
    <3>1. f # e
      BY <2>3, HrOrder
    <3>. QED
      BY <1>1, <1>2, <1>3, <2>1, <2>3, <3>1 DEF HrPairOK
  <2>4. CASE f # e /\ f + 1 # e
    BY <1>1, <2>1, <2>4 DEF HrPairOK
  <2>. QED
    BY <2>2, <2>3, <2>4
<1>7. q.proc[HrMaxEpoch].phase \notin {"exiting", "exited"}
  BY <1>1, <1>2, HrEpochFacts DEF HrOK
<1>8. HrInOrder(q)
  <2>. SUFFICES ASSUME NEW f \in HrEpochs, NEW g \in HrEpochs, g > f, q.proc[f].phase = "none" PROVE q.proc[g].phase = "none"
    BY DEF HrInOrder
  <2>1. CASE f = e
    BY <1>1, <2>1, HrOrder
  <2>2. CASE f # e
    <3>1. p.proc[f].phase = "none" /\ p.proc[g].phase = "none"
      BY <1>1, <2>2 DEF HrOK, HrInOrder
    <3>2. CASE g = e
      <4>1. e > 0 /\ e - 1 \in HrEpochs /\ (e - 1 > f \/ e - 1 = f)
        BY <3>2, HrAssumption DEF HrEpochs
      <4>. QED
        BY <3>1, <4>1 DEF HrOK, HrInOrder
    <3>3. CASE g # e
      BY <1>1, <3>1, <3>3
    <3>. QED
      BY <3>2, <3>3
  <2>. QED
    BY <2>1, <2>2
<1>9. HrOneStarts(q)
  BY <1>1, HrOrder DEF HrOneStarts
<1>10. HrNamesOK(q)
  <2>1. \A f \in HrEpochs : HrAlive(q.proc[f]) <=> q.bound[hrAddress(f)] = f
    <3>. SUFFICES ASSUME NEW f \in HrEpochs PROVE HrAlive(q.proc[f]) <=> q.bound[hrAddress(f)] = f
      OBVIOUS
    <3>1. HrAlive(p.proc[f]) <=> p.bound[hrAddress(f)] = f
      BY DEF HrOK, HrNamesOK
    <3>2. f # HrNobody /\ hrAddress(f) \in HrNames
      BY HrEpochFacts
    <3>3. CASE f = e
      BY <1>1, <1>4, <3>3
    <3>4. CASE f # e
      BY <1>1, <1>4, <3>1, <3>2, <3>4
    <3>. QED
      BY <3>3, <3>4
  <2>2. \A a \in HrNames : q.bound[a] # HrNobody => hrAddress(q.bound[a]) = a
    BY <1>4 DEF HrNamesOK, HrOK
  <2>3. \A a \in HrNames : q.bound[a] = HrNobody => q.inbox[a] = <<>>
    BY <1>4 DEF HrNamesOK, HrOK
  <2>. QED
    BY <2>1, <2>2, <2>3 DEF HrNamesOK
<1>11. HrListens(q)
  <2>1. \A f \in HrEpochs : HrServed(q.proc[f]) <=> HrServed(p.proc[f])
    BY <1>1, <1>2, <1>3
  <2>2. CASE \E f \in HrEpochs : HrServed(q.proc[f])
    <3>1. PICK g \in HrEpochs : HrServed(p.proc[g]) /\ p.proc[g].listening /\ \A f \in HrEpochs : f > g => ~HrServed(p.proc[f])
      BY <2>1, <2>2 DEF HrOK, HrListens
    <3>2. q.proc[g].listening
      BY <1>1, <1>3, <3>1
    <3>. QED
      BY <2>1, <3>1, <3>2 DEF HrListens
  <2>. QED
    BY <2>2 DEF HrListens
<1>12. ASSUME NEW f \in HrEpochs, HrAlive(q.proc[f]) PROVE HrMailOK(q, f)
  <2>1. CASE f = e
    <3>1. \A i : i \notin 1..Len(<<>>)
      OBVIOUS
    <3>. QED
      BY <2>1, <3>1 DEF HrMailOK
  <2>2. CASE f # e
    <3>. DEFINE mail == p.inbox[hrAddress(f)]
    <3>1. HrAlive(p.proc[f]) /\ HrMailOK(p, f) /\ q.proc[f] = p.proc[f]
      BY <1>1, <1>12, <2>2 DEF HrOK
    <3>2. ASSUME NEW g \in HrEpochs, g # e, HrAlive(p.proc[g]) PROVE q.inbox[hrAddress(g)] = p.inbox[hrAddress(g)]
      <4>1. p.bound[hrAddress(g)] = g /\ g # HrNobody /\ hrAddress(g) \in HrNames
        BY <3>2, HrEpochFacts DEF HrOK, HrNamesOK
      <4>2. hrAddress(g) # hrAddress(e)
        BY <3>2, <4>1
      <4>. QED
        BY <4>1, <4>2
    <3>3. q.inbox[hrAddress(f)] = mail
      BY <2>2, <3>1, <3>2
    <3>4. ASSUME NEW i \in 1..Len(mail), mail[i].type \in HrAnswers PROVE HrReplyOK(q, f, mail[i])
      <4>1. HrReplyOK(p, f, mail[i])
        BY <3>1, <3>4 DEF HrMailOK
      <4>2. p.proc[f].phase \in HrAsking
        BY <4>1 DEF HrReplyOK
      <4>3. p.proc[f].phase # "none" /\ ~p.proc[f].parentGone /\ f > 0
        BY <4>2 DEF HrOK, HrProcOK, HrAsking
      <4>4. f - 1 \in HrEpochs /\ HrAlive(p.proc[f - 1])
        BY <4>3, HrParentThere
      <4>5. f - 1 # e
        BY <4>3, HrEpochFacts DEF HrEpochs
      <4>6. q.inbox[hrAddress(f - 1)] = p.inbox[hrAddress(f - 1)] /\ q.proc[f - 1] = p.proc[f - 1]
        BY <1>1, <3>2, <4>4, <4>5
      <4>. QED
        BY <3>1, <3>3, <4>1, <4>6 DEF HrReplyOK
    <3>5. ASSUME NEW i \in 1..Len(mail), mail[i].type \notin HrAnswers PROVE HrRequestOK(q, f, mail[i])
      <4>1. HrRequestOK(p, f, mail[i]) /\ mail[i].type \in HrTypes
        <5>1. mail \in Seq(HrMsg)
          BY HrBoxTyped
        <5>2. mail[i] \in HrMsg
          BY <5>1
        <5>. QED
          BY <3>1, <3>5, <5>2 DEF HrMailOK, HrMsg
      <4>2. CASE f + 1 = e
        BY <1>3, <3>5, <4>1, <4>2 DEF HrRequestOK, HrTypes
      <4>3. CASE f + 1 # e
        BY <1>1, <3>1, <4>1, <4>3 DEF HrRequestOK
      <4>. QED
        BY <4>2, <4>3
    <3>. QED
      BY <3>1, <3>3, <3>4, <3>5 DEF HrMailOK
  <2>. QED
    BY <2>1, <2>2
<1>. QED
  BY <1>5, <1>6, <1>7, <1>8, <1>9, <1>10, <1>11, <1>12 DEF HrOK

\* The record of process e becomes x, the lock l and the flag i.
HrSets(p, q, e, x, l, i) ==
    /\ q \in HrState /\ ~q.crashed /\ q.inbox = p.inbox /\ q.bound = p.bound
    /\ q.proc = [p.proc EXCEPT ![e] = x] /\ q.lock = l /\ q.initializing = i

\* What hrSend() does when the receiver is there.
LEMMA HrSendFields ==
    ASSUME NEW p, HrOK(p), NEW e \in HrEpochs, NEW to \in HrEpochs, HrAlive(p.proc[to]), NEW type \in HrTypes
    PROVE  LET q == hrSend(p, e, to, type)
           IN  HrSameBut(p, q) /\ q.inbox = [p.inbox EXCEPT ![hrAddress(to)] = Append(@, [type |-> type, from |-> e])]
<1>. DEFINE m == [type |-> type, from |-> e]
<1>0. m \in HrMsg
  BY DEF HrMsg
<1>1. p.bound[hrAddress(to)] # HrNobody /\ p \in HrState /\ ~p.crashed
  BY HrEpochFacts DEF HrOK, HrNamesOK
<1>2. hrAddress(to) \in HrNames /\ p.inbox \in HrInboxes /\ p.inbox[hrAddress(to)] \in Seq(HrMsg)
  BY <1>1, HrFields, HrEpochFacts
<1>. HIDE DEF m
<1>3. [p.inbox EXCEPT ![hrAddress(to)] = Append(@, m)] \in HrInboxes
  BY <1>0, <1>2 DEF HrInboxes
<1>4. hrSend(p, e, to, type) = [p EXCEPT !.inbox = [p.inbox EXCEPT ![hrAddress(to)] = Append(@, m)]]
  BY <1>1 DEF hrSend, HrState, m
<1>. QED
  BY <1>1, <1>3, <1>4 DEF HrSameBut, HrState, m

\* A process that blocks has sent its request, and nothing is in its way.
LEMMA HrAskOK ==
    ASSUME NEW p, NEW q, HrOK(p), NEW e \in HrEpochs, e > 0, NEW phase \in HrAsking, NEW x \in HrProc,
           x = [p.proc[e] EXCEPT !.phase = phase, !.from = p.proc[e].phase, !.asked = x.asked],
           NEW l \in {p.lock, e}, p.lock \in {HrNobody, e} \/ l = p.lock,
           HrSets(p, q, e, x, l, p.initializing),
           HrAlive(p.proc[e]), p.proc[e].phase \notin HrAsking, HrStarting(x) <=> HrStarting(p.proc[e]),
           HrServed(x) <=> HrServed(p.proc[e]), HrProcOK(q, e),
           e > 1 /\ phase # "askAdmin" => p.proc[e - 1].parentGone,
           p.inbox[hrAddress(e)] = <<>>
             \/ (HrLate(x) /\ \A i \in 1..Len(p.inbox[hrAddress(e)]) : p.inbox[hrAddress(e)][i].type = "ShutdownAdminRequest"),
           p.proc[e - 1].phase \in HrAsking => HrLate(p.proc[e - 1]) /\ phase = "askAdmin"
    PROVE  HrOK(hrSend(q, e, e - 1, HrAskOf(phase)))
<1>1. p \in HrState /\ p.proc \in HrProcs /\ p.proc[e] \in HrProc
  BY HrFields DEF HrOK
<1>2. /\ x.phase = phase /\ x.parentGone = p.proc[e].parentGone /\ x.listening = p.proc[e].listening
      /\ HrAlive(x) /\ x.phase \in HrAsking
  BY <1>1 DEF HrProc, HrAlive, HrAsking
<1>3. q.proc[e] = x /\ e - 1 # e /\ e - 1 \in HrEpochs /\ (e - 1) + 1 = e /\ q.proc[e - 1] = p.proc[e - 1]
  BY <1>1, HrEpochFacts DEF HrProcs, HrSets
<1>4. HrMayChange(p, q, e, x)
  BY <1>2 DEF HrMayChange, HrSets, HrAsking
<1>5. HrOK(q)
  BY <1>4, HrChangeOK DEF HrSets
<1>6. ~x.parentGone /\ HrAlive(q.proc[e - 1])
  BY <1>2, <1>3, <1>5, HrParentThere DEF HrProcOK, HrAlive
<1>7. HrAskOf(phase) \in HrTypes /\ HrAskOf(phase) \in HrAsks
  BY DEF HrAskOf, HrTypes, HrAsks
<1>. DEFINE m == [type |-> HrAskOf(phase), from |-> e]
<1>8. m \in HrMsg /\ m.type = HrAskOf(phase) /\ m.from = e
  BY <1>7 DEF HrMsg
<1>9. HrRequestOK(q, e - 1, m)
  BY <1>2, <1>3, <1>7, <1>8 DEF HrRequestOK, HrAsks, HrAskOf
<1>10. \A i \in 1..Len(p.inbox[hrAddress(e - 1)]) : p.inbox[hrAddress(e - 1)][i].type \notin HrAsks
  <2>1. HrMailOK(p, e - 1)
    BY <1>3, <1>6 DEF HrOK
  <2>2. HrAsks \cap HrAnswers = {}
    BY DEF HrAsks, HrAnswers
  <2>. QED
    BY <1>3, <2>1, <2>2 DEF HrMailOK, HrRequestOK
<1>. HIDE DEF m
<1>11. q.inbox = p.inbox /\ ~HrHasReply(q, e)
  <2>1. q.inbox = p.inbox
    BY DEF HrSets
  <2>2. \A i : i \notin 1..Len(<<>>)
    OBVIOUS
  <2>. QED
    BY <2>1, <2>2 DEF HrHasReply, HrAnswers
<1>. DEFINE r == hrSend(q, e, e - 1, HrAskOf(phase))
<1>12. HrSameBut(q, r) /\ r.inbox = [q.inbox EXCEPT ![hrAddress(e - 1)] = Append(@, m)]
  BY <1>3, <1>5, <1>6, <1>7, HrSendFields DEF m
<1>. HIDE DEF r
<1>13. HrOK(r)
  BY <1>3, <1>5, <1>6, <1>7, <1>8, <1>9, <1>10, <1>11, <1>12, HrRequestSent DEF HrRequests
<1>. QED
  BY <1>13 DEF r

\* A process whose child has not called yet has no message.
LEMMA HrNoMail ==
    ASSUME NEW p, HrOK(p), NEW e \in HrEpochs, HrAlive(p.proc[e]), p.proc[e].phase \notin HrAsking,
           e + 1 \in HrEpochs => p.proc[e + 1].phase \in {"none", "new"}
    PROVE  p.inbox[hrAddress(e)] = <<>>
<1>. DEFINE mail == p.inbox[hrAddress(e)]
<1>1. mail \in Seq(HrMsg) /\ HrMailOK(p, e)
  BY HrBoxTyped DEF HrOK
<1>2. ASSUME NEW i \in 1..Len(mail) PROVE FALSE
  <2>1. mail[i].type \notin HrAnswers
    BY <1>1, <1>2 DEF HrMailOK, HrReplyOK
  <2>2. HrRequestOK(p, e, mail[i]) /\ mail[i] \in HrMsg
    BY <1>1, <1>2, <2>1 DEF HrMailOK
  <2>3. ~p.proc[e + 1].parentGone /\ e + 1 \in HrEpochs
    BY <2>2 DEF HrOK, HrProcOK, HrRequestOK
  <2>. QED
    BY <2>1, <2>2, <2>3 DEF HrMsg, HrTypes, HrRequestOK, HrAsking, HrServed
<1>3. mail = <<>> \/ Len(mail) \in Nat \ {0}
  BY <1>1, EmptySeq
<1>. QED
  BY <1>2, <1>3

\* A process that starts is the last one, and has no message unless it asks.
LEMMA HrStartingAlone ==
    ASSUME NEW p, HrOK(p), NEW e \in HrEpochs, HrStarting(p.proc[e])
    PROVE  /\ HrAlive(p.proc[e]) /\ p.initializing /\ ~p.proc[e].parentGone
           /\ e + 1 \in HrEpochs => p.proc[e + 1].phase = "none"
           /\ p.proc[e].phase \notin HrAsking => p.inbox[hrAddress(e)] = <<>>
<1>1. HrAlive(p.proc[e]) /\ p.initializing /\ ~p.proc[e].parentGone
  BY DEF HrOK, HrOneStarts, HrStarting, HrAlive, HrProcOK
<1>2. e + 1 \in HrEpochs => p.proc[e + 1].phase = "none"
  BY HrOrder DEF HrOK, HrOneStarts
<1>. QED
  BY <1>1, <1>2, HrNoMail

\* The parent of a process that is past its first call asks nobody.
LEMMA HrParentCalm ==
    ASSUME NEW p, HrOK(p), NEW e \in HrEpochs, e > 0, p.proc[e].phase \notin {"none", "new", "askAdmin"}
    PROVE  /\ e - 1 \in HrEpochs /\ p.proc[e - 1].phase \notin HrAsking
           /\ e > 1 => p.proc[e - 1].parentGone
<1>1. e - 1 \in HrEpochs /\ (e - 1) + 1 = e /\ (e > 1 <=> e - 1 > 0)
  BY HrEpochFacts DEF HrEpochs
<1>2. HrPairOK(p, e - 1) /\ HrProcOK(p, e - 1)
  BY <1>1 DEF HrOK
<1>3. e - 1 > 0 => p.proc[e - 1].parentGone
  BY <1>1, <1>2 DEF HrPairOK
<1>. QED
  BY <1>1, <1>2, <1>3 DEF HrProcOK

\* HrOK holds at first.
LEMMA HrInitOK == HrInit => HrOK(hr)
<1>. SUFFICES ASSUME HrInit PROVE HrOK(hr)
  OBVIOUS
<1>1. HrNew \in HrProc /\ HrNew.phase = "none" /\ ~HrServed(HrNew) /\ ~HrAlive(HrNew) /\ ~HrStarting(HrNew)
      /\ HrNew.phase \notin HrAsking /\ ~HrNew.parentGone
  BY DEF HrNew, HrProc, HrPhases, HrServed, HrAlive, HrStarting, HrAsking
<1>2. \A e \in HrEpochs : hr.proc[e] = HrNew
  BY DEF HrInit
<1>3. \A a \in HrNames : hr.bound[a] = HrNobody /\ hr.inbox[a] = <<>>
  BY DEF HrInit, HrNames
<1>4. hr \in HrState
  <2>1. <<>> \in Seq(HrMsg)
    OBVIOUS
  <2>. QED
    BY <1>1, <2>1 DEF HrInit, HrState, HrBounds, HrInboxes, HrProcs, HrNames
<1>5. /\ \A e \in HrEpochs : HrProcOK(hr, e)
      /\ \A e \in HrEpochs : e + 1 \in HrEpochs => HrPairOK(hr, e)
      /\ hr.proc[HrMaxEpoch].phase \notin {"exiting", "exited"}
  BY <1>1, <1>2, HrEpochFacts DEF HrProcOK, HrPairOK
<1>6. HrInOrder(hr) /\ HrOneStarts(hr) /\ HrListens(hr) /\ HrNamesOK(hr)
  BY <1>1, <1>2, <1>3, HrEpochFacts DEF HrInOrder, HrOneStarts, HrListens, HrNamesOK
<1>7. ~hr.crashed
  BY DEF HrInit
<1>. QED
  BY <1>1, <1>2, <1>4, <1>5, <1>6, <1>7 DEF HrOK

\* One lemma per action: loading the configuration.
LEMMA HrConfiguredOK ==
    ASSUME HrOK(hr), NEW e \in HrEpochs, HrConfigured(e)
    PROVE  HrOK(hr')
<1>. DEFINE o == hr.proc[e]
<1>1. hr \in HrState /\ hr.proc \in HrProcs /\ o \in HrProc /\ HrProcOK(hr, e)
  BY HrFields DEF HrOK
<1>2. PICK x : x = [o EXCEPT !.phase = "loop"]
  OBVIOUS
<1>3. /\ x \in HrProc /\ x.phase = "loop" /\ x.parentGone = o.parentGone /\ x.listening = o.listening
      /\ o.phase = "config"
  BY <1>1, <1>2 DEF HrProc, HrPhases, HrConfigured
<1>4. HrSets(hr, hr', e, x, hr.lock, hr.initializing)
  BY <1>1, <1>2, <1>3 DEF HrConfigured, hrPhase, HrSets, HrState, HrOK, HrProcs
<1>5. HrAlive(o) /\ HrAlive(x) /\ HrStarting(o) /\ ~HrServed(x) /\ ~HrServed(o) /\ o.phase \notin HrAsking /\ x.phase \notin HrAsking
  BY <1>3 DEF HrAlive, HrStarting, HrServed, HrAsking
<1>6. hr'.proc[e] = x
  BY <1>1, <1>4 DEF HrSets, HrProcs
<1>7. HrProcOK(hr', e)
  BY <1>1, <1>3, <1>5, <1>6 DEF HrProcOK
<1>8. e > 1 => hr.proc[e - 1].parentGone
  BY <1>3, HrParentCalm, HrEpochFacts DEF HrEpochs
<1>9. HrMayChange(hr, hr', e, x)
  BY <1>3, <1>4, <1>5, <1>7, <1>8 DEF HrMayChange, HrSets
<1>. QED
  BY <1>3, <1>4, <1>9, HrChangeOK DEF HrSets

\* terminateParent(): HrOK is kept, and only the parent's socket changes.
LEMMA HrTerminateOK ==
    ASSUME NEW p, HrOK(p), NEW e \in HrEpochs, p.proc[e].phase \in {"serving", "exiting"}
    PROVE  LET q == hrTerminateParent(p, e)
           IN  /\ HrOK(q) /\ (e > 0 => q.proc[e].parentGone) /\ q.bound = p.bound
               /\ q.proc[e].phase = p.proc[e].phase
               /\ \A f \in HrEpochs : f # e => q.proc[f] = p.proc[f]
               /\ \A f \in HrEpochs : HrAlive(p.proc[f]) /\ (f = e \/ f = e + 1) => q.inbox[hrAddress(f)] = p.inbox[hrAddress(f)]
<1>. DEFINE q == hrTerminateParent(p, e)
            o == p.proc[e]
<1>1. CASE e = 0 \/ o.parentGone
  <2>1. q = p
    BY <1>1 DEF hrTerminateParent
  <2>2. e > 0 => o.parentGone
    BY <1>1
  <2>. QED
    BY <2>1, <2>2
<1>2. CASE ~(e = 0 \/ o.parentGone)
  <2>0. e > 0 /\ ~o.parentGone
    BY <1>2, HrEpochFacts
  <2>1. p \in HrState /\ p.proc \in HrProcs /\ o \in HrProc /\ HrProcOK(p, e)
    BY HrFields DEF HrOK
  <2>2. PICK x : x = [o EXCEPT !.parentGone = TRUE]
    OBVIOUS
  <2>3. x \in HrProc /\ x.phase = o.phase /\ x.parentGone /\ x.listening = o.listening /\ x.from = o.from
    BY <2>1, <2>2 DEF HrProc
  <2>4. PICK r : r = [p EXCEPT !.proc[e].parentGone = TRUE]
    OBVIOUS
  <2>5. HrSets(p, r, e, x, p.lock, p.initializing)
    BY <2>1, <2>2, <2>3, <2>4 DEF HrSets, HrState, HrOK, HrProcs
  <2>6. r.proc[e] = x /\ \A f \in HrEpochs : f # e => r.proc[f] = p.proc[f]
    BY <2>1, <2>5 DEF HrSets, HrProcs
  <2>7. HrProcOK(r, e)
    BY <2>1, <2>3, <2>6 DEF HrProcOK, HrAsking
  <2>8. HrAlive(o) /\ HrAlive(x) /\ ~HrStarting(x) /\ HrServed(x) /\ HrServed(o)
    BY <2>3 DEF HrAlive, HrStarting, HrServed
  <2>9. e > 1 => p.proc[e - 1].parentGone
    BY <2>0, HrParentCalm
  <2>10. x.phase = "exiting" => e # HrMaxEpoch /\ p.proc[e + 1].parentGone
    BY <2>3, HrEpochFacts DEF HrOK, HrPairOK
  <2>11. HrMayChange(p, r, e, x)
    BY <2>3, <2>5, <2>7, <2>8, <2>9, <2>10 DEF HrMayChange, HrSets
  <2>12. HrOK(r)
    BY <2>3, <2>5, <2>11, HrChangeOK DEF HrSets
  <2>13. e - 1 \in HrEpochs /\ (e - 1) + 1 = e /\ e - 1 # e /\ e - 1 # e + 1
    BY <2>0, HrEpochFacts DEF HrEpochs
  <2>14. HrAlive(r.proc[e - 1]) /\ r.proc[e - 1].phase \notin HrAsking
    BY <2>0, <2>6, <2>13, HrParentThere, HrParentCalm
  <2>. DEFINE m == [type |-> "TerminateRequest", from |-> e]
  <2>15. m \in HrMsg /\ m.type = "TerminateRequest" /\ m.from = e /\ m.type \in HrRequests /\ m.type \notin HrAsks
    BY DEF HrMsg, HrTypes, HrAsks, HrRequests
  <2>16. HrRequestOK(r, e - 1, m)
    BY <2>3, <2>6, <2>13, <2>14, <2>15 DEF HrRequestOK
  <2>17. q = hrSend(r, e, e - 1, "TerminateRequest")
    BY <1>2, <2>4 DEF hrTerminateParent
  <2>. HIDE DEF q
  <2>18. HrSameBut(r, q) /\ q.inbox = [r.inbox EXCEPT ![hrAddress(e - 1)] = Append(@, m)]
    BY <2>12, <2>13, <2>14, <2>17, HrSendFields DEF HrTypes
  <2>. HIDE DEF m
  <2>19. HrOK(q)
    BY <2>12, <2>13, <2>14, <2>15, <2>16, <2>18, HrRequestSent
  <2>20. q.proc = r.proc /\ q.bound = p.bound
    BY <2>5, <2>18 DEF HrSameBut, HrSets
  <2>21. ASSUME NEW f \in HrEpochs, HrAlive(p.proc[f]), f = e \/ f = e + 1 PROVE q.inbox[hrAddress(f)] = p.inbox[hrAddress(f)]
    <3>1. f # e - 1 /\ HrAlive(r.proc[f])
      BY <2>6, <2>8, <2>13, <2>21
    <3>2. hrAddress(f) # hrAddress(e - 1) /\ hrAddress(f) \in HrNames
      BY <2>12, <2>13, <2>14, <3>1, HrOwnNames, HrEpochFacts
    <3>3. r.inbox \in HrInboxes /\ r.inbox = p.inbox
      BY <2>5, HrFields DEF HrSets
    <3>. QED
      BY <2>18, <3>2, <3>3 DEF HrInboxes
  <2>22. q.proc[e].parentGone /\ q.proc[e].phase = o.phase
    BY <2>3, <2>6, <2>20
  <2>. QED
    BY <2>6, <2>19, <2>20, <2>21, <2>22 DEF q
<1>. QED
  BY <1>1, <1>2

\* The timer of startParentShutdownSequence().
LEMMA HrParentShutdownOK ==
    ASSUME HrOK(hr), NEW e \in HrEpochs, HrParentShutdown(e)
    PROVE  HrOK(hr')
  BY HrTerminateOK DEF HrParentShutdown

\* The process exits.
LEMMA HrExitOK ==
    ASSUME HrOK(hr), NEW e \in HrEpochs, HrExit(e)
    PROVE  HrOK(hr')
<1>1. PICK p : p = hrTerminateParent(hr, e)
  OBVIOUS
<1>2. HrOK(p) /\ p.proc[e].phase = "exiting" /\ hr' = hrGone(p, e, "exited")
  BY <1>1, HrTerminateOK DEF HrExit
<1>3. /\ p \in HrState /\ p.proc \in HrProcs /\ p.proc[e] \in HrProc /\ ~p.crashed
      /\ p.inbox \in HrInboxes /\ p.bound \in HrBounds /\ hrAddress(e) \in HrNames
  BY <1>2, HrFields, HrEpochFacts DEF HrOK
<1>4. PICK x : x = [p.proc[e] EXCEPT !.phase = "exited", !.listening = FALSE]
  OBVIOUS
<1>5. x \in HrProc /\ x.phase = "exited" /\ x.parentGone = p.proc[e].parentGone
  BY <1>3, <1>4 DEF HrProc, HrPhases
<1>6. /\ [p.proc EXCEPT ![e] = x] \in HrProcs
      /\ [p.bound EXCEPT ![hrAddress(e)] = HrNobody] \in HrBounds
      /\ [p.inbox EXCEPT ![hrAddress(e)] = <<>>] \in HrInboxes
  BY <1>3, <1>5 DEF HrProcs, HrBounds, HrInboxes
<1>7. hr' = [p EXCEPT !.proc = [p.proc EXCEPT ![e] = x], !.bound = [p.bound EXCEPT ![hrAddress(e)] = HrNobody],
                      !.inbox = [p.inbox EXCEPT ![hrAddress(e)] = <<>>]]
  BY <1>2, <1>3, <1>4 DEF hrGone, hrPhase, HrState, HrProcs, HrProc
<1>8. /\ hr' \in HrState /\ ~hr'.crashed /\ hr'.initializing = p.initializing /\ hr'.lock = p.lock
      /\ hr'.proc = [p.proc EXCEPT ![e] = x] /\ hr'.bound = [p.bound EXCEPT ![hrAddress(e)] = HrNobody]
      /\ hr'.inbox = [p.inbox EXCEPT ![hrAddress(e)] = <<>>]
  BY <1>3, <1>6, <1>7 DEF HrState
<1>9. PICK q : q = hr'
  OBVIOUS
<1>10. HrOK(q)
  BY <1>2, <1>5, <1>8, <1>9, HrGoneOK
<1>. QED
  BY <1>9, <1>10

\* The next process starts, or finds its name taken.
LEMMA HrStartOK ==
    ASSUME HrOK(hr), NEW e \in HrEpochs, HrStart(e)
    PROVE  HrOK(hr')
<1>0. PICK q : q = hr'
  OBVIOUS
<1>1. /\ hr \in HrState /\ hr.proc \in HrProcs /\ hr.proc[e] \in HrProc /\ ~hr.crashed /\ hr.bound \in HrBounds
      /\ hr.inbox \in HrInboxes /\ hrAddress(e) \in HrNames
  BY HrFields, HrEpochFacts DEF HrOK
<1>2. \A f \in HrEpochs : ~HrStarting(hr.proc[f])
  BY DEF HrStart, HrOK, HrOneStarts
<1>3. CASE hr.bound[hrAddress(e)] # HrNobody
  <2>1. q = [hr EXCEPT !.initializing = TRUE]
    BY <1>0, <1>3 DEF HrStart
  <2>2. /\ q \in HrState /\ ~q.crashed /\ q.initializing /\ q.lock = hr.lock /\ q.proc = hr.proc
        /\ q.bound = hr.bound /\ q.inbox = hr.inbox
    BY <1>1, <2>1 DEF HrState
  <2>3. /\ \A f \in HrEpochs : HrProcOK(q, f)
        /\ \A f \in HrEpochs : f + 1 \in HrEpochs => HrPairOK(q, f)
        /\ q.proc[HrMaxEpoch].phase \notin {"exiting", "exited"}
    BY <2>2 DEF HrOK, HrProcOK, HrPairOK
  <2>4. HrInOrder(q) /\ HrListens(q) /\ HrNamesOK(q)
    BY <2>2 DEF HrOK, HrInOrder, HrListens, HrNamesOK
  <2>5. HrOneStarts(q)
    BY <1>2, <2>2 DEF HrOneStarts
  <2>6. \A f \in HrEpochs : HrAlive(q.proc[f]) => HrMailOK(q, f)
    BY <2>2 DEF HrOK, HrMailOK, HrReplyOK, HrRequestOK
  <2>7. HrOK(q)
    BY <2>2, <2>3, <2>4, <2>5, <2>6 DEF HrOK
  <2>. QED
    BY <1>0, <2>7
<1>4. CASE hr.bound[hrAddress(e)] = HrNobody
  <2>1. hr.proc[e] = HrNew
    BY DEF HrStart, HrOK, HrProcOK
  <2>2. PICK x : x = [HrNew EXCEPT !.phase = "new"]
    OBVIOUS
  <2>3. x \in HrProc /\ x.phase = "new" /\ HrAlive(x)
    BY <2>2 DEF HrNew, HrProc, HrPhases, HrAlive
  <2>4. [hr.proc EXCEPT ![e] = x] \in HrProcs /\ [hr.bound EXCEPT ![hrAddress(e)] = e] \in HrBounds
    BY <1>1, <2>3 DEF HrProcs, HrBounds
  <2>5. q = [hr EXCEPT !.initializing = TRUE, !.proc = [hr.proc EXCEPT ![e] = x], !.bound = [hr.bound EXCEPT ![hrAddress(e)] = e]]
    BY <1>0, <1>1, <1>4, <2>1, <2>2 DEF HrStart, hrPhase, HrState, HrProcs
  <2>6. /\ q \in HrState /\ ~q.crashed /\ q.initializing /\ q.lock = hr.lock /\ q.proc = [hr.proc EXCEPT ![e] = x]
        /\ q.bound = [hr.bound EXCEPT ![hrAddress(e)] = e] /\ q.inbox = hr.inbox
    BY <1>1, <2>4, <2>5 DEF HrState
  <2>7. q.bound[hrAddress(e)] = e /\ \A a \in HrNames : a # hrAddress(e) => q.bound[a] = hr.bound[a] /\ q.inbox[a] = hr.inbox[a]
    BY <1>1, <2>6 DEF HrBounds
  <2>8. q.inbox[hrAddress(e)] = <<>>
    BY <1>1, <1>4, <2>6 DEF HrOK, HrNamesOK
  <2>9. \A f \in HrEpochs : f > e => hr.proc[f].phase = "none"
    BY DEF HrStart, HrOK, HrInOrder
  <2>10. hr.proc[e].phase = "none" /\ (e > 0 => hr.proc[e - 1].phase # "none")
    BY DEF HrStart
  <2>11. HrOK(q)
    <3>1. (HrAlive(x) => q.bound[hrAddress(e)] = e) /\ (~HrAlive(x) => q.bound[hrAddress(e)] = HrNobody)
      BY <2>3, <2>7
    <3>2. x \in {HrNew, [HrNew EXCEPT !.phase = "new"]}
      BY <2>2
    <3>3. q.bound \in HrBounds /\ hr.bound[hrAddress(e)] \in {HrNobody, e} /\ hr.proc[e].phase \in {"none", "config"}
      BY <1>4, <2>4, <2>6, <2>10
    <3>4. \A f \in HrEpochs : f # e => ~HrStarting(hr.proc[f])
      BY <1>2
    <3>5. HrMayCome(hr, q, e, x)
      BY <2>6, <2>7, <2>8, <2>9, <2>10, <3>1, <3>2, <3>3, <3>4 DEF HrMayCome
    <3>. QED
      BY <2>3, <2>6, <3>5, HrComesOrGoes
  <2>. QED
    BY <1>0, <2>11
<1>. QED
  BY <1>3, <1>4

\* The configuration is bad.
LEMMA HrConfigFailsOK ==
    ASSUME HrOK(hr), NEW e \in HrEpochs, HrConfigFails(e)
    PROVE  HrOK(hr')
<1>0. PICK q : q = hr'
  OBVIOUS
<1>1. /\ hr \in HrState /\ hr.proc \in HrProcs /\ hr.proc[e] \in HrProc /\ ~hr.crashed /\ hr.bound \in HrBounds
      /\ hr.inbox \in HrInboxes /\ hrAddress(e) \in HrNames
  BY HrFields, HrEpochFacts DEF HrOK
<1>2. hr.proc[e].phase = "config"
  BY DEF HrConfigFails
<1>3. HrStarting(hr.proc[e]) /\ HrAlive(hr.proc[e])
  BY <1>2 DEF HrStarting, HrAlive
<1>4. hr.initializing /\ \A f \in HrEpochs : f > e => hr.proc[f].phase = "none"
  BY <1>3 DEF HrOK, HrOneStarts
<1>5. \A f \in HrEpochs : f # e => ~HrStarting(hr.proc[f])
  <2>. SUFFICES ASSUME NEW f \in HrEpochs, f # e, HrStarting(hr.proc[f]) PROVE FALSE
    OBVIOUS
  <2>1. CASE e > f
    BY <1>2, <2>1 DEF HrOK, HrOneStarts
  <2>2. CASE f > e
    BY <1>4, <2>2 DEF HrStarting
  <2>. QED
    BY <2>1, <2>2, HrOrder
<1>6. e > 0 => hr.proc[e - 1].phase # "none"
  <2>. SUFFICES ASSUME e > 0 PROVE hr.proc[e - 1].phase # "none"
    OBVIOUS
  <2>1. e - 1 \in HrEpochs /\ e > e - 1
    BY HrEpochFacts DEF HrEpochs
  <2>. QED
    BY <1>2, <2>1 DEF HrOK, HrInOrder
<1>7. HrNew \in HrProc /\ HrNew.phase = "none" /\ ~HrAlive(HrNew)
  BY DEF HrNew, HrProc, HrPhases, HrAlive
<1>8. /\ [hr.proc EXCEPT ![e] = HrNew] \in HrProcs
      /\ [hr.bound EXCEPT ![hrAddress(e)] = HrNobody] \in HrBounds
      /\ [hr.inbox EXCEPT ![hrAddress(e)] = <<>>] \in HrInboxes
  BY <1>1, <1>7 DEF HrProcs, HrBounds, HrInboxes
<1>9. q = [hr EXCEPT !.proc = [hr.proc EXCEPT ![e] = HrNew], !.bound = [hr.bound EXCEPT ![hrAddress(e)] = HrNobody],
                     !.inbox = [hr.inbox EXCEPT ![hrAddress(e)] = <<>>]]
  BY <1>0, <1>1 DEF HrConfigFails, hrGone, hrPhase, HrState, HrProcs
<1>10. /\ q \in HrState /\ ~q.crashed /\ q.lock = hr.lock
       /\ q.proc = [hr.proc EXCEPT ![e] = HrNew] /\ q.bound = [hr.bound EXCEPT ![hrAddress(e)] = HrNobody]
       /\ q.inbox = [hr.inbox EXCEPT ![hrAddress(e)] = <<>>]
  BY <1>1, <1>8, <1>9 DEF HrState
<1>11. /\ q.bound[hrAddress(e)] = HrNobody /\ q.inbox[hrAddress(e)] = <<>>
       /\ \A a \in HrNames : a # hrAddress(e) => q.bound[a] = hr.bound[a] /\ q.inbox[a] = hr.inbox[a]
  BY <1>1, <1>10 DEF HrBounds, HrInboxes
<1>12. (HrAlive(HrNew) => q.bound[hrAddress(e)] = e) /\ (~HrAlive(HrNew) => q.bound[hrAddress(e)] = HrNobody)
  BY <1>7, <1>11
<1>13. q.initializing
  BY <1>1, <1>4, <1>9 DEF HrState
<1>14. q.bound \in HrBounds /\ hr.bound[hrAddress(e)] \in {HrNobody, e} /\ hr.proc[e].phase \in {"none", "config"}
  BY <1>2, <1>3, <1>8, <1>10 DEF HrOK, HrNamesOK
<1>15. HrMayCome(hr, q, e, HrNew)
  BY <1>2, <1>4, <1>5, <1>6, <1>10, <1>11, <1>12, <1>13, <1>14 DEF HrMayCome
<1>16. HrOK(q)
  BY <1>7, <1>10, <1>15, HrComesOrGoes
<1>. QED
  BY <1>0, <1>16

\* The state between the two halves of a blocking call.
LEMMA HrAskSets ==
    ASSUME NEW p, p \in HrState, ~p.crashed, NEW e \in HrEpochs, NEW phase \in HrAsking, NEW l \in HrEpochs \cup {HrNobody},
           NEW asked \in BOOLEAN
    PROVE  LET x == [p.proc[e] EXCEPT !.phase = phase, !.from = p.proc[e].phase, !.asked = asked]
               q == [p EXCEPT !.proc = [p.proc EXCEPT ![e] = x], !.lock = l]
           IN  x \in HrProc /\ HrSets(p, q, e, x, l, p.initializing)
<1>. DEFINE x == [p.proc[e] EXCEPT !.phase = phase, !.from = p.proc[e].phase, !.asked = asked]
<1>1. p.proc \in HrProcs /\ p.proc[e] \in HrProc
  BY HrFields
<1>2. x \in HrProc
  BY <1>1 DEF HrProc, HrPhases, HrAsking
<1>. HIDE DEF x
<1>3. [p.proc EXCEPT ![e] = x] \in HrProcs
  BY <1>1, <1>2 DEF HrProcs
<1>4. HrSets(p, [p EXCEPT !.proc = [p.proc EXCEPT ![e] = x], !.lock = l], e, x, l, p.initializing)
  BY <1>3 DEF HrSets, HrState
<1>. QED
  BY <1>2, <1>4 DEF x

\* shutdownParentAdmin()
LEMMA HrShutdownParentAdminOK ==
    ASSUME HrOK(hr), NEW e \in HrEpochs, HrShutdownParentAdmin(e)
    PROVE  HrOK(hr')
<1>. DEFINE o == hr.proc[e]
<1>1. hr \in HrState /\ hr.proc \in HrProcs /\ o \in HrProc /\ HrProcOK(hr, e) /\ ~hr.crashed
  BY HrFields DEF HrOK
<1>2. o.phase = "new" /\ hr.lock = HrNobody
  BY DEF HrShutdownParentAdmin
<1>3. HrStarting(o) /\ HrAlive(o) /\ ~HrServed(o) /\ o.phase \notin HrAsking
  BY <1>2 DEF HrStarting, HrAlive, HrServed, HrAsking
<1>4. hr.inbox[hrAddress(e)] = <<>> /\ ~o.parentGone
  BY <1>3, HrStartingAlone
<1>5. CASE e = 0
  <2>1. PICK x : x = [o EXCEPT !.phase = "config"]
    OBVIOUS
  <2>2. x \in HrProc /\ x.phase = "config" /\ x.parentGone = o.parentGone /\ x.listening = o.listening
    BY <1>1, <2>1 DEF HrProc, HrPhases
  <2>3. HrSets(hr, hr', e, x, hr.lock, hr.initializing)
    BY <1>1, <1>5, <2>1, <2>2 DEF HrShutdownParentAdmin, hrPhase, HrSets, HrState, HrProcs
  <2>4. hr'.proc[e] = x
    BY <1>1, <2>3 DEF HrSets, HrProcs
  <2>5. HrAlive(x) /\ HrStarting(x) /\ ~HrServed(x) /\ x.phase \notin HrAsking
    BY <2>2 DEF HrAlive, HrStarting, HrServed, HrAsking
  <2>6. HrProcOK(hr', e)
    BY <1>4, <2>2, <2>4, <2>5 DEF HrProcOK
  <2>7. HrMayChange(hr, hr', e, x)
    BY <1>3, <1>5, <2>2, <2>3, <2>5, <2>6 DEF HrMayChange, HrSets
  <2>. QED
    BY <2>2, <2>3, <2>7, HrChangeOK DEF HrSets
<1>6. CASE e # 0
  <2>1. e > 0 /\ e - 1 \in HrEpochs /\ (e - 1) + 1 = e
    BY <1>6, HrEpochFacts
  <2>2. PICK x : x = [o EXCEPT !.phase = "askAdmin", !.from = o.phase, !.asked = o.asked]
    OBVIOUS
  <2>3. PICK q : q = [hr EXCEPT !.proc = [hr.proc EXCEPT ![e] = x], !.lock = e]
    OBVIOUS
  <2>4. x \in HrProc /\ HrSets(hr, q, e, x, e, hr.initializing)
    <3>1. "askAdmin" \in HrAsking /\ o.asked \in BOOLEAN
      BY <1>1 DEF HrAsking, HrProc
    <3>. QED
      BY <1>1, <2>2, <2>3, <3>1, HrAskSets
  <2>5. x.phase = "askAdmin" /\ x.parentGone = o.parentGone /\ x.asked = o.asked
    BY <1>1, <2>2 DEF HrProc
  <2>6. hr' = hrSend(q, e, e - 1, "ShutdownAdminRequest")
    <3>1. q = [hrPhase([hr EXCEPT !.lock = e], e, "askAdmin") EXCEPT !.proc[e].from = hr.proc[e].phase]
      BY <1>1, <2>2, <2>3 DEF hrPhase, HrState, HrProcs, HrProc
    <3>2. [hr EXCEPT !.lock = e].proc[e].phase = hr.proc[e].phase
      BY <1>1 DEF HrState
    <3>. QED
      BY <1>6, <3>1, <3>2 DEF HrShutdownParentAdmin, hrAsk
  <2>7. HrStarting(x) /\ ~HrServed(x)
    BY <2>5 DEF HrStarting, HrServed
  <2>8. HrProcOK(q, e)
    <3>1. q.proc[e] = x /\ q.lock = e
      BY <1>1, <2>4 DEF HrSets, HrProcs
    <3>. QED
      BY <1>4, <2>1, <2>5, <3>1 DEF HrProcOK
  <2>9. hr.proc[e - 1].phase \in HrAsking => HrLate(hr.proc[e - 1])
    <3>1. e - 1 # HrNobody /\ e > e - 1
      BY <2>1, HrEpochFacts DEF HrEpochs
    <3>2. hr.proc[e - 1].phase \notin {"askAdmin", "askStats"}
      BY <1>2, <2>1, <3>1 DEF HrOK, HrProcOK
    <3>3. hr.proc[e - 1].phase = "askSocket" => HrLate(hr.proc[e - 1])
      BY <1>2, <2>1, <3>1 DEF HrOK, HrOneStarts, HrStarting, HrProcOK, HrLate
    <3>. QED
      BY <3>2, <3>3 DEF HrAsking
  <2>10. HrAskOf("askAdmin") = "ShutdownAdminRequest" /\ "askAdmin" \in HrAsking
    BY DEF HrAskOf, HrAsking
  <2>11. x = [hr.proc[e] EXCEPT !.phase = "askAdmin", !.from = hr.proc[e].phase, !.asked = x.asked]
    BY <2>2, <2>5
  <2>12. HrOK(hrSend(q, e, e - 1, HrAskOf("askAdmin")))
    BY <1>2, <1>3, <1>4, <2>1, <2>4, <2>7, <2>8, <2>9, <2>10, <2>11, HrAskOK
  <2>. QED
    BY <2>6, <2>10, <2>12
<1>. QED
  BY <1>5, <1>6

\* While its parent is there, a process has at most the first request of a child.
LEMMA HrFirstRequest ==
    ASSUME NEW p, HrOK(p), NEW e \in HrEpochs, e > 0, p.proc[e].phase = "serving", ~p.proc[e].parentGone
    PROVE  \A i \in 1..Len(p.inbox[hrAddress(e)]) : p.inbox[hrAddress(e)][i].type = "ShutdownAdminRequest"
<1>. DEFINE mail == p.inbox[hrAddress(e)]
<1>1. mail \in Seq(HrMsg) /\ HrMailOK(p, e)
  BY HrBoxTyped DEF HrOK, HrAlive
<1>. SUFFICES ASSUME NEW i \in 1..Len(mail) PROVE mail[i].type = "ShutdownAdminRequest"
  OBVIOUS
<1>2. mail[i].type \notin HrAnswers
  BY <1>1 DEF HrMailOK, HrReplyOK, HrAsking
<1>3. HrRequestOK(p, e, mail[i]) /\ mail[i] \in HrMsg
  BY <1>1, <1>2 DEF HrMailOK
<1>4. p.proc[e + 1].phase \in {"none", "new", "askAdmin"} /\ ~p.proc[e + 1].parentGone
  BY <1>3 DEF HrRequestOK, HrOK, HrPairOK, HrProcOK
<1>. QED
  BY <1>2, <1>3, <1>4 DEF HrMsg, HrTypes, HrRequestOK, HrAsks, HrAsking, HrAskOf, HrServed

\* duplicateParentListenSocket(): the parent does not ask, whenever it is called.
LEMMA HrDuplicateSocketOK ==
    ASSUME HrOK(hr), NEW e \in HrEpochs, HrDuplicateSocket(e), ~hr.crashed
    PROVE  HrOK(hr')
<1>. DEFINE o == hr.proc[e]
<1>1. hr \in HrState /\ hr.proc \in HrProcs /\ o \in HrProc /\ HrProcOK(hr, e) /\ ~hr.crashed /\ hr.lock \in HrEpochs \cup {HrNobody}
  BY HrFields DEF HrOK
<1>2. o.phase \in {"config", "serving"} /\ e > 0 /\ ~o.parentGone
  BY DEF HrDuplicateSocket
<1>3. HrAlive(o) /\ o.phase \notin HrAsking
  BY <1>2 DEF HrAlive, HrAsking
<1>4. o.phase = "config" => hr.inbox[hrAddress(e)] = <<>>
  BY <1>3, HrStartingAlone DEF HrStarting
<1>5. PICK x : x = [o EXCEPT !.phase = "askSocket", !.from = o.phase, !.asked = TRUE]
  OBVIOUS
<1>6. PICK q : q = [hr EXCEPT !.proc = [hr.proc EXCEPT ![e] = x], !.lock = hr.lock]
  OBVIOUS
<1>7. x \in HrProc /\ HrSets(hr, q, e, x, hr.lock, hr.initializing)
  <2>1. "askSocket" \in HrAsking /\ TRUE \in BOOLEAN
    BY DEF HrAsking
  <2>. QED
    BY <1>1, <1>5, <1>6, <2>1, HrAskSets
<1>8. x.phase = "askSocket" /\ x.from = o.phase /\ ~x.parentGone
  BY <1>1, <1>2, <1>5 DEF HrProc
<1>9. hr' = hrSend(q, e, e - 1, "GetListenSocketRequest")
  <2>1. q = [hrPhase([hr EXCEPT !.proc[e].asked = TRUE], e, "askSocket") EXCEPT !.proc[e].from = hr.proc[e].phase]
    BY <1>1, <1>5, <1>6 DEF hrPhase, HrState, HrProcs, HrProc
  <2>2. [hr EXCEPT !.proc[e].asked = TRUE].proc[e].phase = hr.proc[e].phase
    BY <1>1 DEF HrState, HrProcs, HrProc
  <2>. QED
    BY <2>1, <2>2 DEF HrDuplicateSocket, hrAsk
<1>10. (HrStarting(x) <=> HrStarting(o)) /\ (HrServed(x) <=> HrServed(o))
  BY <1>2, <1>8 DEF HrStarting, HrServed
<1>16. \/ hr.inbox[hrAddress(e)] = <<>>
       \/ HrLate(x) /\ \A i \in 1..Len(hr.inbox[hrAddress(e)]) : hr.inbox[hrAddress(e)][i].type = "ShutdownAdminRequest"
  BY <1>2, <1>4, <1>8, HrFirstRequest DEF HrLate
<1>11. HrProcOK(q, e)
  <2>1. q.proc[e] = x
    BY <1>1, <1>7 DEF HrSets, HrProcs
  <2>. QED
    BY <1>2, <1>8, <2>1 DEF HrProcOK
<1>12. hr.proc[e - 1].phase \notin HrAsking /\ (e > 1 => hr.proc[e - 1].parentGone)
  BY <1>2, HrParentCalm
<1>13. HrAskOf("askSocket") = "GetListenSocketRequest" /\ "askSocket" \in HrAsking
  BY DEF HrAskOf, HrAsking
<1>14. x = [hr.proc[e] EXCEPT !.phase = "askSocket", !.from = hr.proc[e].phase, !.asked = x.asked]
  BY <1>1, <1>5 DEF HrProc
<1>15. HrOK(hrSend(q, e, e - 1, HrAskOf("askSocket")))
  BY <1>2, <1>3, <1>16, <1>7, <1>10, <1>11, <1>12, <1>13, <1>14, HrAskOK
<1>. QED
  BY <1>9, <1>13, <1>15

\* flushStats(), getParentStats()
LEMMA HrFlushStatsOK ==
    ASSUME HrOK(hr), NEW e \in HrEpochs, HrFlushStats(e)
    PROVE  HrOK(hr')
<1>. DEFINE o == hr.proc[e]
<1>1. hr \in HrState /\ hr.proc \in HrProcs /\ o \in HrProc /\ HrProcOK(hr, e) /\ ~hr.crashed
  BY HrFields DEF HrOK
<1>2. o.phase \in {"loop", "serving"} /\ e > 0 /\ ~o.parentGone /\ hr.lock = HrNobody
  BY DEF HrFlushStats
<1>3. HrAlive(o) /\ o.phase \notin HrAsking
  BY <1>2 DEF HrAlive, HrAsking
<1>4. hr.inbox[hrAddress(e)] = <<>>
  <2>1. ASSUME e + 1 \in HrEpochs PROVE hr.proc[e + 1].phase \in {"none", "new"}
    <3>1. hr.proc[e + 1].phase \in {"none", "new", "askAdmin"}
      BY <1>2, <2>1 DEF HrOK, HrPairOK
    <3>2. e + 1 # HrNobody
      BY <2>1, HrEpochFacts
    <3>3. hr.proc[e + 1].phase # "askAdmin"
      BY <1>2, <2>1, <3>2 DEF HrOK, HrProcOK
    <3>. QED
      BY <3>1, <3>3
  <2>. QED
    BY <1>3, <2>1, HrNoMail
<1>5. PICK x : x = [o EXCEPT !.phase = "askStats", !.from = o.phase, !.asked = o.asked]
  OBVIOUS
<1>6. PICK q : q = [hr EXCEPT !.proc = [hr.proc EXCEPT ![e] = x], !.lock = e]
  OBVIOUS
<1>7. x \in HrProc /\ HrSets(hr, q, e, x, e, hr.initializing)
  <2>1. "askStats" \in HrAsking /\ o.asked \in BOOLEAN
    BY <1>1 DEF HrAsking, HrProc
  <2>. QED
    BY <1>1, <1>5, <1>6, <2>1, HrAskSets
<1>8. x.phase = "askStats" /\ x.from = o.phase /\ ~x.parentGone
  BY <1>1, <1>2, <1>5 DEF HrProc
<1>9. hr' = hrSend(q, e, e - 1, "GetStatsRequest")
  <2>1. q = [hrPhase([hr EXCEPT !.lock = e], e, "askStats") EXCEPT !.proc[e].from = hr.proc[e].phase]
    BY <1>1, <1>5, <1>6 DEF hrPhase, HrState, HrProcs, HrProc
  <2>2. [hr EXCEPT !.lock = e].proc[e].phase = hr.proc[e].phase
    BY <1>1 DEF HrState
  <2>. QED
    BY <2>1, <2>2 DEF HrFlushStats, hrAsk
<1>10. (HrStarting(x) <=> HrStarting(o)) /\ (HrServed(x) <=> HrServed(o))
  BY <1>2, <1>8 DEF HrStarting, HrServed
<1>11. HrProcOK(q, e)
  <2>1. q.proc[e] = x /\ q.lock = e
    BY <1>1, <1>7 DEF HrSets, HrProcs
  <2>. QED
    BY <1>2, <1>8, <2>1 DEF HrProcOK
<1>12. hr.proc[e - 1].phase \notin HrAsking /\ (e > 1 => hr.proc[e - 1].parentGone)
  BY <1>2, HrParentCalm
<1>13. HrAskOf("askStats") = "GetStatsRequest" /\ "askStats" \in HrAsking
  BY DEF HrAskOf, HrAsking
<1>14. x = [hr.proc[e] EXCEPT !.phase = "askStats", !.from = hr.proc[e].phase, !.asked = x.asked]
  BY <1>1, <1>5 DEF HrProc
<1>15. HrOK(hrSend(q, e, e - 1, HrAskOf("askStats")))
  BY <1>2, <1>3, <1>4, <1>7, <1>10, <1>11, <1>12, <1>13, <1>14, HrAskOK
<1>. QED
  BY <1>9, <1>13, <1>15

\* startWorkers(), drainParentListeners()
LEMMA HrStartWorkersOK ==
    ASSUME HrOK(hr), NEW e \in HrEpochs, HrStartWorkers(e)
    PROVE  HrOK(hr')
<1>. DEFINE o == hr.proc[e]
<1>1. hr \in HrState /\ hr.proc \in HrProcs /\ o \in HrProc /\ HrProcOK(hr, e) /\ ~hr.crashed
  BY HrFields DEF HrOK
<1>2. o.phase = "loop"
  BY DEF HrStartWorkers
<1>3. HrStarting(o) /\ HrAlive(o) /\ o.phase \notin HrAsking
  BY <1>2 DEF HrStarting, HrAlive, HrAsking
<1>4. ~o.parentGone /\ ~HrServed(o)
  BY <1>2, <1>3, HrStartingAlone DEF HrServed
<1>5. PICK x : x = [o EXCEPT !.phase = "serving", !.listening = TRUE]
  OBVIOUS
<1>6. PICK q : q = [hr EXCEPT !.proc = [hr.proc EXCEPT ![e] = x], !.initializing = FALSE]
  OBVIOUS
<1>7. x \in HrProc /\ x.phase = "serving" /\ x.listening /\ ~x.parentGone
  BY <1>1, <1>4, <1>5 DEF HrProc, HrPhases
<1>8. [hr.proc EXCEPT ![e] = x] \in HrProcs
  BY <1>1, <1>7 DEF HrProcs
<1>9. HrSets(hr, q, e, x, hr.lock, FALSE)
  BY <1>1, <1>6, <1>8 DEF HrSets, HrState
<1>10. q.proc[e] = x /\ \A f \in HrEpochs : f # e => q.proc[f] = hr.proc[f]
  BY <1>1, <1>9 DEF HrSets, HrProcs
<1>11. HrAlive(x) /\ HrServed(x) /\ ~HrStarting(x) /\ x.phase \notin HrAsking
  BY <1>7 DEF HrAlive, HrStarting, HrServed, HrAsking
<1>12. HrProcOK(q, e)
  BY <1>7, <1>10, <1>11 DEF HrProcOK
<1>13. e > 1 => hr.proc[e - 1].parentGone
  BY <1>2, HrParentCalm, HrEpochFacts DEF HrEpochs
<1>14. HrMayChange(hr, q, e, x)
  BY <1>3, <1>4, <1>7, <1>9, <1>11, <1>12, <1>13 DEF HrMayChange, HrSets
<1>15. HrOK(q)
  BY <1>7, <1>9, <1>14, HrChangeOK DEF HrSets
<1>16. q = [hrPhase(hr, e, "serving") EXCEPT !.proc[e].listening = TRUE, !.initializing = FALSE]
  BY <1>1, <1>5, <1>6 DEF hrPhase, HrState, HrProcs, HrProc
<1>17. CASE e = 0
  BY <1>15, <1>16, <1>17 DEF HrStartWorkers
<1>18. CASE e # 0
  <2>1. hr' = hrSend(q, e, e - 1, "DrainListenersRequest")
    BY <1>16, <1>18 DEF HrStartWorkers
  <2>2. e > 0 /\ e - 1 \in HrEpochs /\ (e - 1) + 1 = e /\ e - 1 # e
    BY <1>18, HrEpochFacts
  <2>3. HrAlive(q.proc[e - 1]) /\ q.proc[e - 1].phase \notin HrAsking
    <3>1. q.proc[e].phase \notin {"none", "new", "askAdmin"} /\ ~q.proc[e].parentGone
      BY <1>7, <1>10
    <3>. QED
      BY <1>15, <2>2, <3>1, HrParentThere, HrParentCalm
  <2>. DEFINE m == [type |-> "DrainListenersRequest", from |-> e]
  <2>4. m \in HrMsg /\ m.type = "DrainListenersRequest" /\ m.from = e /\ m.type \in HrRequests /\ m.type \notin HrAsks
    BY DEF HrMsg, HrTypes, HrAsks, HrRequests
  <2>5. HrRequestOK(q, e - 1, m)
    BY <1>10, <1>11, <2>2, <2>3, <2>4 DEF HrRequestOK
  <2>6. HrSameBut(q, hr') /\ hr'.inbox = [q.inbox EXCEPT ![hrAddress(e - 1)] = Append(@, m)]
    BY <1>15, <2>1, <2>2, <2>3, HrSendFields DEF HrTypes
  <2>. HIDE DEF m
  <2>. QED
    BY <1>15, <2>2, <2>3, <2>4, <2>5, <2>6, HrRequestSent
<1>. QED
  BY <1>17, <1>18

\* What reading a message leaves.
LEMMA HrTaken ==
    ASSUME HrOK(hr), NEW e \in HrEpochs, HrAlive(hr.proc[e]), hr.inbox[hrAddress(e)] # <<>>,
           hr.proc[e].phase \notin HrAsking \/ Head(hr.inbox[hrAddress(e)]).type \in HrAnswers
    PROVE  LET p == hrTake(e)
           IN  HrOK(p) /\ HrSameBut(hr, p) /\ p.inbox = [hr.inbox EXCEPT ![hrAddress(e)] = Tail(@)]
<1>1. hr \in HrState /\ ~hr.crashed /\ hr.inbox \in HrInboxes /\ hrAddress(e) \in HrNames /\ hr.inbox[hrAddress(e)] \in Seq(HrMsg)
  BY HrFields, HrEpochFacts DEF HrOK
<1>2. Tail(hr.inbox[hrAddress(e)]) \in Seq(HrMsg)
  BY <1>1
<1>3. [hr.inbox EXCEPT ![hrAddress(e)] = Tail(@)] \in HrInboxes
  BY <1>1, <1>2 DEF HrInboxes
<1>4. hrTake(e) = [hr EXCEPT !.inbox = [hr.inbox EXCEPT ![hrAddress(e)] = Tail(@)]]
  BY <1>1 DEF hrTake, HrState
<1>5. HrSameBut(hr, hrTake(e)) /\ hrTake(e).inbox = [hr.inbox EXCEPT ![hrAddress(e)] = Tail(@)]
  BY <1>1, <1>3, <1>4 DEF HrSameBut, HrState
<1>. QED
  BY <1>5, HrTakeOK

\* receiveTypedRpc() accepts the reply.
LEMMA HrReceiveOK ==
    ASSUME HrOK(hr), NEW e \in HrEpochs, HrReceive(e),
           Head(hr.inbox[hrAddress(e)]).type = HrReplies[hr.proc[e].phase]
    PROVE  HrOK(hr')
<1>. DEFINE o == hr.proc[e]
            mail == hr.inbox[hrAddress(e)]
<1>1. hr \in HrState /\ hr.proc \in HrProcs /\ o \in HrProc /\ HrProcOK(hr, e) /\ ~hr.crashed /\ hr.inbox \in HrInboxes
      /\ hrAddress(e) \in HrNames
  BY HrFields, HrEpochFacts DEF HrOK
<1>2. o.phase \in HrAsking /\ mail # <<>>
  BY DEF HrReceive, HrReplies, HrAsking
<1>3. /\ HrReplyOK(hr, e, Head(mail)) /\ Head(mail).type \in HrAnswers
      /\ \A i \in 1..Len(Tail(mail)) : Tail(mail)[i].type \notin HrAnswers
  <2>1. Head(mail).type # "ShutdownAdminRequest"
    BY <1>2 DEF HrReplies, HrAsking
  <2>. QED
    BY <1>2, <2>1, HrAskingBox
<1>4. Head(mail).type = HrReplies[o.phase] /\ HrAlive(o) /\ e > 0 /\ ~o.parentGone
  BY <1>1, <1>2, <1>3 DEF HrReplyOK, HrAlive, HrAsking, HrProcOK
<1>5. PICK p : p = hrTake(e)
  OBVIOUS
<1>6. HrOK(p) /\ HrSameBut(hr, p) /\ p.inbox = [hr.inbox EXCEPT ![hrAddress(e)] = Tail(@)]
  BY <1>2, <1>3, <1>4, <1>5, HrTaken
<1>7. p \in HrState /\ p.proc = hr.proc /\ p.proc \in HrProcs /\ p.proc[e] = o /\ p.lock = hr.lock /\ ~p.crashed
  BY <1>1, <1>6 DEF HrSameBut
<1>8. e - 1 \in HrEpochs /\ HrAlive(p.proc[e - 1]) /\ e - 1 # e
  BY <1>4, <1>7, HrParentThere, HrEpochFacts DEF HrAlive
<1>9. hrAddress(e - 1) # hrAddress(e) /\ hrAddress(e - 1) \in HrNames
  BY <1>4, <1>6, <1>7, <1>8, HrOwnNames, HrEpochFacts
<1>10. p.inbox[hrAddress(e)] = Tail(mail) /\ p.inbox[hrAddress(e - 1)] = hr.inbox[hrAddress(e - 1)]
  BY <1>1, <1>6, <1>9 DEF HrInboxes
<1>11. \A i \in 1..Len(p.inbox[hrAddress(e - 1)]) : p.inbox[hrAddress(e - 1)][i].type \notin HrAsks
  BY <1>3, <1>10 DEF HrReplyOK
<1>12. PICK back : back = IF o.phase = "askAdmin" THEN "config" ELSE o.from
  OBVIOUS
<1>13. back \in {"config", "loop", "serving"} /\ back \in HrPhases /\ back \notin HrAsking
  BY <1>1, <1>2, <1>12 DEF HrProcOK, HrAsking, HrPhases
<1>14. PICK l : l = IF o.phase = "askSocket" THEN hr.lock ELSE HrNobody
  OBVIOUS
<1>15. l \in HrEpochs \cup {HrNobody} /\ (l = p.lock \/ p.lock = e)
  BY <1>1, <1>2, <1>7, <1>14, HrFields DEF HrProcOK, HrAsking
<1>16. PICK x : x = [o EXCEPT !.phase = back]
  OBVIOUS
<1>17. x \in HrProc /\ x.phase = back /\ x.listening = o.listening /\ ~x.parentGone
  BY <1>1, <1>4, <1>13, <1>16 DEF HrProc
<1>18. PICK q : q = [p EXCEPT !.proc = [p.proc EXCEPT ![e] = x], !.lock = l]
  OBVIOUS
<1>19. HrSets(p, q, e, x, l, p.initializing)
  <2>1. [p.proc EXCEPT ![e] = x] \in HrProcs
    BY <1>7, <1>17 DEF HrProcs
  <2>. QED
    BY <1>7, <1>15, <1>18, <2>1 DEF HrSets, HrState
<1>20. hr' = q
  <2>1. hr' = CASE o.phase = "askAdmin" -> hrUnlock(hrPhase(p, e, "config"))
                [] o.phase = "askSocket" -> hrPhase(p, e, o.from)
                [] o.phase = "askStats" -> hrUnlock(hrPhase(p, e, o.from))
    BY <1>2, <1>4, <1>5 DEF HrReceive, HrAsking
  <2>2. CASE o.phase = "askAdmin"
    BY <1>7, <1>12, <1>14, <1>16, <1>18, <2>1, <2>2 DEF hrUnlock, hrPhase, HrState, HrProcs
  <2>3. CASE o.phase = "askSocket"
    BY <1>7, <1>12, <1>14, <1>16, <1>18, <2>1, <2>3 DEF hrPhase, HrState, HrProcs
  <2>4. CASE o.phase = "askStats"
    BY <1>7, <1>12, <1>14, <1>16, <1>18, <2>1, <2>4 DEF hrUnlock, hrPhase, HrState, HrProcs
  <2>. QED
    BY <1>2, <2>2, <2>3, <2>4 DEF HrAsking
<1>21. (HrStarting(x) <=> HrStarting(o)) /\ (HrServed(x) <=> HrServed(o)) /\ HrAlive(x)
  BY <1>1, <1>2, <1>12, <1>17 DEF HrProcOK, HrStarting, HrServed, HrAlive, HrAsking
<1>22. HrProcOK(q, e)
  <2>1. q.proc[e] = x
    BY <1>7, <1>19 DEF HrSets, HrProcs
  <2>. QED
    BY <1>13, <1>17, <2>1 DEF HrProcOK, HrAsking
<1>23. e > 1 => p.proc[e - 1].parentGone
  <2>1. CASE o.phase = "askAdmin"
    <3>1. Head(mail).type = "ShutdownAdminReply" /\ (e > 1 => e - 1 > 0)
      BY <1>4, <2>1, HrEpochFacts DEF HrReplies
    <3>. QED
      BY <1>3, <1>7, <3>1 DEF HrReplyOK
  <2>2. CASE o.phase # "askAdmin"
    BY <1>2, <1>4, <1>6, <1>7, <2>2, HrParentCalm DEF HrAsking
  <2>. QED
    BY <2>1, <2>2
<1>24. ~o.parentGone /\ HrAlive(o)
  BY <1>4
<1>25. HrMayChange(p, q, e, x)
  <2>1. q.lock = p.lock \/ p.lock \in {HrNobody, e}
    BY <1>15, <1>19 DEF HrSets
  <2>2. x.phase # "exiting"
    BY <1>13, <1>17
  <2>. QED
    BY <1>3, <1>7, <1>10, <1>11, <1>13, <1>17, <1>19, <1>21, <1>22, <1>23, <1>24, <2>1, <2>2 DEF HrMayChange, HrSets
<1>26. HrOK(q)
  BY <1>6, <1>17, <1>19, <1>25, HrChangeOK DEF HrSets
<1>. QED
  BY <1>20, <1>26

\* A process that serves answers what its child asks.
LEMMA HrAnswered ==
    ASSUME NEW p, HrOK(p), NEW e \in HrEpochs, e + 1 \in HrEpochs, NEW type \in HrAnswers,
           p.proc[e + 1].phase \in HrAsking, type = HrReplies[p.proc[e + 1].phase],
           type = "ShutdownAdminReply" /\ e > 0 => p.proc[e].parentGone,
           ~HrHasReply(p, e + 1),
           \A i \in 1..Len(p.inbox[hrAddress(e)]) : p.inbox[hrAddress(e)][i].type \notin HrAsks
    PROVE  HrOK(hrSend(p, e, e + 1, type))
<1>1. PICK f \in HrEpochs : f = e + 1
  OBVIOUS
<1>2. f - 1 = e /\ f > 0 /\ HrAlive(p.proc[f]) /\ p.proc[f].phase \in HrAsking
  BY <1>1, HrOrder DEF HrAlive, HrAsking
<1>3. type \in HrTypes
  BY DEF HrTypes
<1>. DEFINE m == [type |-> type, from |-> e]
            q == hrSend(p, e, f, type)
<1>4. m \in HrMsg /\ m.type = type /\ m.from = e
  BY <1>3 DEF HrMsg
<1>5. HrSameBut(p, q) /\ q.inbox = [p.inbox EXCEPT ![hrAddress(f)] = Append(@, m)]
  BY <1>2, <1>3, HrSendFields
<1>. HIDE DEF m, q
<1>6. ~HrHasReply(p, f) /\ m.type = HrReplies[p.proc[f].phase]
  BY <1>1, <1>4
<1>7. m.type = "ShutdownAdminReply" /\ f - 1 > 0 => p.proc[f - 1].parentGone
  BY <1>2, <1>4
<1>8. \A i \in 1..Len(p.inbox[hrAddress(f - 1)]) : p.inbox[hrAddress(f - 1)][i].type \notin HrAsks
  BY <1>2
<1>9. m.from = f - 1
  BY <1>2, <1>4
<1>10. HrOK(q)
  BY <1>2, <1>4, <1>5, <1>6, <1>7, <1>8, <1>9, HrReplySent
<1>. QED
  BY <1>1, <1>10 DEF q

\* onSocketEvent(): all requests of the child.
LEMMA HrSocketEventOK ==
    ASSUME HrOK(hr), NEW e \in HrEpochs, HrSocketEvent(e)
    PROVE  HrOK(hr')
<1>. DEFINE o == hr.proc[e]
            mail == hr.inbox[hrAddress(e)]
<1>1. /\ hr \in HrState /\ hr.proc \in HrProcs /\ o \in HrProc /\ HrProcOK(hr, e) /\ ~hr.crashed
      /\ hr.inbox \in HrInboxes /\ hrAddress(e) \in HrNames /\ mail \in Seq(HrMsg)
  BY HrFields, HrEpochFacts DEF HrOK
<1>2. o.phase \in {"loop", "serving"} /\ mail # <<>>
  BY DEF HrSocketEvent
<1>3. HrAlive(o) /\ o.phase \notin HrAsking
  BY <1>2 DEF HrAlive, HrAsking
<1>4. PICK m : m = Head(mail)
  OBVIOUS
<1>5. 1 \in 1..Len(mail) /\ m = mail[1] /\ m \in HrMsg /\ HrMailOK(hr, e)
  BY <1>1, <1>2, <1>3, <1>4 DEF HrOK
<1>6. HrRequestOK(hr, e, m) /\ m.type \notin HrAnswers /\ m.type \in HrTypes
  BY <1>3, <1>5 DEF HrMailOK, HrReplyOK, HrMsg
<1>7. e + 1 \in HrEpochs /\ e # HrMaxEpoch /\ e + 1 # e /\ (e + 1) - 1 = e
  BY <1>6, HrOrder DEF HrRequestOK
<1>8. hr.proc[e + 1].phase # "none"
  <2>1. hr.proc[e + 1].phase \in HrAsking \/ HrServed(hr.proc[e + 1]) \/ hr.proc[e + 1].parentGone
    BY <1>6 DEF HrRequestOK, HrTypes
  <2>2. HrProcOK(hr, e + 1)
    BY <1>7 DEF HrOK
  <2>. QED
    BY <2>1, <2>2 DEF HrProcOK, HrAsking, HrServed
<1>9. o.phase = "serving"
  <2>1. ~HrStarting(o)
    BY <1>7, <1>8, HrStartingAlone
  <2>. QED
    BY <1>2, <2>1 DEF HrStarting
<1>10. PICK p : p = hrTake(e)
  OBVIOUS
<1>11. HrOK(p) /\ HrSameBut(hr, p) /\ p.inbox = [hr.inbox EXCEPT ![hrAddress(e)] = Tail(@)]
  BY <1>2, <1>3, <1>10, HrTaken
<1>12. p \in HrState /\ p.proc = hr.proc /\ p.proc \in HrProcs /\ p.proc[e] = o /\ p.lock = hr.lock /\ ~p.crashed
  BY <1>1, <1>11 DEF HrSameBut
<1>13. p.inbox[hrAddress(e)] = Tail(mail) /\ hr' = hrHandle(p, e, m)
  BY <1>1, <1>4, <1>10, <1>11 DEF HrInboxes, HrSocketEvent
<1>14. ASSUME m.type \in HrAsks
       PROVE  /\ hr.proc[e + 1].phase \in HrAsking /\ m.type = HrAskOf(hr.proc[e + 1].phase)
              /\ ~HrHasReply(p, e + 1) /\ HrAlive(p.proc[e + 1])
              /\ \A i \in 1..Len(p.inbox[hrAddress(e)]) : p.inbox[hrAddress(e)][i].type \notin HrAsks
  <2>1. hr.proc[e + 1].phase \in HrAsking /\ m.type = HrAskOf(hr.proc[e + 1].phase)
    BY <1>6, <1>14 DEF HrRequestOK
  <2>2. HrAlive(hr.proc[e + 1])
    BY <2>1 DEF HrAlive, HrAsking
  <2>3. hrAddress(e + 1) # hrAddress(e) /\ hrAddress(e + 1) \in HrNames
    BY <1>3, <1>7, <2>2, HrOwnNames, HrEpochFacts
  <2>4. p.inbox[hrAddress(e + 1)] = hr.inbox[hrAddress(e + 1)]
    BY <1>1, <1>11, <2>3 DEF HrInboxes
  <2>5. ~HrHasReply(p, e + 1)
    <3>. SUFFICES ASSUME HrHasReply(p, e + 1) PROVE FALSE
      OBVIOUS
    <3>1. HrHasReply(hr, e + 1)
      BY <2>4 DEF HrHasReply
    <3>2. mail[1].type \notin HrAsks
      BY <1>5, <1>7, <2>2, <3>1, HrReplied
    <3>. QED
      BY <1>5, <1>14, <3>2
  <2>6. ASSUME NEW i \in 1..Len(Tail(mail)) PROVE Tail(mail)[i].type \notin HrAsks
    <3>1. Tail(mail)[i] = mail[i + 1] /\ i + 1 \in 1..Len(mail) /\ i + 1 # 1
      BY <1>1, <1>2, <2>6
    <3>. QED
      BY <1>5, <1>14, <3>1 DEF HrMailOK
  <2>. QED
    BY <1>12, <1>13, <2>1, <2>2, <2>4, <2>5, <2>6
<1>15. CASE m.type = "ShutdownAdminRequest"
  <2>1. m.type \in HrAsks
    BY <1>15 DEF HrAsks
  <2>2. hr.proc[e + 1].phase = "askAdmin"
    BY <1>14, <1>15, <2>1 DEF HrAskOf, HrAsking
  <2>3. PICK x : x = [o EXCEPT !.statTimer = FALSE]
    OBVIOUS
  <2>4. x \in HrProc /\ x.phase = "serving" /\ x.parentGone = o.parentGone /\ x.listening = o.listening
    BY <1>1, <1>9, <2>3 DEF HrProc
  <2>5. PICK r : r = [p EXCEPT !.proc[e].statTimer = FALSE]
    OBVIOUS
  <2>6. HrSets(p, r, e, x, p.lock, p.initializing)
    BY <1>12, <2>3, <2>4, <2>5 DEF HrSets, HrState, HrProcs
  <2>7. r.proc[e] = x /\ \A f \in HrEpochs : f # e => r.proc[f] = p.proc[f]
    BY <1>12, <2>6 DEF HrSets, HrProcs
  <2>8. HrProcOK(r, e)
    BY <2>4, <2>7 DEF HrProcOK, HrAsking
  <2>9. HrAlive(x) /\ ~HrStarting(x) /\ HrServed(x) /\ HrServed(o)
    BY <1>9, <2>4 DEF HrAlive, HrStarting, HrServed
  <2>10. e > 1 => p.proc[e - 1].parentGone
    BY <1>9, <1>11, <1>12, HrParentCalm, HrEpochFacts DEF HrEpochs
  <2>11. HrMayChange(p, r, e, x)
    BY <1>3, <1>9, <1>12, <2>4, <2>6, <2>8, <2>9, <2>10 DEF HrMayChange, HrSets
  <2>12. HrOK(r)
    BY <1>11, <2>4, <2>6, <2>11, HrChangeOK DEF HrSets
  <2>13. PICK s : s = hrTerminateParent(r, e)
    OBVIOUS
  <2>14. /\ HrOK(s) /\ (e > 0 => s.proc[e].parentGone) /\ s.proc[e + 1] = r.proc[e + 1]
         /\ s.inbox[hrAddress(e)] = r.inbox[hrAddress(e)] /\ s.inbox[hrAddress(e + 1)] = r.inbox[hrAddress(e + 1)]
    <3>1. HrAlive(r.proc[e]) /\ HrAlive(r.proc[e + 1]) /\ r.proc[e].phase \in {"serving", "exiting"}
      BY <1>7, <1>14, <2>1, <2>4, <2>7, <2>9
    <3>. QED
      BY <1>7, <2>12, <2>13, <3>1, HrTerminateOK
  <2>15. s.proc[e + 1].phase = "askAdmin" /\ r.inbox = p.inbox
    BY <1>7, <1>12, <2>2, <2>6, <2>7, <2>14 DEF HrSets
  <2>18. ~HrHasReply(s, e + 1)
    BY <1>14, <2>1, <2>14, <2>15 DEF HrHasReply
  <2>16. hr' = hrSend(s, e, e + 1, "ShutdownAdminReply")
    BY <1>13, <1>15, <2>5, <2>13 DEF hrHandle, hrShutdownAdmin
  <2>17. "askAdmin" \in HrAsking /\ "ShutdownAdminReply" = HrReplies["askAdmin"] /\ "ShutdownAdminReply" \in HrAnswers
    BY DEF HrAsking, HrReplies, HrAnswers
  <2>. QED
    BY <1>7, <1>14, <2>1, <2>14, <2>15, <2>16, <2>17, <2>18, HrAnswered
<1>16. CASE m.type = "GetListenSocketRequest"
  <2>1. m.type \in HrAsks
    BY <1>16 DEF HrAsks
  <2>2. p.proc[e + 1].phase = "askSocket"
    BY <1>12, <1>14, <1>16, <2>1 DEF HrAskOf, HrAsking
  <2>3. hr' = hrSend(p, e, e + 1, "GetListenSocketReply")
    BY <1>13, <1>16 DEF hrHandle
  <2>4. "askSocket" \in HrAsking /\ "GetListenSocketReply" = HrReplies["askSocket"] /\ "GetListenSocketReply" \in HrAnswers
    BY DEF HrAsking, HrReplies, HrAnswers
  <2>. QED
    BY <1>7, <1>11, <1>14, <2>1, <2>2, <2>3, <2>4, HrAnswered
<1>17. CASE m.type = "GetStatsRequest"
  <2>1. m.type \in HrAsks
    BY <1>17 DEF HrAsks
  <2>2. p.proc[e + 1].phase = "askStats"
    BY <1>12, <1>14, <1>17, <2>1 DEF HrAskOf, HrAsking
  <2>3. hr' = hrSend(p, e, e + 1, "GetStatsReply")
    BY <1>13, <1>17 DEF hrHandle
  <2>4. "askStats" \in HrAsking /\ "GetStatsReply" = HrReplies["askStats"] /\ "GetStatsReply" \in HrAnswers
    BY DEF HrAsking, HrReplies, HrAnswers
  <2>. QED
    BY <1>7, <1>11, <1>14, <2>1, <2>2, <2>3, <2>4, HrAnswered
<1>18. CASE m.type = "DrainListenersRequest"
  <2>1. HrServed(p.proc[e + 1])
    BY <1>6, <1>12, <1>18 DEF HrRequestOK
  <2>2. PICK x : x = [o EXCEPT !.listening = FALSE]
    OBVIOUS
  <2>3. x \in HrProc /\ x.phase = "serving" /\ x.parentGone = o.parentGone
    BY <1>1, <1>9, <2>2 DEF HrProc
  <2>4. HrSets(p, hr', e, x, p.lock, p.initializing)
    <3>1. hr' = [p EXCEPT !.proc[e].listening = FALSE]
      BY <1>13, <1>18 DEF hrHandle
    <3>. QED
      BY <1>12, <2>2, <2>3, <3>1 DEF HrSets, HrState, HrProcs
  <2>5. hr'.proc[e] = x
    BY <1>12, <2>4 DEF HrSets, HrProcs
  <2>6. HrProcOK(hr', e)
    BY <2>3, <2>5 DEF HrProcOK, HrAsking
  <2>7. HrAlive(x) /\ ~HrStarting(x) /\ HrServed(x) /\ HrServed(o)
    BY <1>9, <2>3 DEF HrAlive, HrStarting, HrServed
  <2>8. e > 1 => p.proc[e - 1].parentGone
    BY <1>9, <1>11, <1>12, HrParentCalm, HrEpochFacts DEF HrEpochs
  <2>9. HrMayChange(p, hr', e, x)
    BY <1>3, <1>7, <1>9, <1>12, <2>1, <2>3, <2>4, <2>6, <2>7, <2>8 DEF HrMayChange, HrSets
  <2>. QED
    BY <1>11, <2>3, <2>4, <2>9, HrChangeOK DEF HrSets
<1>19. CASE m.type = "TerminateRequest"
  <2>1. p.proc[e + 1].parentGone
    BY <1>6, <1>12, <1>19 DEF HrRequestOK, HrAsks
  <2>2. PICK x : x = [o EXCEPT !.phase = "exiting"]
    OBVIOUS
  <2>3. x \in HrProc /\ x.phase = "exiting" /\ x.parentGone = o.parentGone /\ x.listening = o.listening
    BY <1>1, <2>2 DEF HrProc, HrPhases
  <2>4. HrSets(p, hr', e, x, p.lock, p.initializing)
    <3>1. hr' = hrPhase(p, e, "exiting")
      BY <1>13, <1>19 DEF hrHandle
    <3>. QED
      BY <1>12, <2>2, <2>3, <3>1 DEF HrSets, HrState, HrProcs, hrPhase
  <2>5. hr'.proc[e] = x
    BY <1>12, <2>4 DEF HrSets, HrProcs
  <2>6. HrProcOK(hr', e)
    BY <2>3, <2>5 DEF HrProcOK, HrAsking
  <2>7. HrAlive(x) /\ ~HrStarting(x) /\ HrServed(x) /\ HrServed(o) /\ x.phase \notin HrAsking
    BY <1>9, <2>3 DEF HrAlive, HrStarting, HrServed, HrAsking
  <2>8. e > 1 => p.proc[e - 1].parentGone
    BY <1>9, <1>11, <1>12, HrParentCalm, HrEpochFacts DEF HrEpochs
  <2>9. HrMayChange(p, hr', e, x)
    BY <1>3, <1>7, <1>9, <1>12, <2>1, <2>3, <2>4, <2>6, <2>7, <2>8 DEF HrMayChange, HrSets
  <2>. QED
    BY <1>11, <2>3, <2>4, <2>9, HrChangeOK DEF HrSets
<1>. QED
  BY <1>6, <1>15, <1>16, <1>17, <1>18, <1>19 DEF HrTypes, HrAsks

\* What HrSound says of messages and listeners, of a state.
HrDelivers(p) ==
    /\ \A a \in 0..2 : \A i \in DOMAIN p.inbox[a] :
          LET m == p.inbox[a][i]
          IN  p.bound[a] = IF \E x \in DOMAIN HrReplies : HrReplies[x] = m.type THEN m.from + 1 ELSE m.from - 1
    /\ (\E e \in HrEpochs : p.proc[e].phase \in {"serving", "exiting", "exited"}) =>
          \E e \in HrEpochs : p.proc[e].listening

\* HrOK says so.
LEMMA HrDelivered == ASSUME NEW p, HrOK(p) PROVE HrDelivers(p)
<1>1. ASSUME NEW a \in 0..2, NEW i \in DOMAIN p.inbox[a]
      PROVE  LET m == p.inbox[a][i]
             IN  p.bound[a] = IF \E x \in DOMAIN HrReplies : HrReplies[x] = m.type THEN m.from + 1 ELSE m.from - 1
  <2>. DEFINE m == p.inbox[a][i]
  <2>0. p.inbox \in HrInboxes /\ p.bound \in HrBounds /\ a \in HrNames
    BY HrFields DEF HrOK, HrNames
  <2>1. p.inbox[a] \in Seq(HrMsg) /\ i \in 1..Len(p.inbox[a]) /\ p.inbox[a] # <<>>
    BY <1>1, <2>0 DEF HrInboxes
  <2>2. p.bound[a] \in HrEpochs
    BY <2>0, <2>1 DEF HrOK, HrNamesOK, HrBounds
  <2>3. PICK e \in HrEpochs : p.bound[a] = e
    BY <2>2
  <2>4. hrAddress(e) = a /\ HrAlive(p.proc[e])
    BY <2>0, <2>3, HrEpochFacts DEF HrOK, HrNamesOK
  <2>5. HrMailOK(p, e) /\ m = p.inbox[hrAddress(e)][i]
    BY <2>4 DEF HrOK
  <2>6. (\E x \in DOMAIN HrReplies : HrReplies[x] = m.type) <=> m.type \in HrAnswers
    BY DEF HrReplies, HrAnswers
  <2>7. CASE m.type \in HrAnswers
    <3>1. m.from = e - 1
      BY <2>1, <2>4, <2>5, <2>7 DEF HrMailOK, HrReplyOK
    <3>2. m.from + 1 = e
      BY <3>1, HrEpochFacts
    <3>. QED
      BY <2>3, <2>6, <2>7, <3>2
  <2>8. CASE m.type \notin HrAnswers
    <3>1. m.from = e + 1
      BY <2>1, <2>4, <2>5, <2>8 DEF HrMailOK, HrRequestOK
    <3>2. m.from - 1 = e
      BY <3>1, HrEpochFacts
    <3>. QED
      BY <2>3, <2>6, <2>8, <3>2
  <2>. QED
    BY <2>7, <2>8
<1>2. ASSUME \E e \in HrEpochs : p.proc[e].phase \in {"serving", "exiting", "exited"}
      PROVE  \E e \in HrEpochs : p.proc[e].listening
  BY <1>2 DEF HrOK, HrListens, HrServed
<1>. QED
  BY <1>1, <1>2 DEF HrDelivers

\* The invariant implies the property.
LEMMA HrInvSound == HrInv => HrSound
<1>. SUFFICES ASSUME HrInv PROVE HrSound
  OBVIOUS
<1>1. PICK p : p = [hr EXCEPT !.crashed = FALSE]
  OBVIOUS
<1>2. HrDelivers(p)
  BY <1>1, HrDelivered DEF HrInv
<1>3. p.inbox = hr.inbox /\ p.bound = hr.bound /\ p.proc = hr.proc
  BY <1>1 DEF HrInv, HrState
<1>4. HrDelivers(hr)
  BY <1>2, <1>3 DEF HrDelivers
<1>. QED
  BY <1>4 DEF HrInv, HrSound, HrDelivers

\* The state in which a process has asserted keeps the rest.
LEMMA HrAssertsOK ==
    ASSUME HrOK(hr), NEW e \in HrEpochs, HrReceive(e),
           Head(hr.inbox[hrAddress(e)]).type # HrReplies[hr.proc[e].phase]
    PROVE  HrInv'
<1>. DEFINE mail == hr.inbox[hrAddress(e)]
<1>1. hr' = [hr EXCEPT !.crashed = TRUE] /\ hr \in HrState /\ ~hr.crashed
  BY DEF HrReceive, HrOK
<1>2. /\ hr' \in HrState /\ hr'.inbox = hr.inbox /\ hr'.proc = hr.proc
      /\ [hr' EXCEPT !.crashed = FALSE] = hr
  BY <1>1 DEF HrState
<1>3. hr.proc[e].phase \in HrAsking /\ mail # <<>>
  BY DEF HrReceive, HrReplies, HrAsking
<1>4. HrLate(hr.proc[e]) /\ Head(mail).type = "ShutdownAdminRequest" /\ Head(mail).from = e + 1
  BY <1>3, HrAskingBox DEF HrReplyOK
<1>5. HrMeetsChild(e)'
  BY <1>2, <1>3, <1>4 DEF HrMeetsChild, HrLate
<1>. QED
  BY <1>2, <1>5 DEF HrInv

\* While no process has asserted, the invariant is HrOK.
LEMMA HrUncrashed == ~hr.crashed => (HrInv <=> HrOK(hr))
<1>. SUFFICES ASSUME ~hr.crashed PROVE HrInv <=> HrOK(hr)
  OBVIOUS
<1>1. hr \in HrState => [hr EXCEPT !.crashed = FALSE] = hr
  BY DEF HrState
<1>. QED
  BY <1>1 DEF HrInv, HrOK

\* Every step keeps the invariant.
LEMMA HrNextOK == HrInv /\ [HrNext]_hr => HrInv'
<1>. SUFFICES ASSUME HrInv, [HrNext]_hr PROVE HrInv'
  OBVIOUS
<1>1. CASE UNCHANGED hr
  BY <1>1 DEF HrInv, HrMeetsChild
<1>2. ASSUME ~hr.crashed, NEW e \in HrEpochs, HrStep(e) PROVE HrInv'
  <2>1. HrOK(hr)
    BY <1>2, HrUncrashed
  <2>2. CASE HrReceive(e) /\ Head(hr.inbox[hrAddress(e)]).type # HrReplies[hr.proc[e].phase]
    BY <2>1, <2>2, HrAssertsOK
  <2>3. CASE ~(HrReceive(e) /\ Head(hr.inbox[hrAddress(e)]).type # HrReplies[hr.proc[e].phase])
    <3>1. HrOK(hr')
      BY <1>2, <2>1, <2>3, HrStartOK, HrShutdownParentAdminOK, HrDuplicateSocketOK, HrConfiguredOK, HrConfigFailsOK,
         HrStartWorkersOK, HrParentShutdownOK, HrFlushStatsOK, HrSocketEventOK, HrReceiveOK, HrExitOK DEF HrStep
    <3>2. ~hr'.crashed /\ hr' \in HrState
      BY <3>1 DEF HrOK
    <3>3. [hr' EXCEPT !.crashed = FALSE] = hr'
      BY <3>2 DEF HrState
    <3>. QED
      BY <3>1, <3>2, <3>3 DEF HrInv
  <2>. QED
    BY <2>2, <2>3
<1>. QED
  BY <1>1, <1>2 DEF HrNext

\* For any number of processes, with listeners of the configuration and of LDS: a
\* process asserts in receiveTypedRpc() only when duplicateParentListenSocket()
\* is called while it serves and meets the first request of a child, never in
\* sendMessage(); a message reaches the process it is for though three names serve
\* all processes, and from the first process that serves on, some process listens.
THEOREM HrSoundHolds == HrSpec => []HrSound
<1>1. HrInit => HrInv
  <2>1. HrInit => ~hr.crashed
    BY DEF HrInit
  <2>. QED
    BY <2>1, HrInitOK, HrUncrashed
<1>2. HrInv /\ [HrNext]_hr => HrInv'
  BY HrNextOK
<1>3. HrInv => HrSound
  BY HrInvSound
<1>. QED
  BY <1>1, <1>2, <1>3, PTL DEF HrSpec

-----------------------------------------------------------------------------
(***************************************************************************)
(* The statsd sink.  What a flush commits is what was given, however many  *)
(* slices it takes.                                                        *)
(***************************************************************************)

StState == [slice : Int, buffer : Int, conn : BOOLEAN, backedUp : BOOLEAN, given : Int, sent : Int, dropped : Int,
            leftover : BOOLEAN]

StInv == st \in StState /\ StSound

LEMMA StWritten ==
    ASSUME NEW p \in StState, NEW n \in Int, NEW host \in BOOLEAN
    PROVE  LET q == stWrite(p, n, host)
           IN  /\ q \in StState /\ q.given = p.given /\ q.slice = p.slice
               /\ \/ q.sent + q.dropped = p.sent + p.dropped + n /\ q.buffer = 0
                  \/ q.sent + q.dropped = p.sent + p.dropped /\ q.buffer = p.buffer
<1>. DEFINE q == stWrite(p, n, host)
<1>1. CASE p.backedUp
  <2>. DEFINE x == p.dropped + n
              z == 0
  <2>1. q = [p EXCEPT !.conn = FALSE, !.dropped = x, !.buffer = z]
    BY <1>1 DEF stWrite
  <2>2. x \in Int /\ z \in Int /\ p.sent \in Int /\ p.dropped \in Int
    BY DEF StState
  <2>. HIDE DEF x, z, q
  <2>3. q \in StState
    BY <2>1, <2>2 DEF StState
  <2>4. q.given = p.given /\ q.slice = p.slice /\ q.dropped = x /\ q.sent = p.sent /\ q.buffer = z
    BY <2>1 DEF StState
  <2>5. q.sent + q.dropped = p.sent + p.dropped + n
    BY <2>2, <2>4 DEF x
  <2>. QED
    BY <2>3, <2>4, <2>5 DEF q, z
<1>2. CASE ~p.backedUp /\ ~p.conn /\ ~host
  <2>1. q = p
    BY <1>2 DEF stWrite
  <2>. QED
    BY <2>1 DEF StState
<1>3. CASE ~p.backedUp /\ (p.conn \/ host)
  <2>. DEFINE x == p.sent + n
              z == 0
  <2>1. q = [p EXCEPT !.conn = TRUE, !.sent = x, !.buffer = z]
    BY <1>3 DEF stWrite
  <2>2. x \in Int /\ z \in Int /\ p.sent \in Int /\ p.dropped \in Int
    BY DEF StState
  <2>. HIDE DEF x, z, q
  <2>3. q \in StState
    BY <2>1, <2>2 DEF StState
  <2>4. q.given = p.given /\ q.slice = p.slice /\ q.sent = x /\ q.dropped = p.dropped /\ q.buffer = z
    BY <2>1 DEF StState
  <2>5. q.sent + q.dropped = p.sent + p.dropped + n
    BY <2>2, <2>4 DEF x
  <2>. QED
    BY <2>3, <2>4, <2>5 DEF q, z
<1>. QED
  BY <1>1, <1>2, <1>3

LEMMA StFlushed ==
    ASSUME NEW p \in StState, NEW k \in Nat
    PROVE  LET q == stCommit(stFlush(stBegin(p), k))
           IN  /\ q \in StState /\ q.given = p.given + k /\ q.buffer = p.buffer + k /\ q.slice = -1
               /\ q.sent = p.sent /\ q.dropped = p.dropped
<1>. DEFINE full == (k - 1) \div StSlice
            x == full * StSlice
            a == stBegin(p)
            b == stFlush(a, k)
            q == stCommit(b)
            none == -1
<1>1. a \in StState /\ a.slice = 0 /\ a.given = p.given /\ a.buffer = p.buffer /\ a.sent = p.sent /\ a.dropped = p.dropped
  BY DEF StState, stBegin
<1>2. full \in Int
  BY StAssumption
<1>. HIDE DEF full
<1>3. x \in Int
  BY <1>2, StAssumption
<1>4. /\ b \in StState /\ b.given = p.given + k /\ b.buffer + b.slice = p.buffer + k
      /\ b.sent = p.sent /\ b.dropped = p.dropped
  <2>1. CASE k = 0
    <3>1. b = a
      BY <2>1 DEF stFlush
    <3>. QED
      BY <1>1, <2>1, <3>1 DEF StState
  <2>2. CASE k # 0
    <3>1. b = [a EXCEPT !.buffer = a.buffer + x, !.slice = k - x, !.given = a.given + k]
      BY <2>2 DEF stFlush, full
    <3>. HIDE DEF a, b, x
    <3>0. a.buffer + x \in Int /\ k - x \in Int /\ a.given + k \in Int
      BY <1>1, <1>3 DEF StState
    <3>2. b \in StState
      BY <1>1, <3>0, <3>1 DEF StState
    <3>3. b.given = a.given + k /\ b.buffer = a.buffer + x /\ b.slice = k - x /\ b.sent = a.sent /\ b.dropped = a.dropped
      BY <1>1, <3>1 DEF StState
    <3>4. a.buffer \in Int
      BY <1>1 DEF StState
    <3>. QED
      BY <1>1, <1>3, <3>2, <3>3, <3>4
  <2>. QED
    BY <2>1, <2>2
<1>. HIDE DEF b
<1>5. q = [b EXCEPT !.buffer = b.buffer + b.slice, !.slice = none]
  BY DEF stCommit
<1>. HIDE DEF q
<1>7. b.buffer + b.slice \in Int /\ none \in Int
  BY <1>4 DEF StState
<1>. HIDE DEF none
<1>6. q \in StState /\ q.buffer = b.buffer + b.slice /\ q.slice = none /\ q.given = b.given /\ q.sent = b.sent /\ q.dropped = b.dropped
  BY <1>4, <1>5, <1>7 DEF StState
<1>. QED
  BY <1>4, <1>6 DEF q, b, a, none

LEMMA StInitOK == StInit => StInv
  BY DEF StInit, StInv, StSound, StState

LEMMA StStepOK == StInv /\ [StNext]_st => StInv'
<1>. SUFFICES ASSUME StInv, [StNext]_st PROVE StInv'
  OBVIOUS
<1>0. st \in StState /\ st.given = st.sent + st.dropped + st.buffer /\ st.slice = -1
  BY DEF StInv, StSound
<1>1. CASE UNCHANGED st
  BY <1>1, <1>0 DEF StInv, StSound
<1>2. CASE \E host \in BOOLEAN : StTimespan(host)
  <2>1. PICK host \in BOOLEAN : StTimespan(host)
    BY <1>2
  <2>. DEFINE a == [st EXCEPT !.given = @ + 1]
              b == stWrite(a, 1, host)
              p == [b EXCEPT !.buffer = st.buffer]
              q == IF p.sent + p.dropped = st.sent + st.dropped THEN [p EXCEPT !.dropped = @ + 1] ELSE p
  <2>2. st' = q
    BY <2>1 DEF StTimespan
  <2>3. a \in StState /\ a.given = st.given + 1 /\ a.sent = st.sent /\ a.dropped = st.dropped /\ a.slice = -1
    BY <1>0 DEF StState
  <2>. HIDE DEF a
  <2>4. /\ b \in StState /\ b.given = a.given /\ b.slice = a.slice
        /\ (b.sent + b.dropped = a.sent + a.dropped + 1 \/ b.sent + b.dropped = a.sent + a.dropped)
    BY <2>3, StWritten
  <2>. HIDE DEF b
  <2>5. /\ p \in StState /\ p.buffer = st.buffer /\ p.given = st.given + 1 /\ p.slice = -1
        /\ (p.sent + p.dropped = st.sent + st.dropped + 1 \/ p.sent + p.dropped = st.sent + st.dropped)
    BY <1>0, <2>3, <2>4 DEF StState
  <2>. HIDE DEF p
  <2>6. q \in StState /\ q.buffer = st.buffer /\ q.given = st.given + 1 /\ q.slice = -1 /\ q.sent + q.dropped = st.sent + st.dropped + 1
    <3>1. CASE p.sent + p.dropped = st.sent + st.dropped
      <4>1. q = [p EXCEPT !.dropped = @ + 1]
        BY <3>1
      <4>. QED
        BY <3>1, <4>1, <2>5 DEF StState
    <3>2. CASE p.sent + p.dropped # st.sent + st.dropped
      BY <3>2, <2>5
    <3>. QED
      BY <3>1, <3>2
  <2>. HIDE DEF q
  <2>. QED
    BY <1>0, <2>2, <2>6 DEF StInv, StSound, StState
<1>3. CASE \E host \in BOOLEAN : \E k \in 0..StMaxStats : StFlush(k, host)
  <2>1. PICK host \in BOOLEAN, k \in 0..StMaxStats : StFlush(k, host)
    BY <1>3
  <2>. DEFINE p == stCommit(stFlush(stBegin(st), k))
              b == stWrite(p, p.buffer, host)
              l == st.buffer > 0
              q == [b EXCEPT !.leftover = l]
  <2>2. st' = q
    BY <2>1 DEF StFlush
  <2>3. k \in Nat
    BY StAssumption
  <2>4. /\ p \in StState /\ p.given = st.given + k /\ p.buffer = st.buffer + k /\ p.slice = -1
        /\ p.sent = st.sent /\ p.dropped = st.dropped
    BY <1>0, <2>3, StFlushed
  <2>. HIDE DEF p
  <2>5. p.buffer \in Int
    BY <2>4 DEF StState
  <2>6. /\ b \in StState /\ b.given = p.given /\ b.slice = p.slice
        /\ \/ b.sent + b.dropped = p.sent + p.dropped + p.buffer /\ b.buffer = 0
           \/ b.sent + b.dropped = p.sent + p.dropped /\ b.buffer = p.buffer
    BY <2>4, <2>5, StWritten
  <2>. HIDE DEF b
  <2>7. l \in BOOLEAN
    OBVIOUS
  <2>. HIDE DEF l
  <2>8. q \in StState /\ q.given = b.given /\ q.slice = b.slice /\ q.sent = b.sent /\ q.dropped = b.dropped /\ q.buffer = b.buffer
    BY <2>6, <2>7 DEF StState
  <2>. HIDE DEF q
  <2>9. q.given = q.sent + q.dropped + q.buffer
    BY <1>0, <2>3, <2>4, <2>6, <2>8 DEF StState
  <2>. QED
    BY <2>2, <2>4, <2>6, <2>8, <2>9 DEF StInv, StSound
<1>4. CASE StClosed
  BY <1>0, <1>4 DEF StClosed, StInv, StSound, StState
<1>5. CASE StBacksUp
  BY <1>0, <1>5 DEF StBacksUp, StInv, StSound, StState
<1>. QED
  BY <1>1, <1>2, <1>3, <1>4, <1>5 DEF StNext

\* StSound, for slices and flushes of any size (TcpStatsdSink): over connections that
\* come, go and back up, every stat is sent, dropped or kept for the next flush.
THEOREM StSoundHolds == StSpec => []StSound
<1>1. StInv => StSound
  BY DEF StInv
<1>. QED
  BY StInitOK, StStepOK, <1>1, PTL DEF StSpec

-----------------------------------------------------------------------------
(***************************************************************************)
(* The guard dog.  An alert belongs to the touch it was made for: a thread *)
(* is counted exactly while its last alert is for its last touch.          *)
(***************************************************************************)

GdDogs == [watched : BOOLEAN, touched : Int, alert : Int, missAlerted : BOOLEAN, megaAlerted : BOOLEAN, stuck : BOOLEAN]
GdDogMap == [GdThreads -> GdDogs]
GdCounts == [GdThreads -> Int]
GdState == [time : Int, dog : GdDogMap, now : Int, last : Int, misses : GdCounts, megas : GdCounts, panic : SUBSET GdThreads]

\* One watchdog d, of which misses and megas were counted; now: the time of the last check.
GdDogOK(d, misses, megas, time, last) ==
    /\ 0 <= d.touched /\ d.touched <= time
    /\ d.alert <= d.touched
    /\ d.missAlerted \/ d.megaAlerted => d.alert # GdNone
    /\ GdMiss <= GdMegaMiss /\ d.megaAlerted => d.missAlerted
    /\ misses = IF d.missAlerted /\ d.alert = d.touched THEN 1 ELSE 0
    /\ megas = IF d.megaAlerted /\ d.alert = d.touched THEN 1 ELSE 0
    /\ d.watched /\ last - d.touched > GdMiss => d.missAlerted
    /\ d.watched /\ last - d.touched > GdMegaMiss => d.megaAlerted

GdPanicOK(g) ==
    \A t \in g.panic : g.time - g.dog[t].touched > (IF GdKill > 0 THEN gdMin(GdKill, GdMultiKill) ELSE GdMultiKill)

GdInv ==
    /\ gd \in GdState /\ gd.now <= gd.time /\ gd.last <= gd.time /\ gd.time >= 0
    /\ \A t \in GdThreads : GdDogOK(gd.dog[t], gd.misses[t], gd.megas[t], gd.time, gd.last)
    /\ GdPanicOK(gd)

\* A watchdog that is touched or made.
LEMMA GdTouchedOK ==
    ASSUME NEW d \in GdDogs, NEW time \in Int, time >= 0, NEW last \in Int, last <= time,
           d.touched = time, d.alert < time, d.missAlerted \/ d.megaAlerted => d.alert # GdNone,
           GdMiss <= GdMegaMiss /\ d.megaAlerted => d.missAlerted
    PROVE  GdDogOK(d, 0, 0, time, last)
<1>1. d.alert \in Int /\ d.touched \in Int
  BY DEF GdDogs
<1>2. GdMiss \in Nat /\ GdMegaMiss \in Nat
  BY GdAssumption
<1>3. d.alert # d.touched /\ d.alert <= d.touched /\ last - d.touched <= 0 /\ 0 <= d.touched /\ d.touched <= time
  BY <1>1
<1>4. ~(last - d.touched > GdMiss) /\ ~(last - d.touched > GdMegaMiss)
  BY <1>1, <1>2, <1>3
<1>. QED
  BY <1>3, <1>4 DEF GdDogOK

\* The check of a thread that is watched: alerts of an earlier touch are forgotten first.
LEMMA GdChecked ==
    ASSUME NEW d \in GdDogs, NEW misses \in Int, NEW megas \in Int, NEW time \in Int, NEW last \in Int, NEW now \in Int,
           now <= time, GdDogOK(d, misses, megas, time, last)
    PROVE  LET b == gdRearm(d)
               a == gdAlert(b, now - d.touched)
           IN  /\ a \in GdDogs /\ a.touched = d.touched /\ a.watched = d.watched
               /\ GdDogOK(a, misses + IF a.missAlerted /\ ~b.missAlerted THEN 1 ELSE 0,
                             megas + IF a.megaAlerted /\ ~b.megaAlerted THEN 1 ELSE 0, time, now)
<1>. DEFINE b == gdRearm(d)
            delta == now - d.touched
            old == d.alert # GdNone /\ d.alert < d.touched
<1>1. d.alert \in Int /\ d.touched \in Int /\ d.missAlerted \in BOOLEAN /\ d.megaAlerted \in BOOLEAN
  BY DEF GdDogs
<1>2. GdMiss \in Nat /\ GdMegaMiss \in Nat /\ GdNone \in Int /\ GdNone < 0
  BY GdAssumption DEF GdNone
<1>3. delta \in Int
  BY <1>1
<1>4. b = IF old THEN [d EXCEPT !.missAlerted = FALSE, !.megaAlerted = FALSE] ELSE d
  BY DEF gdRearm
<1>5. /\ b \in GdDogs /\ b.touched = d.touched /\ b.alert = d.alert /\ b.watched = d.watched
      /\ (b.missAlerted <=> (d.missAlerted /\ ~old)) /\ (b.megaAlerted <=> (d.megaAlerted /\ ~old))
  <2>1. CASE old
    <3>1. b = [d EXCEPT !.missAlerted = FALSE, !.megaAlerted = FALSE]
      BY <1>4, <2>1
    <3>. QED
      BY <2>1, <3>1 DEF GdDogs
  <2>2. CASE ~old
    <3>1. b = d
      BY <1>4, <2>2
    <3>. QED
      BY <2>2, <3>1, <1>1 DEF GdDogs
  <2>. QED
    BY <2>1, <2>2
<1>. HIDE DEF b, delta
<1>6. b.missAlerted \/ b.megaAlerted => b.alert = b.touched
  <2>1. b.missAlerted \/ b.megaAlerted => (d.missAlerted \/ d.megaAlerted) /\ ~old
    BY <1>5
  <2>2. d.missAlerted \/ d.megaAlerted => d.alert # GdNone
    BY DEF GdDogOK
  <2>3. d.alert # GdNone /\ ~old => d.alert = d.touched
    BY <1>1, <1>2 DEF GdDogOK
  <2>. QED
    BY <2>1, <2>2, <2>3, <1>5, Zenon
<1>7. misses = (IF b.missAlerted THEN 1 ELSE 0) /\ megas = (IF b.megaAlerted THEN 1 ELSE 0)
  <2>1. b.missAlerted <=> d.missAlerted /\ d.alert = d.touched
    BY <1>1, <1>2, <1>5, <1>6 DEF GdDogOK
  <2>2. b.megaAlerted <=> d.megaAlerted /\ d.alert = d.touched
    BY <1>1, <1>2, <1>5, <1>6 DEF GdDogOK
  <2>. QED
    BY <2>1, <2>2 DEF GdDogOK
<1>8. GdMiss <= GdMegaMiss /\ b.megaAlerted => b.missAlerted
  BY <1>5 DEF GdDogOK
<1>. DEFINE m == IF delta > GdMiss /\ ~b.missAlerted THEN [b EXCEPT !.alert = b.touched, !.missAlerted = TRUE] ELSE b
            a == gdAlert(b, delta)
<1>9. /\ m \in GdDogs /\ m.touched = d.touched /\ m.watched = d.watched /\ (m.megaAlerted <=> b.megaAlerted)
      /\ (m.missAlerted <=> (b.missAlerted \/ delta > GdMiss))
      /\ m.alert = IF delta > GdMiss /\ ~b.missAlerted THEN d.touched ELSE d.alert
  <2>1. CASE delta > GdMiss /\ ~b.missAlerted
    <3>1. m = [b EXCEPT !.alert = b.touched, !.missAlerted = TRUE]
      BY <2>1
    <3>. HIDE DEF m
    <3>. QED
      BY <2>1, <3>1, <1>1, <1>5 DEF GdDogs
  <2>2. CASE ~(delta > GdMiss /\ ~b.missAlerted)
    <3>1. m = b
      BY <2>2
    <3>2. b.missAlerted \in BOOLEAN
      BY <1>5 DEF GdDogs
    <3>. HIDE DEF m
    <3>. QED
      BY <2>2, <3>1, <3>2, <1>5
  <2>. QED
    BY <2>1, <2>2
<1>10. a = IF delta > GdMegaMiss /\ ~b.megaAlerted THEN [m EXCEPT !.alert = b.touched, !.megaAlerted = TRUE] ELSE m
  BY DEF gdAlert
<1>. HIDE DEF m, a
<1>11. /\ a \in GdDogs /\ a.touched = d.touched /\ a.watched = d.watched
       /\ (a.missAlerted <=> (b.missAlerted \/ delta > GdMiss)) /\ (a.megaAlerted <=> (b.megaAlerted \/ delta > GdMegaMiss))
       /\ a.alert = IF (delta > GdMiss /\ ~b.missAlerted) \/ (delta > GdMegaMiss /\ ~b.megaAlerted) THEN d.touched ELSE d.alert
  <2>1. CASE delta > GdMegaMiss /\ ~b.megaAlerted
    <3>1. a = [m EXCEPT !.alert = b.touched, !.megaAlerted = TRUE]
      BY <1>10, <2>1
    <3>. QED
      BY <2>1, <3>1, <1>1, <1>5, <1>9 DEF GdDogs
  <2>2. CASE ~(delta > GdMegaMiss /\ ~b.megaAlerted)
    <3>1. a = m
      BY <1>10, <2>2
    <3>2. b.megaAlerted \in BOOLEAN
      BY <1>5 DEF GdDogs
    <3>. QED
      BY <2>2, <3>1, <3>2, <1>9
  <2>. QED
    BY <2>1, <2>2
<1>12. a.missAlerted \/ a.megaAlerted => a.alert = a.touched
  BY <1>5, <1>6, <1>11
<1>13. GdMiss <= GdMegaMiss /\ a.megaAlerted => a.missAlerted
  BY <1>2, <1>3, <1>8, <1>11
<1>14. /\ misses + (IF a.missAlerted /\ ~b.missAlerted THEN 1 ELSE 0) = IF a.missAlerted /\ a.alert = a.touched THEN 1 ELSE 0
       /\ megas + (IF a.megaAlerted /\ ~b.megaAlerted THEN 1 ELSE 0) = IF a.megaAlerted /\ a.alert = a.touched THEN 1 ELSE 0
  BY <1>7, <1>11, <1>12
<1>15. 0 <= a.touched /\ a.touched <= time /\ a.alert <= a.touched
  BY <1>1, <1>11 DEF GdDogOK
<1>16. a.missAlerted \/ a.megaAlerted => a.alert # GdNone
  BY <1>1, <1>2, <1>11, <1>12, <1>15
<1>17. /\ now - a.touched > GdMiss => a.missAlerted
       /\ now - a.touched > GdMegaMiss => a.megaAlerted
  BY <1>11 DEF delta
<1>. QED
  BY <1>11, <1>13, <1>14, <1>15, <1>16, <1>17 DEF GdDogOK, a, b, delta

LEMMA GdDogTyped ==
    GdDog \in GdDogs /\ GdDog.touched = 0 /\ GdDog.alert = -1 /\ ~GdDog.missAlerted /\ ~GdDog.megaAlerted /\ ~GdDog.watched
<1>. DEFINE z == 0
            none == GdNone
<1>1. z \in Int /\ z = 0 /\ none \in Int /\ none = -1
  BY DEF GdNone
<1>2. GdDog = [watched |-> FALSE, touched |-> z, alert |-> none, missAlerted |-> FALSE, megaAlerted |-> FALSE, stuck |-> FALSE]
  BY DEF GdDog
<1>. HIDE DEF z, none
<1>. QED
  BY <1>1, <1>2 DEF GdDogs

LEMMA GdInitOK == GdInit => GdInv
<1>. SUFFICES ASSUME GdInit PROVE GdInv
  OBVIOUS
<1>. DEFINE z == 0
            none == GdNone
<1>0. z \in Int /\ z = 0 /\ none \in Int /\ none = GdNone /\ none = -1
  BY DEF GdNone
<1>2. gd = [time |-> z, dog |-> [t \in GdThreads |-> GdDog], now |-> none, last |-> z,
            misses |-> [t \in GdThreads |-> z], megas |-> [t \in GdThreads |-> z], panic |-> {}]
  BY DEF GdInit
<1>. HIDE DEF z, none
<1>3. /\ GdDog \in GdDogs /\ GdDog.touched = 0 /\ GdDog.alert = -1 /\ ~GdDog.missAlerted /\ ~GdDog.megaAlerted
      /\ ~GdDog.watched
  BY GdDogTyped
<1>. DEFINE dogs == [t \in GdThreads |-> GdDog]
            none0 == [t \in GdThreads |-> z]
<1>4. dogs \in GdDogMap /\ none0 \in GdCounts
  BY <1>0, <1>3 DEF GdDogMap, GdCounts
<1>5. \A t \in GdThreads : dogs[t] = GdDog /\ none0[t] = z
  OBVIOUS
<1>. HIDE DEF dogs, none0
<1>6. /\ gd \in GdState /\ gd.dog = dogs /\ gd.misses = none0 /\ gd.megas = none0 /\ gd.time = z /\ gd.last = z
      /\ gd.now = none /\ gd.panic = {}
  BY <1>0, <1>2, <1>4 DEF GdState, dogs, none0
<1>7. GdMiss \in Nat /\ GdMegaMiss \in Nat
  BY GdAssumption
<1>8. GdDogOK(GdDog, 0, 0, 0, 0)
  BY <1>3, <1>7 DEF GdDogOK
<1>. QED
  BY <1>0, <1>5, <1>6, <1>8 DEF GdInv, GdPanicOK

\* One thread's watchdog and counts change, the others stay as they are.
LEMMA GdOneOK ==
    ASSUME GdInv, NEW t \in GdThreads, gd.panic = {}, NEW d \in GdDogs, NEW m \in Int, NEW n \in Int,
           GdDogOK(d, m, n, gd.time, gd.last),
           gd' = [gd EXCEPT !.dog = [@ EXCEPT ![t] = d], !.misses = [@ EXCEPT ![t] = m], !.megas = [@ EXCEPT ![t] = n]]
    PROVE  GdInv'
<1>1. gd \in GdState /\ gd.dog \in GdDogMap /\ gd.misses \in GdCounts /\ gd.megas \in GdCounts
  BY DEF GdInv, GdState
<1>. DEFINE a == [gd.dog EXCEPT ![t] = d]
            b == [gd.misses EXCEPT ![t] = m]
            c == [gd.megas EXCEPT ![t] = n]
<1>2. a \in GdDogMap /\ a[t] = d /\ \A o \in GdThreads \ {t} : a[o] = gd.dog[o]
  BY <1>1 DEF GdDogMap
<1>3. b \in GdCounts /\ b[t] = m /\ \A o \in GdThreads \ {t} : b[o] = gd.misses[o]
  BY <1>1 DEF GdCounts
<1>4. c \in GdCounts /\ c[t] = n /\ \A o \in GdThreads \ {t} : c[o] = gd.megas[o]
  BY <1>1 DEF GdCounts
<1>5. gd' = [gd EXCEPT !.dog = a, !.misses = b, !.megas = c]
  BY <1>1 DEF GdState
<1>. HIDE DEF a, b, c
<1>6. /\ gd' \in GdState /\ gd'.dog = a /\ gd'.misses = b /\ gd'.megas = c /\ gd'.time = gd.time /\ gd'.last = gd.last
      /\ gd'.now = gd.now /\ gd'.panic = {}
  BY <1>1, <1>2, <1>3, <1>4, <1>5 DEF GdState
<1>7. ASSUME NEW o \in GdThreads PROVE GdDogOK(a[o], b[o], c[o], gd.time, gd.last)
  <2>1. CASE o = t
    BY <2>1, <1>2, <1>3, <1>4
  <2>2. CASE o # t
    BY <2>2, <1>2, <1>3, <1>4 DEF GdInv
  <2>. QED
    BY <2>1, <2>2
<1>. QED
  BY <1>6, <1>7 DEF GdInv, GdPanicOK

LEMMA GdTouchOK ==
    ASSUME GdInv, gd.panic = {}, NEW t \in GdThreads, GdTouch(t)
    PROVE  GdInv'
<1>1. /\ gd \in GdState /\ gd.dog \in GdDogMap /\ gd.dog[t] \in GdDogs /\ gd.dog[t].touched # gd.time /\ gd' = gdTouched(gd, t)
      /\ gd.time \in Int /\ gd.last \in Int /\ gd.last <= gd.time /\ gd.time >= 0
      /\ GdDogOK(gd.dog[t], gd.misses[t], gd.megas[t], gd.time, gd.last)
  BY DEF GdInv, GdState, GdTouch, GdDogMap
<1>. DEFINE e == gd.dog[t]
            d == [e EXCEPT !.touched = gd.time]
            z == 0
<1>2. gd' = [gd EXCEPT !.dog = [@ EXCEPT ![t] = d], !.misses = [@ EXCEPT ![t] = z], !.megas = [@ EXCEPT ![t] = z]]
  BY <1>1 DEF gdTouched, GdState, GdDogMap
<1>3. e \in GdDogs /\ GdDogOK(e, gd.misses[t], gd.megas[t], gd.time, gd.last) /\ e.touched # gd.time
  BY <1>1
<1>. HIDE DEF e
<1>4. /\ d \in GdDogs /\ d.touched = gd.time /\ d.alert = e.alert /\ (d.missAlerted <=> e.missAlerted)
      /\ (d.megaAlerted <=> e.megaAlerted)
  BY <1>1, <1>3 DEF GdDogs
<1>. HIDE DEF d
<1>5. e.alert \in Int /\ e.touched \in Int
  BY <1>3 DEF GdDogs
<1>6. d.alert < gd.time /\ (d.missAlerted \/ d.megaAlerted => d.alert # GdNone) /\ (GdMiss <= GdMegaMiss /\ d.megaAlerted => d.missAlerted)
  BY <1>1, <1>3, <1>4, <1>5 DEF GdDogOK
<1>7. GdDogOK(d, 0, 0, gd.time, gd.last)
  BY <1>1, <1>4, <1>6, GdTouchedOK
<1>8. z \in Int /\ GdDogOK(d, z, z, gd.time, gd.last)
  BY <1>7
<1>. HIDE DEF z
<1>. QED
  BY <1>2, <1>4, <1>8, GdOneOK

LEMMA GdCreateOK ==
    ASSUME GdInv, gd.panic = {}, NEW t \in GdThreads, GdCreateWatchDog(t)
    PROVE  GdInv'
<1>1. /\ gd \in GdState /\ gd.dog \in GdDogMap /\ gd.misses \in GdCounts /\ gd.megas \in GdCounts
      /\ gd.time \in Int /\ gd.last \in Int /\ gd.last <= gd.time /\ gd.time >= 0
      /\ gd' = gdTouched([gd EXCEPT !.dog[t] = [GdDog EXCEPT !.watched = TRUE]], t)
  BY DEF GdInv, GdState, GdCreateWatchDog
<1>. DEFINE e == [GdDog EXCEPT !.watched = TRUE]
            d == [e EXCEPT !.touched = gd.time]
            z == 0
<1>2. gd' = [gd EXCEPT !.dog = [@ EXCEPT ![t] = d], !.misses = [@ EXCEPT ![t] = z], !.megas = [@ EXCEPT ![t] = z]]
  <2>. HIDE DEF e
  <2>. DEFINE p == [gd EXCEPT !.dog[t] = e]
  <2>1. p = [gd EXCEPT !.dog = [gd.dog EXCEPT ![t] = e]]
    BY <1>1 DEF GdState
  <2>2. p.time = gd.time /\ p.dog = [gd.dog EXCEPT ![t] = e] /\ p.misses = gd.misses /\ p.megas = gd.megas
    BY <1>1, <2>1 DEF GdState
  <2>3. p.dog[t] = e /\ p.dog \in [GdThreads -> GdDogs \cup {e}]
    BY <1>1, <2>2 DEF GdDogMap
  <2>4. gdTouched(p, t) = [p EXCEPT !.dog = [p.dog EXCEPT ![t] = [p.dog[t] EXCEPT !.touched = p.time]],
                                    !.misses = [p.misses EXCEPT ![t] = z], !.megas = [p.megas EXCEPT ![t] = z]]
    BY DEF gdTouched
  <2>5. [p.dog EXCEPT ![t] = d] = [gd.dog EXCEPT ![t] = d]
    BY <1>1, <2>2 DEF GdDogMap
  <2>. HIDE DEF d
  <2>6. [p.dog[t] EXCEPT !.touched = p.time] = d
    BY <2>2, <2>3 DEF d
  <2>7. gdTouched(p, t) = [p EXCEPT !.dog = [gd.dog EXCEPT ![t] = d], !.misses = [gd.misses EXCEPT ![t] = z], !.megas = [gd.megas EXCEPT ![t] = z]]
    BY <2>2, <2>4, <2>5, <2>6
  <2>8. [p EXCEPT !.dog = [gd.dog EXCEPT ![t] = d], !.misses = [gd.misses EXCEPT ![t] = z], !.megas = [gd.megas EXCEPT ![t] = z]]
        = [gd EXCEPT !.dog = [gd.dog EXCEPT ![t] = d], !.misses = [gd.misses EXCEPT ![t] = z], !.megas = [gd.megas EXCEPT ![t] = z]]
    BY <1>1, <2>1 DEF GdState
  <2>. QED
    BY <1>1, <2>7, <2>8 DEF e
<1>3. GdDog \in GdDogs /\ GdDog.alert = GdNone /\ ~GdDog.missAlerted /\ ~GdDog.megaAlerted
  BY GdDogTyped DEF GdNone
<1>4. GdNone \in Int /\ GdNone < 0
  BY DEF GdNone
<1>5. e \in GdDogs /\ e.alert = GdNone /\ ~e.missAlerted /\ ~e.megaAlerted
  BY <1>3 DEF GdDogs
<1>. HIDE DEF e
<1>6. d \in GdDogs /\ d.touched = gd.time /\ d.alert = GdNone /\ ~d.missAlerted /\ ~d.megaAlerted
  BY <1>1, <1>5 DEF GdDogs
<1>. HIDE DEF d
<1>7. d.alert < gd.time
  BY <1>1, <1>4, <1>6
<1>8. GdDogOK(d, 0, 0, gd.time, gd.last)
  BY <1>1, <1>6, <1>7, GdTouchedOK
<1>9. z \in Int /\ GdDogOK(d, z, z, gd.time, gd.last)
  BY <1>8
<1>. HIDE DEF z
<1>. QED
  BY <1>2, <1>6, <1>9, GdOneOK

\* stopWatching(), and a handler that hangs.
LEMMA GdFlagsOK ==
    ASSUME GdInv, gd.panic = {}, NEW t \in GdThreads, GdStopWatching(t) \/ GdStuck(t)
    PROVE  GdInv'
<1>1. gd \in GdState /\ gd.dog \in GdDogMap /\ gd.misses \in GdCounts /\ gd.megas \in GdCounts /\ gd.dog[t] \in GdDogs
  BY DEF GdInv, GdState, GdDogMap
<1>. DEFINE e == gd.dog[t]
<1>2. PICK d : /\ d = [e EXCEPT !.watched = FALSE] \/ d = [e EXCEPT !.stuck = ~@]
               /\ gd' = [gd EXCEPT !.dog = [gd.dog EXCEPT ![t] = d]]
  <2>1. CASE GdStopWatching(t)
    <3>. DEFINE x == [e EXCEPT !.watched = FALSE]
    <3>1. gd' = [gd EXCEPT !.dog = [gd.dog EXCEPT ![t] = x]]
      BY <1>1, <2>1 DEF GdStopWatching, GdState
    <3>. QED
      BY <3>1
  <2>2. CASE GdStuck(t)
    <3>. DEFINE x == [e EXCEPT !.stuck = ~@]
    <3>1. gd' = [gd EXCEPT !.dog = [gd.dog EXCEPT ![t] = x]]
      BY <1>1, <2>2 DEF GdStuck, GdState
    <3>. QED
      BY <3>1
  <2>. QED
    BY <2>1, <2>2
<1>3. e \in GdDogs /\ GdDogOK(e, gd.misses[t], gd.megas[t], gd.time, gd.last)
  BY <1>1 DEF GdInv
<1>. HIDE DEF e
<1>4. /\ d \in GdDogs /\ d.touched = e.touched /\ d.alert = e.alert /\ (d.missAlerted <=> e.missAlerted)
      /\ (d.megaAlerted <=> e.megaAlerted) /\ (d.watched => e.watched)
  <2>1. CASE d = [e EXCEPT !.watched = FALSE]
    BY <1>3, <2>1 DEF GdDogs
  <2>2. CASE d = [e EXCEPT !.stuck = ~@]
    BY <1>3, <2>2 DEF GdDogs
  <2>. QED
    BY <1>2, <2>1, <2>2
<1>5. GdDogOK(d, gd.misses[t], gd.megas[t], gd.time, gd.last)
  BY <1>3, <1>4 DEF GdDogOK
<1>6. gd.misses[t] \in Int /\ gd.megas[t] \in Int
  BY <1>1 DEF GdCounts
<1>7. [gd.misses EXCEPT ![t] = gd.misses[t]] = gd.misses /\ [gd.megas EXCEPT ![t] = gd.megas[t]] = gd.megas
  BY <1>1 DEF GdCounts
<1>8. gd' = [gd EXCEPT !.dog = [gd.dog EXCEPT ![t] = d], !.misses = gd.misses, !.megas = gd.megas]
  BY <1>1, <1>2 DEF GdState
<1>9. gd' = [gd EXCEPT !.dog = [@ EXCEPT ![t] = d], !.misses = [@ EXCEPT ![t] = gd.misses[t]], !.megas = [@ EXCEPT ![t] = gd.megas[t]]]
  BY <1>7, <1>8
<1>. QED
  BY <1>4, <1>5, <1>6, <1>9, GdOneOK

LEMMA GdTimeOK ==
    ASSUME GdInv, gd.panic = {}, GdTick \/ GdReadTime
    PROVE  GdInv'
<1>1. gd \in GdState /\ gd.time \in Int /\ gd.now \in Int /\ gd.last \in Int /\ gd.now <= gd.time /\ gd.last <= gd.time /\ gd.time >= 0
  BY DEF GdInv, GdState
<1>2. PICK time \in Int, now \in Int : /\ gd.time <= time /\ now <= time
                                       /\ gd' = [gd EXCEPT !.time = time, !.now = now]
  <2>1. CASE GdTick
    <3>. DEFINE x == gd.time + 1
    <3>1. x \in Int /\ gd.time <= x /\ gd.now <= x
      BY <1>1
    <3>2. gd' = [gd EXCEPT !.time = x]
      BY <2>1 DEF GdTick
    <3>. HIDE DEF x
    <3>3. gd' = [gd EXCEPT !.time = x, !.now = gd.now]
      BY <1>1, <3>2 DEF GdState
    <3>. QED
      BY <1>1, <3>1, <3>3
  <2>2. CASE GdReadTime
    <3>1. gd' = [gd EXCEPT !.time = gd.time, !.now = gd.time]
      BY <1>1, <2>2 DEF GdReadTime, GdState
    <3>2. gd.time <= gd.time
      BY <1>1
    <3>. QED
      BY <1>1, <3>1, <3>2
  <2>. QED
    BY <2>1, <2>2
<1>3. /\ gd' \in GdState /\ gd'.dog = gd.dog /\ gd'.misses = gd.misses /\ gd'.megas = gd.megas /\ gd'.time = time /\ gd'.now = now
      /\ gd'.last = gd.last /\ gd'.panic = {}
  BY <1>1, <1>2 DEF GdState
<1>4. ASSUME NEW t \in GdThreads PROVE GdDogOK(gd.dog[t], gd.misses[t], gd.megas[t], time, gd.last)
  <2>1. gd.dog[t].touched \in Int
    BY <1>1 DEF GdState, GdDogMap, GdDogs
  <2>2. GdDogOK(gd.dog[t], gd.misses[t], gd.megas[t], gd.time, gd.last)
    BY DEF GdInv
  <2>3. gd.dog[t].touched <= time
    BY <1>1, <1>2, <2>1, <2>2 DEF GdDogOK
  <2>. QED
    BY <2>2, <2>3 DEF GdDogOK
<1>. QED
  BY <1>1, <1>2, <1>3, <1>4 DEF GdInv, GdPanicOK

\* step(): every watchdog is checked against the time that was read, and the threads
\* that end the process were silent at that time.
LEMMA GdCheckOK ==
    ASSUME GdInv, gd.panic = {}, GdCheck
    PROVE  GdInv'
<1>1. /\ gd \in GdState /\ gd.dog \in GdDogMap /\ gd.misses \in GdCounts /\ gd.megas \in GdCounts
      /\ gd.time \in Int /\ gd.now \in Int /\ gd.now <= gd.time /\ gd.time >= 0 /\ gd.last \in Int
  BY DEF GdInv, GdState
<1>. DEFINE watched == {t \in GdThreads : gd.dog[t].watched}
            delta(t) == gd.now - gd.dog[t].touched
            before(t) == gdRearm(gd.dog[t])
            after(t) == gdAlert(before(t), delta(t))
            killed == {t \in watched : GdKill > 0 /\ delta(t) > GdKill}
            multi == {t \in watched : GdMultiKill > 0 /\ delta(t) > GdMultiKill}
            dogs == [t \in GdThreads |-> IF t \in watched THEN after(t) ELSE gd.dog[t]]
            ms == [t \in GdThreads |-> gd.misses[t] + IF t \in watched /\ after(t).missAlerted /\ ~before(t).missAlerted THEN 1 ELSE 0]
            gs == [t \in GdThreads |-> gd.megas[t] + IF t \in watched /\ after(t).megaAlerted /\ ~before(t).megaAlerted THEN 1 ELSE 0]
            ends == IF killed # {} THEN killed ELSE IF Cardinality(multi) > 1 THEN multi ELSE {}
<1>2. gd' = [gd EXCEPT !.now = GdNone, !.last = gd.now, !.dog = dogs, !.misses = ms, !.megas = gs, !.panic = ends]
  BY <1>1 DEF GdCheck
<1>3. ASSUME NEW t \in GdThreads
      PROVE  /\ dogs[t] \in GdDogs /\ dogs[t].touched = gd.dog[t].touched /\ ms[t] \in Int /\ gs[t] \in Int
             /\ GdDogOK(dogs[t], ms[t], gs[t], gd.time, gd.now)
  <2>1. gd.dog[t] \in GdDogs /\ gd.misses[t] \in Int /\ gd.megas[t] \in Int /\ gd.dog[t].touched \in Int
    BY <1>1 DEF GdDogMap, GdCounts, GdDogs
  <2>2. GdDogOK(gd.dog[t], gd.misses[t], gd.megas[t], gd.time, gd.last)
    BY DEF GdInv
  <2>3. CASE t \in watched
    <3>1. dogs[t] = after(t)
      BY <2>3
    <3>2. /\ ms[t] = gd.misses[t] + IF after(t).missAlerted /\ ~before(t).missAlerted THEN 1 ELSE 0
          /\ gs[t] = gd.megas[t] + IF after(t).megaAlerted /\ ~before(t).megaAlerted THEN 1 ELSE 0
      BY <2>3
    <3>3. /\ after(t) \in GdDogs /\ after(t).touched = gd.dog[t].touched
          /\ GdDogOK(after(t), gd.misses[t] + IF after(t).missAlerted /\ ~before(t).missAlerted THEN 1 ELSE 0,
                               gd.megas[t] + IF after(t).megaAlerted /\ ~before(t).megaAlerted THEN 1 ELSE 0, gd.time, gd.now)
      BY <1>1, <2>1, <2>2, GdChecked
    <3>. HIDE DEF dogs, ms, gs, before, after, watched
    <3>. QED
      BY <2>1, <3>1, <3>2, <3>3
  <2>4. CASE t \notin watched
    <3>1. dogs[t] = gd.dog[t] /\ ~gd.dog[t].watched
      BY <2>4
    <3>2. ms[t] = gd.misses[t] /\ gs[t] = gd.megas[t]
      BY <2>1, <2>4
    <3>. HIDE DEF dogs, ms, gs, watched
    <3>3. GdDogOK(gd.dog[t], gd.misses[t], gd.megas[t], gd.time, gd.now)
      BY <2>2, <3>1 DEF GdDogOK
    <3>. QED
      BY <2>1, <3>1, <3>2, <3>3
  <2>. QED
    BY <2>3, <2>4
<1>4. dogs \in GdDogMap /\ ms \in GdCounts /\ gs \in GdCounts
  <2>1. dogs = [t \in GdThreads |-> dogs[t]] /\ ms = [t \in GdThreads |-> ms[t]] /\ gs = [t \in GdThreads |-> gs[t]]
    OBVIOUS
  <2>. HIDE DEF dogs, ms, gs
  <2>. QED
    BY <1>3, <2>1 DEF GdDogMap, GdCounts
<1>5. /\ ends \in SUBSET GdThreads
      /\ \A t \in ends : (GdKill > 0 /\ delta(t) > GdKill) \/ (GdMultiKill > 0 /\ delta(t) > GdMultiKill)
  OBVIOUS
<1>6. GdNone \in Int /\ GdNone <= gd.time
  BY <1>1 DEF GdNone
<1>7. ASSUME NEW t \in ends
      PROVE  gd.time - gd.dog[t].touched > (IF GdKill > 0 THEN gdMin(GdKill, GdMultiKill) ELSE GdMultiKill)
  <2>1. gd.dog[t].touched \in Int
    BY <1>1, <1>5 DEF GdDogMap, GdDogs
  <2>2. gd.time - gd.dog[t].touched >= delta(t) /\ delta(t) \in Int
    BY <1>1, <2>1
  <2>3. GdKill \in Nat /\ GdMultiKill \in Nat
    BY GdAssumption
  <2>. DEFINE x == delta(t)
              y == gd.time - gd.dog[t].touched
  <2>4. y >= x /\ x \in Int /\ y \in Int
    BY <1>1, <2>1, <2>2
  <2>5. (GdKill > 0 /\ x > GdKill) \/ (GdMultiKill > 0 /\ x > GdMultiKill)
    BY <1>5
  <2>. HIDE DEF x, y
  <2>6. y > (IF GdKill > 0 THEN gdMin(GdKill, GdMultiKill) ELSE GdMultiKill)
    BY <2>3, <2>4, <2>5 DEF gdMin
  <2>. QED
    BY <2>6 DEF y
<1>. HIDE DEF dogs, ms, gs, ends
<1>8. /\ gd' \in GdState /\ gd'.dog = dogs /\ gd'.misses = ms /\ gd'.megas = gs /\ gd'.panic = ends /\ gd'.time = gd.time
      /\ gd'.last = gd.now /\ gd'.now = GdNone
  BY <1>1, <1>2, <1>4, <1>5, <1>6 DEF GdState
<1>9. \A t \in ends : dogs[t].touched = gd.dog[t].touched
  BY <1>3, <1>5
<1>. QED
  BY <1>1, <1>3, <1>6, <1>7, <1>8, <1>9 DEF GdInv, GdPanicOK

LEMMA GdStepOK == GdInv /\ [GdNext]_gd => GdInv'
<1>. SUFFICES ASSUME GdInv, [GdNext]_gd PROVE GdInv'
  OBVIOUS
<1>1. CASE UNCHANGED gd
  BY <1>1 DEF GdInv, GdPanicOK
<1>2. CASE GdNext
  <2>1. gd.panic = {}
    BY <1>2 DEF GdNext
  <2>2. CASE GdTick \/ GdReadTime
    BY <2>1, <2>2, GdTimeOK
  <2>3. CASE GdCheck
    BY <2>1, <2>3, GdCheckOK
  <2>4. CASE \E t \in GdThreads : GdCreateWatchDog(t) \/ GdStopWatching(t) \/ GdTouch(t) \/ GdStuck(t)
    BY <2>1, <2>4, GdCreateOK, GdFlagsOK, GdTouchOK
  <2>. QED
    BY <1>2, <2>2, <2>3, <2>4 DEF GdNext
<1>. QED
  BY <1>1, <1>2

LEMMA GdInvSound == GdInv => GdSound
<1>. SUFFICES ASSUME GdInv PROVE GdSound
  OBVIOUS
<1>1. ASSUME NEW t \in GdThreads
      PROVE  /\ gd.misses[t] <= 1 /\ gd.megas[t] <= IF GdMiss <= GdMegaMiss THEN gd.misses[t] ELSE 1
             /\ gd.dog[t].watched /\ gd.last - gd.dog[t].touched > GdMiss
                  => gd.dog[t].missAlerted /\ (gd.last - gd.dog[t].touched > GdMegaMiss => gd.dog[t].megaAlerted)
  <2>1. GdDogOK(gd.dog[t], gd.misses[t], gd.megas[t], gd.time, gd.last)
    BY DEF GdInv
  <2>. QED
    BY <2>1 DEF GdDogOK
<1>2. GdPanicOK(gd)
  BY DEF GdInv
<1>. QED
  BY <1>1, <1>2 DEF GdSound, GdPanicOK

\* GdSound, for any threads and any four timeouts (GuardDogImpl): alerts are counted once
\* for each silence, a process is ended for a thread that was silent too long only, and
\* no silence the check saw goes without its alert.
THEOREM GdSoundHolds == GdSpec => []GdSound
  BY GdInitOK, GdStepOK, GdInvSound, PTL DEF GdSpec

-----------------------------------------------------------------------------
(***************************************************************************)
(* Thread local slots.  A worker is behind the main thread by the closures *)
(* it has not run.  TsFinds says what closure k finds at an index: what    *)
(* the last set() or removal of the index before it left there, or what    *)
(* the worker has now.  At the end of the queue that is what the main      *)
(* thread has.                                                             *)
(***************************************************************************)

TsIndices == Nat \ {0}
TsPosts == [type : {"set", "clear", "use"}, index : TsIndices, owner : Nat \ {0}]
TsData == Seq(Nat)
TsDataMap == [TsThreads -> TsData]
TsQueues == Seq(TsPosts)
TsQueueMap == [TsWorkers -> TsQueues]
TsIndexMap == [1..TsMaxOwners -> Nat]
TsState == [slots : TsData, index : TsIndexMap, owners : Nat, set : SUBSET Nat, data : TsDataMap, posts : TsQueueMap,
            shutdown : BOOLEAN, down : SUBSET TsThreads, ran : BOOLEAN]

TsAt(d, i) == IF i \in DOMAIN d THEN d[i] ELSE TsNull
TsWrites(m, i) == m.type # "use" /\ m.index = i
TsLeaves(m) == IF m.type = "set" THEN m.owner ELSE TsNull

TsFinds(q, d, i, k, v) ==
    \/ \E j \in 1..(k - 1) : /\ TsWrites(q[j], i) /\ v = TsLeaves(q[j])
                             /\ \A l \in 1..(k - 1) : l > j => ~TsWrites(q[l], i)
    \/ (\A j \in 1..(k - 1) : ~TsWrites(q[j], i)) /\ v = TsAt(d, i)

\* The object a thread that is not behind has at index i.
TsShould(slots, set, i) == IF TsAt(slots, i) \in set THEN TsAt(slots, i) ELSE TsNull

TsWorkerOK(q, d, slots, set) ==
    /\ \A k \in 1..Len(q) : q[k].type = "use" => TsFinds(q, d, q[k].index, k, q[k].owner)
    /\ \A i \in TsIndices : TsFinds(q, d, i, Len(q) + 1, TsShould(slots, set, i))

TsSlotsOK(p) ==
    /\ p.owners <= TsMaxOwners /\ p.set \subseteq 1..p.owners
    /\ \A i \in DOMAIN p.slots : p.slots[i] # TsNull => p.slots[i] \in 1..p.owners /\ p.index[p.slots[i]] = i

TsMainOK(d, slots, set) == \A i \in TsIndices : TsAt(d, i) = TsShould(slots, set, i)

TsOK(p) ==
    /\ p \in TsState /\ TsSlotsOK(p) /\ p.ran
    /\ "main" \notin p.down => TsMainOK(p.data["main"], p.slots, p.set)
    /\ \A w \in TsWorkers : w \notin p.down => TsWorkerOK(p.posts[w], p.data[w], p.slots, p.set)

LEMMA TsPostTyped ==
    ASSUME NEW q \in TsQueues, NEW k \in 1..Len(q)
    PROVE  q[k] \in TsPosts /\ q[k].type \in {"set", "clear", "use"} /\ q[k].index \in TsIndices /\ q[k].owner \in Nat \ {0}
<1>1. q[k] \in TsPosts
  BY DEF TsQueues
<1>. QED
  BY <1>1 DEF TsPosts

LEMMA TsAppended ==
    ASSUME NEW q \in TsQueues, NEW m \in TsPosts
    PROVE  /\ Append(q, m) \in TsQueues /\ Len(Append(q, m)) = Len(q) + 1 /\ Len(q) \in Nat
           /\ Append(q, m)[Len(q) + 1] = m
           /\ \A k \in 1..Len(q) : Append(q, m)[k] = q[k]
  BY DEF TsQueues

LEMMA TsFindsBefore ==
    ASSUME NEW q \in TsQueues, NEW m \in TsPosts, NEW d, NEW i, NEW k \in 1..(Len(q) + 1), NEW v, TsFinds(q, d, i, k, v)
    PROVE  TsFinds(Append(q, m), d, i, k, v)
<1>. DEFINE r == Append(q, m)
<1>1. Len(q) \in Nat /\ \A j \in 1..Len(q) : r[j] = q[j]
  BY TsAppended
<1>. HIDE DEF r
<1>2. \A j \in 1..(k - 1) : r[j] = q[j]
  BY <1>1
<1>. QED
  BY <1>2 DEF TsFinds, r

LEMMA TsFindsAtEnd ==
    ASSUME NEW q \in TsQueues, NEW m \in TsPosts, NEW d, NEW i, NEW v, TsFinds(q, d, i, Len(q) + 1, v)
    PROVE  TsFinds(Append(q, m), d, i, Len(Append(q, m)) + 1, IF TsWrites(m, i) THEN TsLeaves(m) ELSE v)
<1>. DEFINE r == Append(q, m)
            n == Len(q)
<1>1. n \in Nat /\ Len(r) = n + 1 /\ r[n + 1] = m /\ \A j \in 1..n : r[j] = q[j]
  BY TsAppended
<1>2. TsFinds(q, d, i, n + 1, v)
  OBVIOUS
<1>. HIDE DEF r, n
<1>3. 1..((n + 1) + 1 - 1) = 1..(n + 1) /\ 1..(n + 1 - 1) = 1..n
  BY <1>1
<1>4. CASE TsWrites(m, i)
  <2>1. /\ n + 1 \in 1..(n + 1) /\ TsWrites(r[n + 1], i) /\ TsLeaves(m) = TsLeaves(r[n + 1])
        /\ \A l \in 1..(n + 1) : ~(l > n + 1)
    BY <1>1, <1>4
  <2>. DEFINE v2 == TsLeaves(m)
  <2>2. v2 = TsLeaves(r[n + 1]) /\ v2 = IF TsWrites(m, i) THEN TsLeaves(m) ELSE v
    BY <1>4, <2>1
  <2>. HIDE DEF v2
  <2>3. TsFinds(r, d, i, (n + 1) + 1, v2)
    <3>1. \E j \in 1..(n + 1) : /\ TsWrites(r[j], i) /\ v2 = TsLeaves(r[j])
                                /\ \A l \in 1..(n + 1) : l > j => ~TsWrites(r[l], i)
      BY <2>1, <2>2
    <3>. DEFINE k2 == n + 1 + 1
    <3>2. 1..(k2 - 1) = 1..(n + 1)
      BY <1>1
    <3>. HIDE DEF k2
    <3>3. TsFinds(r, d, i, k2, v2)
      BY <3>1, <3>2 DEF TsFinds
    <3>. QED
      BY <3>3 DEF k2
  <2>4. Len(Append(q, m)) + 1 = n + 1 + 1 /\ Append(q, m) = r
    BY <1>1 DEF r
  <2>. QED
    BY <2>2, <2>3, <2>4
<1>5. CASE ~TsWrites(m, i)
  <2>1. CASE \E j \in 1..n : TsWrites(q[j], i) /\ v = TsLeaves(q[j]) /\ \A l \in 1..n : l > j => ~TsWrites(q[l], i)
    <3>1. PICK j \in 1..n : TsWrites(q[j], i) /\ v = TsLeaves(q[j]) /\ \A l \in 1..n : l > j => ~TsWrites(q[l], i)
      BY <2>1
    <3>2. j \in 1..(n + 1) /\ TsWrites(r[j], i) /\ v = TsLeaves(r[j])
      BY <1>1, <3>1
    <3>3. ASSUME NEW l \in 1..(n + 1), l > j PROVE ~TsWrites(r[l], i)
      <4>1. CASE l = n + 1
        BY <4>1, <1>1, <1>5
      <4>2. CASE l # n + 1
        <5>1. l \in 1..n
          BY <4>2, <1>1
        <5>. QED
          BY <5>1, <3>1, <3>3, <1>1
      <4>. QED
        BY <4>1, <4>2
    <3>. DEFINE k2 == n + 1 + 1
    <3>4. 1..(k2 - 1) = 1..(n + 1) /\ Len(Append(q, m)) + 1 = k2 /\ Append(q, m) = r
      BY <1>1 DEF r
    <3>. HIDE DEF k2
    <3>5. TsFinds(r, d, i, k2, v)
      BY <3>2, <3>3, <3>4 DEF TsFinds
    <3>. QED
      BY <1>5, <3>4, <3>5
  <2>2. CASE (\A j \in 1..n : ~TsWrites(q[j], i)) /\ v = TsAt(d, i)
    <3>1. ASSUME NEW j \in 1..(n + 1) PROVE ~TsWrites(r[j], i)
      <4>1. CASE j = n + 1
        BY <4>1, <1>1, <1>5
      <4>2. CASE j # n + 1
        <5>1. j \in 1..n
          BY <4>2, <1>1
        <5>. QED
          BY <5>1, <2>2, <1>1
      <4>. QED
        BY <4>1, <4>2
    <3>. QED
      BY <1>1, <1>3, <1>5, <2>2, <3>1 DEF TsFinds, r
  <2>. QED
    BY <1>2, <1>3, <2>1, <2>2 DEF TsFinds
<1>. QED
  BY <1>4, <1>5

\* The first closure is run.
LEMMA TsFindsRun ==
    ASSUME NEW q \in TsQueues, q # <<>>, NEW d, NEW e, NEW i, NEW k \in 1..Len(q), NEW v, TsFinds(q, d, i, k + 1, v),
           TsAt(e, i) = IF TsWrites(Head(q), i) THEN TsLeaves(Head(q)) ELSE TsAt(d, i)
    PROVE  TsFinds(Tail(q), e, i, k, v)
<1>. DEFINE r == Tail(q)
            n == Len(q)
<1>1. n \in Nat /\ Len(r) = n - 1 /\ Head(q) = q[1] /\ \A j \in 1..(n - 1) : r[j] = q[j + 1]
  BY DEF TsQueues
<1>. HIDE DEF r, n
<1>2. k \in 1..n
  BY DEF n
<1>3. 1..(k + 1 - 1) = 1..k /\ 1 \in 1..k /\ \A j \in 1..(k - 1) : j + 1 \in 1..k /\ j \in 1..(n - 1)
  BY <1>1, <1>2
<1>4. CASE \E j \in 1..k : TsWrites(q[j], i) /\ v = TsLeaves(q[j]) /\ \A l \in 1..k : l > j => ~TsWrites(q[l], i)
  <2>1. PICK j \in 1..k : TsWrites(q[j], i) /\ v = TsLeaves(q[j]) /\ \A l \in 1..k : l > j => ~TsWrites(q[l], i)
    BY <1>4
  <2>2. CASE j = 1
    <3>1. \A l \in 1..(k - 1) : ~TsWrites(r[l], i)
      BY <1>1, <1>2, <1>3, <2>1, <2>2
    <3>2. v = TsAt(e, i)
      BY <1>1, <2>1, <2>2
    <3>. QED
      BY <3>1, <3>2 DEF TsFinds, r
  <2>3. CASE j # 1
    <3>1. j - 1 \in 1..(k - 1) /\ r[j - 1] = q[j]
      BY <1>1, <1>2, <2>3
    <3>2. ASSUME NEW l \in 1..(k - 1), l > j - 1 PROVE ~TsWrites(r[l], i)
      <4>1. l + 1 \in 1..k /\ l + 1 > j /\ r[l] = q[l + 1]
        BY <1>1, <1>2, <1>3, <3>2
      <4>. QED
        BY <4>1, <2>1
    <3>. QED
      BY <2>1, <3>1, <3>2 DEF TsFinds, r
  <2>. QED
    BY <2>2, <2>3
<1>5. CASE (\A j \in 1..k : ~TsWrites(q[j], i)) /\ v = TsAt(d, i)
  <2>1. \A l \in 1..(k - 1) : ~TsWrites(r[l], i)
    BY <1>1, <1>3, <1>5
  <2>2. v = TsAt(e, i)
    BY <1>1, <1>3, <1>5
  <2>. QED
    BY <2>1, <2>2 DEF TsFinds, r
<1>. QED
  BY <1>3, <1>4, <1>5 DEF TsFinds

LEMMA TsFindsFirst ==
    ASSUME NEW q, NEW d, NEW i, NEW v, TsFinds(q, d, i, 1, v)
    PROVE  v = TsAt(d, i)
<1>1. 1..(1 - 1) = {}
  OBVIOUS
<1>. QED
  BY <1>1 DEF TsFinds

\* setThreadLocal() and the closure of removeSlot().
LEMMA TsSetAt ==
    ASSUME NEW d \in TsData, NEW i \in TsIndices, NEW o \in Nat
    PROVE  /\ tsSetThreadLocal(d, i, o) \in TsData
           /\ \A x \in TsIndices : TsAt(tsSetThreadLocal(d, i, o), x) = IF x = i THEN o ELSE TsAt(d, x)
<1>. DEFINE n == IF Len(d) < i THEN i ELSE Len(d)
            f == [k \in 1..n |-> IF k = i THEN o ELSE IF k <= Len(d) THEN d[k] ELSE TsNull]
<1>1. f = tsSetThreadLocal(d, i, o)
  BY DEF tsSetThreadLocal
<1>2. Len(d) \in Nat /\ DOMAIN d = 1..Len(d) /\ \A k \in 1..Len(d) : d[k] \in Nat
  BY DEF TsData
<1>3. n \in Nat /\ n >= i /\ n >= Len(d) /\ (n = i \/ n = Len(d))
  BY <1>2 DEF TsIndices
<1>4. \A k \in 1..n : (IF k = i THEN o ELSE IF k <= Len(d) THEN d[k] ELSE TsNull) \in Nat
  BY <1>2 DEF TsNull
<1>. HIDE DEF n
<1>5. f \in [1..n -> Nat]
  BY <1>4
<1>6. f \in TsData
  BY <1>3, <1>5 DEF TsData
<1>7. \A k \in 1..n : f[k] = IF k = i THEN o ELSE IF k <= Len(d) THEN d[k] ELSE TsNull
  OBVIOUS
<1>8. DOMAIN f = 1..n
  OBVIOUS
<1>. HIDE DEF f
<1>9. ASSUME NEW x \in TsIndices PROVE TsAt(f, x) = IF x = i THEN o ELSE TsAt(d, x)
  <2>. DEFINE m == Len(d)
  <2>1. m \in Nat /\ DOMAIN d = 1..m /\ n >= m /\ (n = i \/ n = m)
    BY <1>2, <1>3
  <2>2. \A k \in 1..n : f[k] = IF k = i THEN o ELSE IF k <= m THEN d[k] ELSE TsNull
    BY <1>7
  <2>. HIDE DEF m
  <2>3. x \in Nat /\ x > 0 /\ i \in Nat /\ i > 0
    BY DEF TsIndices
  <2>4. TsAt(f, x) = IF x \in 1..n THEN f[x] ELSE TsNull
    BY <1>8 DEF TsAt
  <2>5. TsAt(d, x) = IF x \in 1..m THEN d[x] ELSE TsNull
    BY <2>1 DEF TsAt
  <2>6. CASE x = i
    <3>1. x \in 1..n
      BY <2>3, <2>6, <1>3
    <3>. QED
      BY <3>1, <2>2, <2>4, <2>6
  <2>7. CASE x # i /\ x \in 1..m
    <3>1. x \in 1..n /\ x <= m
      BY <2>1, <2>3, <2>7, <1>3
    <3>. QED
      BY <3>1, <2>2, <2>4, <2>5, <2>7
  <2>8. CASE x # i /\ x \notin 1..m
    <3>1. x \in 1..n => ~(x <= m)
      BY <2>1, <2>3, <2>8
    <3>2. TsAt(f, x) = TsNull
      BY <3>1, <2>2, <2>4, <2>8
    <3>. QED
      BY <3>2, <2>5, <2>8
  <2>. QED
    BY <2>6, <2>7, <2>8
<1>. QED
  BY <1>1, <1>6, <1>9

LEMMA TsClearAt ==
    ASSUME NEW d \in TsData, NEW i \in TsIndices
    PROVE  /\ tsClear(d, i) \in TsData
           /\ \A x \in TsIndices : TsAt(tsClear(d, i), x) = IF x = i THEN TsNull ELSE TsAt(d, x)
<1>1. Len(d) \in Nat /\ DOMAIN d = 1..Len(d)
  BY DEF TsData
<1>2. CASE i <= Len(d)
  <2>. DEFINE e == [d EXCEPT ![i] = TsNull]
  <2>1. tsClear(d, i) = e
    BY <1>2 DEF tsClear
  <2>2. e \in TsData /\ DOMAIN e = 1..Len(d)
    BY <1>1, <1>2 DEF TsData, TsIndices, TsNull
  <2>3. i \in 1..Len(d)
    BY <1>1, <1>2 DEF TsIndices
  <2>4. \A x \in 1..Len(d) : e[x] = IF x = i THEN TsNull ELSE d[x]
    BY <1>1 DEF TsData
  <2>. HIDE DEF e
  <2>. QED
    BY <1>1, <2>1, <2>2, <2>3, <2>4 DEF TsAt
<1>3. CASE ~(i <= Len(d))
  <2>1. tsClear(d, i) = d
    BY <1>3 DEF tsClear
  <2>2. i \notin DOMAIN d
    BY <1>1, <1>3
  <2>. QED
    BY <2>1, <2>2 DEF TsAt
<1>. QED
  BY <1>2, <1>3

LEMMA TsWorkerPosts ==
    ASSUME NEW q \in TsQueues, NEW d, NEW slots, NEW set, NEW slots2, NEW set2, NEW m \in TsPosts,
           TsWorkerOK(q, d, slots, set), m.type = "use" => TsShould(slots, set, m.index) = m.owner,
           \A i \in TsIndices : TsShould(slots2, set2, i) = IF TsWrites(m, i) THEN TsLeaves(m) ELSE TsShould(slots, set, i)
    PROVE  TsWorkerOK(Append(q, m), d, slots2, set2)
<1>. DEFINE r == Append(q, m)
            n == Len(q)
<1>1. n \in Nat /\ Len(r) = n + 1 /\ r[n + 1] = m /\ \A j \in 1..n : r[j] = q[j]
  BY TsAppended
<1>2. m.index \in TsIndices
  BY DEF TsPosts
<1>3. /\ \A k \in 1..n : q[k].type = "use" => TsFinds(q, d, q[k].index, k, q[k].owner)
      /\ \A i \in TsIndices : TsFinds(q, d, i, n + 1, TsShould(slots, set, i))
  BY DEF TsWorkerOK
<1>4. ASSUME NEW i \in TsIndices PROVE TsFinds(r, d, i, Len(r) + 1, TsShould(slots2, set2, i))
  <2>. DEFINE v == TsShould(slots, set, i)
  <2>1. TsFinds(q, d, i, Len(q) + 1, v)
    BY <1>3
  <2>2. TsShould(slots2, set2, i) = IF TsWrites(m, i) THEN TsLeaves(m) ELSE v
    BY <1>4
  <2>. HIDE DEF v
  <2>. QED
    BY <2>1, <2>2, TsFindsAtEnd
<1>5. ASSUME NEW k \in 1..Len(r), r[k].type = "use" PROVE TsFinds(r, d, r[k].index, k, r[k].owner)
  <2>1. CASE k = n + 1
    <3>1. r[k] = m /\ m.type = "use"
      BY <1>1, <1>5, <2>1
    <3>2. TsFinds(q, d, m.index, n + 1, m.owner)
      BY <3>1, <1>2, <1>3
    <3>3. n + 1 \in 1..(Len(q) + 1)
      BY <1>1
    <3>4. TsFinds(r, d, m.index, n + 1, m.owner)
      BY <3>2, <3>3, TsFindsBefore
    <3>. QED
      BY <3>1, <3>4, <2>1
  <2>2. CASE k # n + 1
    <3>1. k \in 1..n /\ r[k] = q[k] /\ k \in 1..(Len(q) + 1)
      BY <1>1, <2>2
    <3>2. TsFinds(q, d, q[k].index, k, q[k].owner)
      BY <1>3, <1>5, <3>1
    <3>3. TsFinds(r, d, q[k].index, k, q[k].owner)
      BY <3>1, <3>2, TsFindsBefore
    <3>. QED
      BY <3>1, <3>3
  <2>. QED
    BY <2>1, <2>2
<1>. HIDE DEF r, n
<1>6. TsWorkerOK(r, d, slots2, set2)
  BY <1>4, <1>5 DEF TsWorkerOK
<1>. QED
  BY <1>6 DEF r

LEMMA TsWorkerRuns ==
    ASSUME NEW q \in TsQueues, q # <<>>, NEW d, NEW e, NEW slots, NEW set, TsWorkerOK(q, d, slots, set),
           \A i \in TsIndices : TsAt(e, i) = IF TsWrites(Head(q), i) THEN TsLeaves(Head(q)) ELSE TsAt(d, i)
    PROVE  TsWorkerOK(Tail(q), e, slots, set)
<1>. DEFINE r == Tail(q)
            n == Len(q)
<1>1. n \in Nat /\ n > 0 /\ Len(r) = n - 1 /\ \A j \in 1..(n - 1) : r[j] = q[j + 1]
  BY DEF TsQueues
<1>3. /\ \A k \in 1..n : q[k].type = "use" => TsFinds(q, d, q[k].index, k, q[k].owner)
      /\ \A i \in TsIndices : TsFinds(q, d, i, n + 1, TsShould(slots, set, i))
  BY DEF TsWorkerOK
<1>4. ASSUME NEW i \in TsIndices PROVE TsFinds(r, e, i, Len(r) + 1, TsShould(slots, set, i))
  <2>1. n \in 1..Len(q) /\ TsFinds(q, d, i, n + 1, TsShould(slots, set, i))
    BY <1>1, <1>3
  <2>2. TsAt(e, i) = IF TsWrites(Head(q), i) THEN TsLeaves(Head(q)) ELSE TsAt(d, i)
    BY <1>4
  <2>3. TsFinds(r, e, i, n, TsShould(slots, set, i))
    <3>. DEFINE v == TsShould(slots, set, i)
                k == n
    <3>1. k \in 1..Len(q) /\ TsFinds(q, d, i, k + 1, v)
      BY <2>1
    <3>. HIDE DEF v, k, n
    <3>2. TsFinds(r, e, i, k, v)
      BY <2>2, <3>1, TsFindsRun
    <3>. QED
      BY <3>2 DEF v, k
  <2>4. Len(r) + 1 = n
    BY <1>1
  <2>. QED
    BY <2>3, <2>4
<1>5. ASSUME NEW k \in 1..Len(r), r[k].type = "use" PROVE TsFinds(r, e, r[k].index, k, r[k].owner)
  <2>1. k \in 1..Len(q) /\ k + 1 \in 1..n /\ r[k] = q[k + 1]
    BY <1>1
  <2>2. TsFinds(q, d, q[k + 1].index, k + 1, q[k + 1].owner)
    BY <1>3, <1>5, <2>1
  <2>3. q[k + 1].index \in TsIndices
    BY <2>1, TsPostTyped
  <2>. DEFINE i == q[k + 1].index
              v == q[k + 1].owner
  <2>4. TsFinds(q, d, i, k + 1, v) /\ TsAt(e, i) = IF TsWrites(Head(q), i) THEN TsLeaves(Head(q)) ELSE TsAt(d, i)
    BY <2>2, <2>3
  <2>. HIDE DEF i, v
  <2>5. TsFinds(r, e, i, k, v)
    BY <2>1, <2>4, TsFindsRun
  <2>. QED
    BY <2>1, <2>5 DEF i, v
<1>. HIDE DEF r, n
<1>6. TsWorkerOK(r, e, slots, set)
  BY <1>4, <1>5 DEF TsWorkerOK
<1>. QED
  BY <1>6 DEF r

\* A closure that is run finds its owner's object.
LEMMA TsWorkerFinds ==
    ASSUME NEW q \in TsQueues, q # <<>>, NEW d \in TsData, NEW slots, NEW set, TsWorkerOK(q, d, slots, set), Head(q).type = "use"
    PROVE  Len(d) >= Head(q).index /\ d[Head(q).index] = Head(q).owner
<1>1. 1 \in 1..Len(q) /\ Head(q) = q[1]
  BY DEF TsQueues
<1>2. TsFinds(q, d, q[1].index, 1, q[1].owner)
  BY <1>1 DEF TsWorkerOK
<1>3. q[1].owner = TsAt(d, q[1].index)
  BY <1>2, TsFindsFirst
<1>4. q[1].index \in TsIndices /\ q[1].owner \in Nat \ {0}
  BY <1>1, TsPostTyped
<1>5. Len(d) \in Nat /\ DOMAIN d = 1..Len(d)
  BY DEF TsData
<1>6. q[1].index \in DOMAIN d /\ d[q[1].index] = q[1].owner
  BY <1>3, <1>4 DEF TsAt, TsNull
<1>. QED
  BY <1>1, <1>4, <1>5, <1>6 DEF TsIndices

LEMMA TsWorkerSame ==
    ASSUME NEW q \in TsQueues, NEW d, NEW slots, NEW set, NEW slots2, NEW set2, TsWorkerOK(q, d, slots, set),
           \A i \in TsIndices : TsShould(slots2, set2, i) = TsShould(slots, set, i)
    PROVE  TsWorkerOK(q, d, slots2, set2)
  BY DEF TsWorkerOK

\* A worker with nothing to run has what the main thread has.
LEMMA TsWorkerIdle ==
    ASSUME NEW d, NEW slots, NEW set, TsWorkerOK(<<>>, d, slots, set)
    PROVE  TsMainOK(d, slots, set)
<1>1. Len(<<>>) + 1 = 1
  OBVIOUS
<1>2. \A i \in TsIndices : TsFinds(<<>>, d, i, 1, TsShould(slots, set, i))
  BY <1>1 DEF TsWorkerOK
<1>3. ASSUME NEW i \in TsIndices PROVE TsShould(slots, set, i) = TsAt(d, i)
  <2>. DEFINE v == TsShould(slots, set, i)
  <2>1. TsFinds(<<>>, d, i, 1, v)
    BY <1>2
  <2>. HIDE DEF v
  <2>2. v = TsAt(d, i)
    BY <2>1, TsFindsFirst
  <2>. QED
    BY <2>2 DEF v
<1>. QED
  BY <1>3 DEF TsMainOK

LEMMA NatLeast ==
    ASSUME NEW T, T \subseteq Nat, T # {}
    PROVE  \E m \in T : \A n \in T : m <= n
<1>. DEFINE R == OpToRel(<, Nat)
<1>1. IsWellFoundedOn(R, Nat)
  BY NatLessThanWellFounded
<1>2. \A i, j \in Nat : i < j => <<i, j>> \in R
  BY DEF OpToRel
<1>. HIDE DEF R
<1>3. PICK m \in T : \A n \in T : ~(<<n, m>> \in R)
  BY <1>1, WFMin
<1>4. \A n \in T : n \in Nat /\ ~(n < m)
  BY <1>2, <1>3
<1>. QED
  BY <1>3, <1>4

LEMMA TsTyped ==
    ASSUME NEW p \in TsState
    PROVE  /\ p.slots \in TsData /\ p.index \in TsIndexMap /\ p.owners \in Nat /\ p.set \in SUBSET Nat
           /\ p.data \in TsDataMap /\ p.posts \in TsQueueMap /\ p.shutdown \in BOOLEAN
           /\ p.down \in SUBSET TsThreads /\ p.ran \in BOOLEAN
           /\ \A t \in TsThreads : p.data[t] \in TsData
           /\ \A w \in TsWorkers : p.posts[w] \in TsQueues /\ w \in TsThreads
           /\ "main" \in TsThreads
<1>1. /\ p.slots \in TsData /\ p.index \in TsIndexMap /\ p.owners \in Nat /\ p.set \in SUBSET Nat
      /\ p.data \in TsDataMap /\ p.posts \in TsQueueMap /\ p.shutdown \in BOOLEAN
      /\ p.down \in SUBSET TsThreads /\ p.ran \in BOOLEAN
  BY DEF TsState
<1>. QED
  BY <1>1 DEF TsDataMap, TsQueueMap, TsThreads

\* A slot that is live: its index, and what a thread that is not behind has there.
LEMMA TsLiveSlot ==
    ASSUME ts \in TsState, TsSlotsOK(ts), NEW o \in tsLive
    PROVE  /\ o \in 1..ts.owners /\ o \in 1..TsMaxOwners /\ o \in Nat \ {0}
           /\ ts.index[o] \in TsIndices /\ ts.index[o] \in DOMAIN ts.slots /\ TsAt(ts.slots, ts.index[o]) = o
<1>1. PICK i \in DOMAIN ts.slots : o = ts.slots[i] /\ o # TsNull
  BY DEF tsLive
<1>2. o \in 1..ts.owners /\ ts.index[o] = i /\ ts.owners <= TsMaxOwners
  BY <1>1 DEF TsSlotsOK
<1>3. ts.owners \in Nat /\ ts.slots \in TsData /\ TsMaxOwners \in Nat
  BY TsTyped, TsAssumption
<1>4. DOMAIN ts.slots = 1..Len(ts.slots) /\ Len(ts.slots) \in Nat
  BY <1>3 DEF TsData
<1>5. i \in TsIndices
  BY <1>4 DEF TsIndices
<1>. QED
  BY <1>1, <1>2, <1>3, <1>5 DEF TsAt

LEMMA TsInitOK == TsInit => TsOK(ts)
<1>. SUFFICES ASSUME TsInit PROVE TsOK(ts)
  OBVIOUS
<1>1. /\ ts.slots = <<>> /\ ts.index = [o \in 1..TsMaxOwners |-> 0] /\ ts.owners = 0 /\ ts.set = {}
      /\ ts.data = [t \in TsThreads |-> <<>>] /\ ts.posts = [w \in TsWorkers |-> <<>>]
      /\ ts.shutdown = FALSE /\ ts.down = {} /\ ts.ran = TRUE
  BY DEF TsInit
<1>2. <<>> \in TsData /\ <<>> \in TsQueues
  BY DEF TsData, TsQueues
<1>3. ts \in TsState
  <2>1. /\ [o \in 1..TsMaxOwners |-> 0] \in TsIndexMap /\ [t \in TsThreads |-> <<>>] \in TsDataMap
        /\ [w \in TsWorkers |-> <<>>] \in TsQueueMap
    BY <1>2 DEF TsIndexMap, TsDataMap, TsQueueMap
  <2>. QED
    BY <1>2, <2>1 DEF TsInit, TsState
<1>4. \A i : TsAt(<<>>, i) = TsNull
  BY DEF TsAt
<1>5. \A i : TsShould(<<>>, {}, i) = TsNull
  BY DEF TsShould
<1>6. TsMainOK(<<>>, <<>>, {})
  BY <1>4, <1>5 DEF TsMainOK
<1>7. TsWorkerOK(<<>>, <<>>, <<>>, {})
  <2>1. Len(<<>>) + 1 = 1 /\ 1..Len(<<>>) = {} /\ 1..(1 - 1) = {}
    OBVIOUS
  <2>2. \A i \in TsIndices : TsFinds(<<>>, <<>>, i, 1, TsNull)
    BY <2>1, <1>4 DEF TsFinds
  <2>. QED
    BY <2>1, <2>2, <1>5 DEF TsWorkerOK
<1>8. TsSlotsOK(ts)
  BY <1>1, TsAssumption DEF TsSlotsOK
<1>9. "main" \in TsThreads /\ \A w \in TsWorkers : w \in TsThreads
  BY DEF TsThreads
<1>. QED
  BY <1>1, <1>3, <1>6, <1>7, <1>8, <1>9 DEF TsOK

LEMMA TsAllocateOK == TsOK(ts) /\ TsAllocate => TsOK(ts')
<1>. SUFFICES ASSUME TsOK(ts), TsAllocate PROVE TsOK(ts')
  OBVIOUS
<1>. DEFINE free == tsFreeIndices(ts)
            i == IF free = {} THEN Len(ts.slots) + 1 ELSE CHOOSE j \in free : \A k \in free : j <= k
            o == ts.owners + 1
            slots2 == IF i > Len(ts.slots) THEN Append(ts.slots, o) ELSE [ts.slots EXCEPT ![i] = o]
            index2 == [ts.index EXCEPT ![o] = i]
<1>1. ts \in TsState /\ TsSlotsOK(ts)
  BY DEF TsOK
<1>2. ts' = [ts EXCEPT !.owners = o, !.index[o] = i, !.slots = slots2] /\ ts.owners < TsMaxOwners
  BY DEF TsAllocate
<1>3. /\ ts.slots \in TsData /\ ts.index \in TsIndexMap /\ ts.owners \in Nat /\ TsMaxOwners \in Nat
      /\ Len(ts.slots) \in Nat /\ DOMAIN ts.slots = 1..Len(ts.slots)
  BY <1>1, TsTyped, TsAssumption DEF TsData
<1>4. o \in 1..TsMaxOwners /\ o \in Nat /\ o # TsNull /\ o \notin 1..ts.owners /\ o <= TsMaxOwners
  BY <1>2, <1>3 DEF TsNull
<1>5. free \subseteq DOMAIN ts.slots /\ \A j \in free : ts.slots[j] = TsNull
  BY DEF tsFreeIndices
<1>. HIDE DEF free
<1>6. i \in 1..(Len(ts.slots) + 1) /\ (i \in DOMAIN ts.slots => ts.slots[i] = TsNull)
  <2>1. CASE free = {}
    <3>. DEFINE n == Len(ts.slots)
    <3>1. i = n + 1 /\ n \in Nat /\ DOMAIN ts.slots = 1..n
      BY <2>1, <1>3
    <3>. HIDE DEF n, i
    <3>2. i \in 1..(n + 1) /\ i \notin DOMAIN ts.slots
      BY <3>1
    <3>. QED
      BY <3>2 DEF n
  <2>2. CASE free # {}
    <3>1. free \subseteq Nat
      BY <1>3, <1>5
    <3>2. \E j \in free : \A k \in free : j <= k
      BY <2>2, <3>1, NatLeast
    <3>3. i \in free
      BY <2>2, <3>2
    <3>. HIDE DEF i
    <3>4. i \in 1..Len(ts.slots) /\ ts.slots[i] = TsNull
      BY <3>3, <1>3, <1>5
    <3>. QED
      BY <3>4, <1>3
  <2>. QED
    BY <2>1, <2>2
<1>. HIDE DEF i, o
<1>7. i \in TsIndices /\ i \in Nat
  BY <1>3, <1>6 DEF TsIndices
<1>8. /\ slots2 \in TsData /\ i \in DOMAIN slots2 /\ slots2[i] = o
      /\ \A x : x # i => (x \in DOMAIN slots2 <=> x \in DOMAIN ts.slots)
      /\ \A x \in DOMAIN ts.slots : x # i => slots2[x] = ts.slots[x]
  <2>1. CASE i > Len(ts.slots)
    <3>1. i = Len(ts.slots) + 1
      BY <2>1, <1>3, <1>6
    <3>2. slots2 = Append(ts.slots, o)
      BY <2>1
    <3>. HIDE DEF slots2
    <3>3. slots2 \in TsData /\ Len(slots2) = Len(ts.slots) + 1 /\ DOMAIN slots2 = 1..(Len(ts.slots) + 1)
      BY <3>2, <1>3, <1>4 DEF TsData
    <3>4. slots2[Len(ts.slots) + 1] = o /\ \A x \in 1..Len(ts.slots) : slots2[x] = ts.slots[x]
      BY <3>2, <1>3, <1>4 DEF TsData
    <3>. QED
      BY <3>1, <3>3, <3>4, <1>3
  <2>2. CASE ~(i > Len(ts.slots))
    <3>1. i \in DOMAIN ts.slots
      BY <2>2, <1>3, <1>6
    <3>2. slots2 = [ts.slots EXCEPT ![i] = o]
      BY <2>2
    <3>. QED
      BY <3>1, <3>2, <1>3, <1>4 DEF TsData
  <2>. QED
    BY <2>1, <2>2
<1>9. /\ index2 \in TsIndexMap /\ index2[o] = i /\ \A x \in 1..ts.owners : index2[x] = ts.index[x]
  BY <1>3, <1>4, <1>7, <1>2 DEF TsIndexMap
<1>. HIDE DEF slots2, index2
<1>10. /\ ts'.owners = o /\ ts'.index = index2 /\ ts'.slots = slots2
       /\ ts'.set = ts.set /\ ts'.data = ts.data /\ ts'.posts = ts.posts /\ ts'.down = ts.down /\ ts'.ran = ts.ran
       /\ ts' \in TsState
  BY <1>1, <1>2, <1>4, <1>8, <1>9 DEF TsState, index2
<1>11. TsSlotsOK(ts')
  <2>1. ts.set \subseteq 1..ts.owners /\ 1..ts.owners \subseteq 1..o /\ o \in 1..o
    BY <1>1, <1>3 DEF TsSlotsOK, o
  <2>2. ASSUME NEW x \in DOMAIN slots2, slots2[x] # TsNull PROVE slots2[x] \in 1..o /\ index2[slots2[x]] = x
    <3>1. CASE x = i
      BY <3>1, <2>1, <1>8, <1>9
    <3>2. CASE x # i
      <4>1. x \in DOMAIN ts.slots /\ slots2[x] = ts.slots[x]
        BY <3>2, <1>8
      <4>2. ts.slots[x] \in 1..ts.owners /\ ts.index[ts.slots[x]] = x
        BY <4>1, <2>2, <1>1 DEF TsSlotsOK
      <4>. QED
        BY <4>1, <4>2, <2>1, <1>9
    <3>. QED
      BY <3>1, <3>2
  <2>. QED
    BY <1>4, <1>10, <2>1, <2>2 DEF TsSlotsOK
<1>12. ASSUME NEW x \in TsIndices PROVE TsShould(slots2, ts.set, x) = TsShould(ts.slots, ts.set, x)
  <2>1. CASE x = i
    <3>1. TsAt(slots2, x) = o /\ TsAt(ts.slots, x) = TsNull
      BY <2>1, <1>6, <1>8 DEF TsAt
    <3>2. o \notin ts.set
      BY <1>1, <1>4 DEF TsSlotsOK
    <3>. QED
      BY <3>1, <3>2 DEF TsShould
  <2>2. CASE x # i
    <3>1. TsAt(slots2, x) = TsAt(ts.slots, x)
      BY <2>2, <1>8 DEF TsAt
    <3>. QED
      BY <3>1 DEF TsShould
  <2>. QED
    BY <2>1, <2>2
<1>13. "main" \notin ts.down => TsMainOK(ts.data["main"], slots2, ts.set)
  BY <1>12 DEF TsOK, TsMainOK
<1>14. ASSUME NEW w \in TsWorkers, w \notin ts.down PROVE TsWorkerOK(ts.posts[w], ts.data[w], slots2, ts.set)
  <2>1. ts.posts[w] \in TsQueues /\ TsWorkerOK(ts.posts[w], ts.data[w], ts.slots, ts.set)
    BY <1>1, <1>14, TsTyped DEF TsOK
  <2>. QED
    BY <2>1, <1>12, TsWorkerSame
<1>. QED
  BY <1>10, <1>11, <1>13, <1>14 DEF TsOK

LEMMA TsPostedTyped ==
    ASSUME NEW posts \in TsQueueMap, NEW m \in TsPosts, ts.posts = posts
    PROVE  tsPost(m) \in TsQueueMap
<1>1. \A v \in TsWorkers : Append(posts[v], m) \in TsQueues
  <2>. SUFFICES ASSUME NEW v \in TsWorkers PROVE Append(posts[v], m) \in TsQueues
    OBVIOUS
  <2>1. posts[v] \in TsQueues
    BY DEF TsQueueMap
  <2>. QED
    BY <2>1, TsAppended
<1>. QED
  BY <1>1 DEF tsPost, TsQueueMap

LEMMA TsSetOK == ASSUME TsOK(ts), NEW o \in 1..TsMaxOwners, TsSet(o) PROVE TsOK(ts')
<1>. DEFINE i == ts.index[o]
            m == [type |-> "set", index |-> i, owner |-> o]
            set2 == ts.set \cup {o}
            main2 == tsSetThreadLocal(ts.data["main"], i, o)
            data2 == [ts.data EXCEPT !["main"] = main2]
            posts2 == tsPost(m)
<1>1. ts \in TsState /\ TsSlotsOK(ts)
  BY DEF TsOK
<1>2. ts' = [ts EXCEPT !.set = set2, !.posts = posts2, !.data["main"] = main2] /\ o \in tsLive
  BY DEF TsSet
<1>3. /\ o \in 1..ts.owners /\ o \in Nat \ {0} /\ i \in TsIndices /\ TsAt(ts.slots, i) = o
  BY <1>1, <1>2, TsLiveSlot
<1>4. m \in TsPosts /\ m.type = "set" /\ m.index = i /\ m.owner = o
  BY <1>3 DEF TsPosts
<1>5. /\ ts.slots \in TsData /\ ts.set \in SUBSET Nat /\ ts.data \in TsDataMap /\ ts.posts \in TsQueueMap
      /\ "main" \in TsThreads /\ ts.data["main"] \in TsData /\ \A w \in TsWorkers : w # "main" /\ ts.posts[w] \in TsQueues
  BY <1>1, TsTyped, TsAssumption
<1>6. main2 \in TsData /\ \A x \in TsIndices : TsAt(main2, x) = IF x = i THEN o ELSE TsAt(ts.data["main"], x)
  BY <1>3, <1>5, TsSetAt
<1>7. posts2 \in TsQueueMap /\ \A w \in TsWorkers : posts2[w] = Append(ts.posts[w], m)
  BY <1>4, <1>5, TsPostedTyped DEF tsPost
<1>8. \A x \in TsIndices : TsWrites(m, x) <=> x = i
  BY <1>4 DEF TsWrites
<1>9. TsLeaves(m) = o
  BY <1>4 DEF TsLeaves
<1>. HIDE DEF m, main2, posts2, i
<1>10. data2 \in TsDataMap /\ data2["main"] = main2 /\ \A w \in TsWorkers : data2[w] = ts.data[w]
  BY <1>5, <1>6 DEF TsDataMap, TsThreads
<1>11. set2 \in SUBSET Nat /\ set2 \subseteq 1..ts.owners
  BY <1>1, <1>3, <1>5 DEF TsSlotsOK
<1>. HIDE DEF set2, data2
<1>12. /\ ts'.owners = ts.owners /\ ts'.index = ts.index /\ ts'.slots = ts.slots
       /\ ts'.set = set2 /\ ts'.data = data2 /\ ts'.posts = posts2 /\ ts'.down = ts.down /\ ts'.ran = ts.ran
       /\ ts' \in TsState
  BY <1>1, <1>2, <1>7, <1>10, <1>11 DEF TsState, data2
<1>13. TsSlotsOK(ts')
  BY <1>1, <1>11, <1>12 DEF TsSlotsOK
<1>14. ASSUME NEW x \in TsIndices
       PROVE  TsShould(ts.slots, set2, x) = IF x = i THEN o ELSE TsShould(ts.slots, ts.set, x)
  <2>1. CASE x = i
    BY <2>1, <1>3 DEF TsShould, set2
  <2>2. CASE x # i
    <3>1. TsAt(ts.slots, x) # o
      <4>1. CASE x \in DOMAIN ts.slots
        BY <4>1, <2>2, <1>1, <1>3 DEF TsSlotsOK, TsAt, TsNull, i
      <4>2. CASE x \notin DOMAIN ts.slots
        BY <4>2, <1>3 DEF TsAt, TsNull
      <4>. QED
        BY <4>1, <4>2
    <3>. QED
      BY <3>1, <2>2 DEF TsShould, set2
  <2>. QED
    BY <2>1, <2>2
<1>15. "main" \notin ts.down => TsMainOK(main2, ts.slots, set2)
  BY <1>6, <1>14 DEF TsOK, TsMainOK
<1>16. ASSUME NEW w \in TsWorkers, w \notin ts.down PROVE TsWorkerOK(Append(ts.posts[w], m), ts.data[w], ts.slots, set2)
  <2>1. ts.posts[w] \in TsQueues /\ TsWorkerOK(ts.posts[w], ts.data[w], ts.slots, ts.set)
    BY <1>1, <1>5, <1>16 DEF TsOK
  <2>2. \A x \in TsIndices : TsShould(ts.slots, set2, x) = IF TsWrites(m, x) THEN TsLeaves(m) ELSE TsShould(ts.slots, ts.set, x)
    BY <1>8, <1>9, <1>14
  <2>3. m.type # "use"
    BY <1>4
  <2>. QED
    BY <2>1, <2>2, <2>3, <1>4, TsWorkerPosts
<1>. QED
  BY <1>7, <1>10, <1>12, <1>13, <1>15, <1>16 DEF TsOK

LEMMA TsRemoveOK == ASSUME TsOK(ts), NEW o \in 1..TsMaxOwners, TsRemove(o) PROVE TsOK(ts')
<1>. DEFINE i == ts.index[o]
            m == [type |-> "clear", index |-> i, owner |-> o]
            slots2 == [ts.slots EXCEPT ![i] = TsNull]
            main2 == tsClear(ts.data["main"], i)
            data2 == [ts.data EXCEPT !["main"] = main2]
            posts2 == tsPost(m)
<1>1. ts \in TsState /\ TsSlotsOK(ts)
  BY DEF TsOK
<1>2. ts' = [ts EXCEPT !.slots[i] = TsNull, !.posts = posts2, !.data["main"] = main2] /\ o \in tsLive
  BY DEF TsRemove, tsRemovalPosts
<1>3. /\ o \in 1..ts.owners /\ o \in Nat \ {0} /\ i \in TsIndices /\ TsAt(ts.slots, i) = o /\ i \in DOMAIN ts.slots
  BY <1>1, <1>2, TsLiveSlot
<1>4. m \in TsPosts /\ m.type = "clear" /\ m.index = i /\ m.owner = o
  BY <1>3 DEF TsPosts
<1>5. /\ ts.slots \in TsData /\ ts.set \in SUBSET Nat /\ ts.data \in TsDataMap /\ ts.posts \in TsQueueMap
      /\ "main" \in TsThreads /\ ts.data["main"] \in TsData /\ \A w \in TsWorkers : w # "main" /\ ts.posts[w] \in TsQueues
  BY <1>1, TsTyped, TsAssumption
<1>6. main2 \in TsData /\ \A x \in TsIndices : TsAt(main2, x) = IF x = i THEN TsNull ELSE TsAt(ts.data["main"], x)
  BY <1>3, <1>5, TsClearAt
<1>7. posts2 \in TsQueueMap /\ \A w \in TsWorkers : posts2[w] = Append(ts.posts[w], m)
  BY <1>4, <1>5, TsPostedTyped DEF tsPost
<1>8. \A x \in TsIndices : TsWrites(m, x) <=> x = i
  BY <1>4 DEF TsWrites
<1>9. TsLeaves(m) = TsNull
  BY <1>4 DEF TsLeaves
<1>. HIDE DEF m, main2, posts2, i
<1>10. data2 \in TsDataMap /\ data2["main"] = main2 /\ \A w \in TsWorkers : data2[w] = ts.data[w]
  BY <1>5, <1>6 DEF TsDataMap, TsThreads
<1>11. /\ slots2 \in TsData /\ DOMAIN slots2 = DOMAIN ts.slots /\ slots2[i] = TsNull
       /\ \A x \in DOMAIN ts.slots : x # i => slots2[x] = ts.slots[x]
  BY <1>3, <1>5 DEF TsData, TsNull
<1>. HIDE DEF slots2, data2
<1>12. /\ ts'.owners = ts.owners /\ ts'.index = ts.index /\ ts'.slots = slots2
       /\ ts'.set = ts.set /\ ts'.data = data2 /\ ts'.posts = posts2 /\ ts'.down = ts.down /\ ts'.ran = ts.ran
       /\ ts' \in TsState
  BY <1>1, <1>2, <1>7, <1>10, <1>11 DEF TsState, data2, slots2
<1>13. TsSlotsOK(ts')
  <2>1. ASSUME NEW x \in DOMAIN slots2, slots2[x] # TsNull PROVE slots2[x] \in 1..ts.owners /\ ts.index[slots2[x]] = x
    <3>1. x \in DOMAIN ts.slots /\ slots2[x] = ts.slots[x]
      BY <2>1, <1>11
    <3>. QED
      BY <2>1, <3>1, <1>1 DEF TsSlotsOK
  <2>. QED
    BY <1>1, <1>12, <2>1 DEF TsSlotsOK
<1>14. ASSUME NEW x \in TsIndices
       PROVE  TsShould(slots2, ts.set, x) = IF x = i THEN TsNull ELSE TsShould(ts.slots, ts.set, x)
  <2>1. CASE x = i
    <3>1. TsAt(slots2, x) = TsNull
      BY <2>1, <1>11 DEF TsAt
    <3>. QED
      BY <2>1, <3>1 DEF TsShould
  <2>2. CASE x # i
    <3>1. TsAt(slots2, x) = TsAt(ts.slots, x)
      BY <2>2, <1>11 DEF TsAt
    <3>. QED
      BY <3>1, <2>2 DEF TsShould
  <2>. QED
    BY <2>1, <2>2
<1>15. "main" \notin ts.down => TsMainOK(main2, slots2, ts.set)
  BY <1>6, <1>14 DEF TsOK, TsMainOK
<1>16. ASSUME NEW w \in TsWorkers, w \notin ts.down PROVE TsWorkerOK(Append(ts.posts[w], m), ts.data[w], slots2, ts.set)
  <2>1. ts.posts[w] \in TsQueues /\ TsWorkerOK(ts.posts[w], ts.data[w], ts.slots, ts.set)
    BY <1>1, <1>5, <1>16 DEF TsOK
  <2>2. \A x \in TsIndices : TsShould(slots2, ts.set, x) = IF TsWrites(m, x) THEN TsLeaves(m) ELSE TsShould(ts.slots, ts.set, x)
    BY <1>8, <1>9, <1>14
  <2>3. m.type # "use"
    BY <1>4
  <2>. QED
    BY <2>1, <2>2, <2>3, <1>4, TsWorkerPosts
<1>. QED
  BY <1>7, <1>10, <1>12, <1>13, <1>15, <1>16 DEF TsOK

LEMMA TsUseOK == ASSUME TsOK(ts), NEW o \in 1..TsMaxOwners, TsUse(o) PROVE TsOK(ts')
<1>. DEFINE i == ts.index[o]
            m == [type |-> "use", index |-> i, owner |-> o]
            posts2 == tsPost(m)
<1>1. ts \in TsState /\ TsSlotsOK(ts)
  BY DEF TsOK
<1>2. ts' = [ts EXCEPT !.posts = posts2] /\ o \in tsLive /\ o \in ts.set
  BY DEF TsUse
<1>3. /\ o \in Nat \ {0} /\ i \in TsIndices /\ TsAt(ts.slots, i) = o
  BY <1>1, <1>2, TsLiveSlot
<1>4. m \in TsPosts /\ m.type = "use" /\ m.index = i /\ m.owner = o
  BY <1>3 DEF TsPosts
<1>5. ts.posts \in TsQueueMap /\ \A w \in TsWorkers : ts.posts[w] \in TsQueues
  BY <1>1, TsTyped
<1>7. posts2 \in TsQueueMap /\ \A w \in TsWorkers : posts2[w] = Append(ts.posts[w], m)
  BY <1>4, <1>5, TsPostedTyped DEF tsPost
<1>8. \A x \in TsIndices : ~TsWrites(m, x)
  BY <1>4 DEF TsWrites
<1>9. TsShould(ts.slots, ts.set, m.index) = m.owner
  BY <1>2, <1>3, <1>4 DEF TsShould
<1>. HIDE DEF m, posts2, i
<1>12. /\ ts'.owners = ts.owners /\ ts'.index = ts.index /\ ts'.slots = ts.slots
       /\ ts'.set = ts.set /\ ts'.data = ts.data /\ ts'.posts = posts2 /\ ts'.down = ts.down /\ ts'.ran = ts.ran
       /\ ts' \in TsState
  BY <1>1, <1>2, <1>7 DEF TsState
<1>13. TsSlotsOK(ts')
  BY <1>1, <1>12 DEF TsSlotsOK
<1>16. ASSUME NEW w \in TsWorkers, w \notin ts.down PROVE TsWorkerOK(Append(ts.posts[w], m), ts.data[w], ts.slots, ts.set)
  <2>1. ts.posts[w] \in TsQueues /\ TsWorkerOK(ts.posts[w], ts.data[w], ts.slots, ts.set)
    BY <1>1, <1>5, <1>16 DEF TsOK
  <2>2. \A x \in TsIndices : TsShould(ts.slots, ts.set, x) = IF TsWrites(m, x) THEN TsLeaves(m) ELSE TsShould(ts.slots, ts.set, x)
    BY <1>8
  <2>. QED
    BY <2>1, <2>2, <1>9, <1>4, TsWorkerPosts
<1>. QED
  BY <1>7, <1>12, <1>13, <1>16 DEF TsOK

LEMMA TsRunOK == ASSUME TsOK(ts), NEW w \in TsWorkers, TsRun(w) PROVE TsOK(ts')
<1>. DEFINE m == Head(ts.posts[w])
            d == ts.data[w]
            e == CASE m.type = "set" -> tsSetThreadLocal(d, m.index, m.owner)
                   [] m.type = "clear" -> tsClear(d, m.index)
                   [] m.type = "use" -> d
            posts2 == [ts.posts EXCEPT ![w] = Tail(ts.posts[w])]
            data2 == [ts.data EXCEPT ![w] = e]
            ran2 == ts.ran /\ (m.type = "use" => Len(d) >= m.index /\ d[m.index] = m.owner)
<1>1. ts \in TsState /\ TsSlotsOK(ts) /\ ts.ran
  BY DEF TsOK
<1>2. /\ ts' = [ts EXCEPT !.posts[w] = Tail(ts.posts[w]), !.data[w] = e, !.ran = ran2]
      /\ w \notin ts.down /\ ts.posts[w] # <<>>
  BY DEF TsRun
<1>3. /\ ts.posts \in TsQueueMap /\ ts.data \in TsDataMap /\ ts.posts[w] \in TsQueues /\ d \in TsData
      /\ w \in TsThreads /\ w # "main" /\ \A v \in TsWorkers : v \in TsThreads
  BY <1>1, TsTyped, TsAssumption
<1>4. TsWorkerOK(ts.posts[w], d, ts.slots, ts.set)
  BY <1>2 DEF TsOK
<1>5. m = ts.posts[w][1] /\ 1 \in 1..Len(ts.posts[w]) /\ Tail(ts.posts[w]) \in TsQueues
  BY <1>2, <1>3 DEF TsQueues
<1>6. m.type \in {"set", "clear", "use"} /\ m.index \in TsIndices /\ m.owner \in Nat \ {0}
  BY <1>3, <1>5, TsPostTyped
<1>7. ran2
  BY <1>1, <1>2, <1>3, <1>4, TsWorkerFinds
<1>8. e \in TsData /\ \A x \in TsIndices : TsAt(e, x) = IF TsWrites(m, x) THEN TsLeaves(m) ELSE TsAt(d, x)
  <2>1. CASE m.type = "set"
    <3>1. e = tsSetThreadLocal(d, m.index, m.owner) /\ TsLeaves(m) = m.owner /\ \A x : TsWrites(m, x) <=> x = m.index
      BY <2>1 DEF TsLeaves, TsWrites
    <3>. HIDE DEF e, m, d
    <3>2. /\ tsSetThreadLocal(d, m.index, m.owner) \in TsData
          /\ \A x \in TsIndices : TsAt(tsSetThreadLocal(d, m.index, m.owner), x) = IF x = m.index THEN m.owner ELSE TsAt(d, x)
      BY <1>3, <1>6, TsSetAt
    <3>. QED
      BY <3>1, <3>2
  <2>2. CASE m.type = "clear"
    <3>1. e = tsClear(d, m.index) /\ TsLeaves(m) = TsNull /\ \A x : TsWrites(m, x) <=> x = m.index
      BY <2>2 DEF TsLeaves, TsWrites
    <3>. HIDE DEF e, m, d
    <3>2. /\ tsClear(d, m.index) \in TsData
          /\ \A x \in TsIndices : TsAt(tsClear(d, m.index), x) = IF x = m.index THEN TsNull ELSE TsAt(d, x)
      BY <1>3, <1>6, TsClearAt
    <3>. QED
      BY <3>1, <3>2
  <2>3. CASE m.type = "use"
    <3>1. e = d /\ \A x : ~TsWrites(m, x)
      BY <2>3 DEF TsWrites
    <3>. HIDE DEF e, m, d
    <3>. QED
      BY <3>1, <1>3
  <2>. QED
    BY <1>6, <2>1, <2>2, <2>3
<1>. HIDE DEF m, d, e, ran2
<1>9. TsWorkerOK(Tail(ts.posts[w]), e, ts.slots, ts.set)
  <2>1. \A x \in TsIndices : TsAt(e, x) = IF TsWrites(Head(ts.posts[w]), x) THEN TsLeaves(Head(ts.posts[w])) ELSE TsAt(d, x)
    BY <1>8 DEF m
  <2>. QED
    BY <2>1, <1>2, <1>3, <1>4, TsWorkerRuns
<1>10. /\ data2 \in TsDataMap /\ data2[w] = e /\ data2["main"] = ts.data["main"]
       /\ \A v \in TsWorkers : v # w => data2[v] = ts.data[v]
  BY <1>3, <1>8 DEF TsDataMap, TsThreads
<1>11. /\ posts2 \in TsQueueMap /\ posts2[w] = Tail(ts.posts[w])
       /\ \A v \in TsWorkers : v # w => posts2[v] = ts.posts[v]
  BY <1>3, <1>5 DEF TsQueueMap
<1>. HIDE DEF data2, posts2
<1>12. /\ ts'.owners = ts.owners /\ ts'.index = ts.index /\ ts'.slots = ts.slots
       /\ ts'.set = ts.set /\ ts'.data = data2 /\ ts'.posts = posts2 /\ ts'.down = ts.down /\ ts'.ran
       /\ ts' \in TsState
  <2>1. ran2 = TRUE
    BY <1>7, Zenon DEF ran2
  <2>. QED
    BY <1>1, <1>2, <1>10, <1>11, <2>1 DEF TsState, data2, posts2
<1>13. TsSlotsOK(ts')
  BY <1>1, <1>12 DEF TsSlotsOK
<1>14. "main" \notin ts.down => TsMainOK(data2["main"], ts.slots, ts.set)
  BY <1>10 DEF TsOK
<1>15. ASSUME NEW v \in TsWorkers, v \notin ts.down PROVE TsWorkerOK(posts2[v], data2[v], ts.slots, ts.set)
  <2>1. CASE v = w
    BY <2>1, <1>9, <1>10, <1>11
  <2>2. CASE v # w
    BY <2>2, <1>10, <1>11, <1>15 DEF TsOK
  <2>. QED
    BY <2>1, <2>2
<1>. QED
  BY <1>12, <1>13, <1>14, <1>15 DEF TsOK

LEMMA TsShutdownOK == TsOK(ts) /\ TsShutdown => TsOK(ts')
<1>. SUFFICES ASSUME TsOK(ts), TsShutdown PROVE TsOK(ts')
  OBVIOUS
<1>1. ts \in TsState /\ TsSlotsOK(ts)
  BY DEF TsOK
<1>2. ts' = [ts EXCEPT !.shutdown = TRUE]
  BY DEF TsShutdown
<1>3. /\ ts'.owners = ts.owners /\ ts'.index = ts.index /\ ts'.slots = ts.slots
      /\ ts'.set = ts.set /\ ts'.data = ts.data /\ ts'.posts = ts.posts /\ ts'.down = ts.down /\ ts'.ran = ts.ran
      /\ ts' \in TsState
  BY <1>1, <1>2 DEF TsState
<1>. QED
  BY <1>3 DEF TsOK, TsSlotsOK

LEMMA TsShutdownThreadOK == ASSUME TsOK(ts), NEW t \in TsThreads, TsShutdownThread(t) PROVE TsOK(ts')
<1>. DEFINE e == <<>>
            data2 == [ts.data EXCEPT ![t] = e]
            down2 == ts.down \cup {t}
<1>1. ts \in TsState /\ TsSlotsOK(ts)
  BY DEF TsOK
<1>2. ts' = [ts EXCEPT !.down = down2, !.data[t] = e]
  BY DEF TsShutdownThread
<1>3. ts.data \in TsDataMap /\ ts.down \in SUBSET TsThreads /\ "main" \in TsThreads /\ \A v \in TsWorkers : v \in TsThreads
  BY <1>1, TsTyped
<1>4. e \in TsData
  BY DEF TsData
<1>. HIDE DEF e
<1>5. data2 \in TsDataMap /\ down2 \in SUBSET TsThreads /\ \A v \in TsThreads : v \notin down2 => v \notin ts.down /\ data2[v] = ts.data[v]
  BY <1>3, <1>4 DEF TsDataMap
<1>. HIDE DEF data2, down2
<1>6. /\ ts'.owners = ts.owners /\ ts'.index = ts.index /\ ts'.slots = ts.slots
      /\ ts'.set = ts.set /\ ts'.data = data2 /\ ts'.posts = ts.posts /\ ts'.down = down2 /\ ts'.ran = ts.ran
      /\ ts' \in TsState
  BY <1>1, <1>2, <1>5 DEF TsState, data2
<1>7. TsSlotsOK(ts')
  BY <1>1, <1>6 DEF TsSlotsOK
<1>. QED
  BY <1>3, <1>5, <1>6, <1>7 DEF TsOK

TsInv == TsOK(ts)

LEMMA TsStepOK == TsInv /\ [TsNext]_ts => TsInv'
<1>. SUFFICES ASSUME TsOK(ts), [TsNext]_ts PROVE TsOK(ts')
  BY DEF TsInv
<1>1. CASE TsAllocate
  BY <1>1, TsAllocateOK
<1>2. CASE TsShutdown
  BY <1>2, TsShutdownOK
<1>3. ASSUME NEW o \in 1..TsMaxOwners, TsSet(o) PROVE TsOK(ts')
  BY <1>3, TsSetOK
<1>4. ASSUME NEW o \in 1..TsMaxOwners, TsRemove(o) PROVE TsOK(ts')
  BY <1>4, TsRemoveOK
<1>5. ASSUME NEW o \in 1..TsMaxOwners, TsUse(o) PROVE TsOK(ts')
  BY <1>5, TsUseOK
<1>6. ASSUME NEW w \in TsWorkers, TsRun(w) PROVE TsOK(ts')
  BY <1>6, TsRunOK
<1>7. ASSUME NEW t \in TsThreads, TsShutdownThread(t) PROVE TsOK(ts')
  BY <1>7, TsShutdownThreadOK
<1>8. CASE UNCHANGED ts
  BY <1>8
<1>. QED
  BY <1>1, <1>2, <1>3, <1>4, <1>5, <1>6, <1>7, <1>8 DEF TsNext

\* TsInv is inductive: every worker is behind the main thread by its posts and by
\* nothing else.
THEOREM TsInvHolds == TsSpec => []TsInv
<1>1. TsInit => TsInv
  BY TsInitOK DEF TsInv
<1>. QED
  BY <1>1, TsStepOK, PTL DEF TsSpec

LEMMA TsInvSound == TsInv => TsSound
<1>. SUFFICES ASSUME TsOK(ts) PROVE TsSound
  BY DEF TsInv
<1>1. ts \in TsState /\ TsSlotsOK(ts) /\ ts.ran
  BY DEF TsOK
<1>2. ASSUME NEW o1 \in tsLive, NEW o2 \in tsLive, ts.index[o1] = ts.index[o2] PROVE o1 = o2
  <2>1. TsAt(ts.slots, ts.index[o1]) = o1 /\ TsAt(ts.slots, ts.index[o2]) = o2
    BY <1>1, TsLiveSlot
  <2>. QED
    BY <2>1, <1>2
<1>3. ASSUME NEW t \in TsThreads, t \notin ts.down, t \in TsWorkers => ts.posts[t] = <<>>, NEW i \in DOMAIN ts.data[t]
      PROVE  ts.data[t][i] \in (tsLive \cap ts.set) \cup {TsNull}
  <2>1. TsMainOK(ts.data[t], ts.slots, ts.set)
    <3>1. CASE t = "main"
      BY <3>1, <1>3 DEF TsOK
    <3>2. CASE t \in TsWorkers
      <4>1. TsWorkerOK(<<>>, ts.data[t], ts.slots, ts.set)
        BY <3>2, <1>3 DEF TsOK
      <4>. QED
        BY <4>1, TsWorkerIdle
    <3>. QED
      BY <3>1, <3>2 DEF TsThreads
  <2>2. ts.data[t] \in TsData
    BY <1>1, TsTyped
  <2>3. i \in TsIndices
    BY <2>2, <1>3 DEF TsData, TsIndices
  <2>4. ts.data[t][i] = TsShould(ts.slots, ts.set, i)
    BY <2>1, <2>3, <1>3 DEF TsMainOK, TsAt
  <2>. QED
    BY <2>4 DEF TsShould, TsAt, tsLive
<1>. QED
  BY <1>1, <1>2, <1>3 DEF TsSound

\* TsSound: closures find their owners' objects though indices are used again, live slots
\* have indices of their own, and a worker that has run what it was posted holds what
\* the main thread holds.
THEOREM TsSoundHolds == TsSpec => []TsSound
  BY TsInvHolds, TsInvSound, PTL

-----------------------------------------------------------------------------
(***************************************************************************)
(* The three together, in the specification of the run that checks them.   *)
(***************************************************************************)

\* ThreadsSound, for any threads, timeouts, slots and flushes: what the run `machinery`
\* checks of the statsd sink, the guard dog and thread local slots (statsd.cc,
\* guarddog_impl.cc, thread_local_impl.cc) on one instance.
THEOREM ThreadsSoundHolds == Spec => []ThreadsSound
<1>. DEFINE Inv == StInv /\ GdInv /\ TsInv
<1>1. Init => Inv
  BY StInitOK, GdInitOK, TsInitOK DEF Init, TsInv
<1>2. Inv /\ [Next]_all => Inv'
  <2>. SUFFICES ASSUME StInv, GdInv, TsInv, [Next]_all PROVE Inv'
    OBVIOUS
  <2>1. [StNext]_st /\ [GdNext]_gd /\ [TsNext]_ts
    BY DEF Next, all, RateLimitConfigStep, LogRecordStep, LoadBalancersStep, SubsetLbStep, StatsStoreStep, StatsdSinkStep,
           GuardDogStep, ThreadLocalSlotsStep
  <2>. QED
    BY <2>1, StStepOK, GdStepOK, TsStepOK
<1>3. Inv => ThreadsSound
  BY GdInvSound, TsInvSound DEF StInv, ThreadsSound
<1>. QED
  BY <1>1, <1>2, <1>3, PTL DEF Spec

(***************************************************************************)
(* The hour record of the logs daemon.  A sum is a recursive function of   *)
(* the number of its terms.  That there is such a function, and one only,  *)
(* is shown with the least number for which there is none (NatLeast).      *)
(***************************************************************************)

\* g is the sequence of partial sums of q.
RecSums(g, q) == g \in [0..Len(q) -> Int] /\ g[0] = 0 /\ \A n \in 1..Len(q) : g[n] = g[n - 1] + q[n]

LEMMA RecSumsAppend ==
    ASSUME NEW q \in Seq(Int), NEW x \in Int, NEW g, RecSums(g, q)
    PROVE  RecSums([n \in 0..(Len(q) + 1) |-> IF n = Len(q) + 1 THEN g[Len(q)] + x ELSE g[n]], Append(q, x))
<1>. DEFINE k == Len(q)
            r == Append(q, x)
            h == [n \in 0..(k + 1) |-> IF n = k + 1 THEN g[k] + x ELSE g[n]]
<1>1. k \in Nat /\ Len(r) = k + 1 /\ r[k + 1] = x /\ \A n \in 1..k : r[n] = q[n]
  OBVIOUS
<1>2. g \in [0..k -> Int] /\ g[0] = 0 /\ \A n \in 1..k : g[n] = g[n - 1] + q[n]
  BY DEF RecSums
<1>. HIDE DEF k, r
<1>3. h[k + 1] = g[k] + x /\ \A n \in 0..k : h[n] = g[n]
  BY <1>1
<1>4. h \in [0..(k + 1) -> Int]
  <2>1. ASSUME NEW n \in 0..(k + 1) PROVE (IF n = k + 1 THEN g[k] + x ELSE g[n]) \in Int
    BY <1>1, <1>2
  <2>. QED
    BY <2>1
<1>. HIDE DEF h
<1>5. ASSUME NEW n \in 1..(k + 1) PROVE h[n] = h[n - 1] + r[n]
  <2>1. CASE n = k + 1
    BY <2>1, <1>1, <1>3
  <2>2. CASE n # k + 1
    <3>1. n \in 1..k /\ n \in 0..k /\ n - 1 \in 0..k
      BY <1>1, <2>2
    <3>. QED
      BY <3>1, <1>1, <1>2, <1>3
  <2>. QED
    BY <2>1, <2>2
<1>6. RecSums(h, r)
  BY <1>1, <1>2, <1>3, <1>4, <1>5 DEF RecSums
<1>. QED
  BY <1>6 DEF h, k, r

\* What TotalOf() is, if there are partial sums.
LEMMA RecTotal ==
    ASSUME NEW q \in Seq(Int), NEW g, RecSums(g, q)
    PROVE  TotalOf(q) = g[Len(q)]
<1>. DEFINE k == Len(q)
            Is(f) == f = [n \in 0..k |-> IF n = 0 THEN 0 ELSE f[n - 1] + q[n]]
            u == CHOOSE f : Is(f)
<1>1. k \in Nat
  OBVIOUS
<1>2. g \in [0..k -> Int] /\ g[0] = 0 /\ \A n \in 1..k : g[n] = g[n - 1] + q[n]
  BY DEF RecSums
<1>3. TotalOf(q) = u[k]
  BY DEF TotalOf
<1>. HIDE DEF k
<1>4. Is(g)
  <2>1. \A n \in 0..k : g[n] = IF n = 0 THEN 0 ELSE g[n - 1] + q[n]
    BY <1>1, <1>2
  <2>. QED
    BY <1>2, <2>1
<1>5. Is(u)
  <2>. HIDE DEF Is
  <2>. QED
    BY <1>4
<1>6. \A n \in 0..k : u[n] = IF n = 0 THEN 0 ELSE u[n - 1] + q[n]
  <2>. DEFINE v == [n \in 0..k |-> IF n = 0 THEN 0 ELSE u[n - 1] + q[n]]
  <2>. HIDE DEF u
  <2>1. u = v
    BY <1>5
  <2>2. \A n \in 0..k : v[n] = IF n = 0 THEN 0 ELSE u[n - 1] + q[n]
    OBVIOUS
  <2>. HIDE DEF v
  <2>. QED
    BY <2>1, <2>2
<1>. HIDE DEF u
<1>7. \A n \in 0..k : u[n] = g[n]
  <2>. DEFINE B == {n \in 0..k : u[n] # g[n]}
  <2>1. SUFFICES ASSUME B # {} PROVE FALSE
    OBVIOUS
  <2>2. B \subseteq Nat
    BY <1>1
  <2>3. PICK m \in B : \A n \in B : m <= n
    <3>. HIDE DEF B
    <3>. QED
      BY <2>1, <2>2, NatLeast
  <2>4. m \in 0..k /\ u[m] # g[m]
    BY <2>3
  <2>5. m # 0
    BY <2>4, <1>1, <1>2, <1>6
  <2>6. m \in 1..k /\ m - 1 \in 0..k /\ ~(m <= m - 1)
    BY <2>4, <2>5, <1>1
  <2>7. u[m - 1] = g[m - 1]
    BY <2>3, <2>6
  <2>. QED
    BY <2>4, <2>5, <2>6, <2>7, <1>2, <1>6
<1>. QED
  BY <1>1, <1>3, <1>7 DEF k

\* The numbers that have partial sums, of every sequence.
RecSummed(q) == \E g : RecSums(g, q)

LEMMA RecSumsExist == ASSUME NEW q \in Seq(Int) PROVE RecSummed(q)
<1>. DEFINE B == {n \in Nat : \E r \in Seq(Int) : Len(r) = n /\ ~RecSummed(r)}
<1>1. SUFFICES ASSUME B # {} PROVE FALSE
  <2>1. Len(q) \in Nat
    OBVIOUS
  <2>. QED
    BY <2>1
<1>2. PICK m \in B : \A n \in B : m <= n
  <2>1. B \subseteq Nat
    OBVIOUS
  <2>. HIDE DEF B
  <2>. QED
    BY <1>1, <2>1, NatLeast
<1>3. PICK r \in Seq(Int) : Len(r) = m /\ ~RecSummed(r)
  BY <1>2
<1>4. m \in Nat
  BY <1>3
<1>5. m # 0
  <2>1. SUFFICES ASSUME m = 0 PROVE RecSummed(r)
    BY <1>3
  <2>. DEFINE g == [n \in 0..0 |-> 0]
  <2>2. g \in [0..0 -> Int] /\ g[0] = 0 /\ 1..0 = {}
    OBVIOUS
  <2>. HIDE DEF g
  <2>3. RecSums(g, r)
    BY <2>1, <2>2, <1>3 DEF RecSums
  <2>. QED
    BY <2>3 DEF RecSummed
<1>. DEFINE f == SubSeq(r, 1, m - 1)
            x == r[m]
<1>6. f \in Seq(Int) /\ x \in Int /\ Len(f) = m - 1 /\ r = Append(f, x)
  <2>1. m - 1 \in Nat /\ m \in 1..m /\ r \in [1..m -> Int] /\ m - 1 <= Len(r)
    BY <1>3, <1>4, <1>5
  <2>2. f \in Seq(Int) /\ Len(f) = m - 1 /\ \A n \in 1..(m - 1) : f[n] = r[n]
    BY <2>1, <1>3, <1>4, <1>5
  <2>3. x \in Int
    BY <2>1
  <2>. HIDE DEF f
  <2>4. /\ Append(f, x) \in Seq(Int) /\ Len(Append(f, x)) = m
        /\ Append(f, x)[m] = x /\ \A n \in 1..(m - 1) : Append(f, x)[n] = r[n]
    BY <2>1, <2>2, <2>3, <1>4
  <2>5. \A n \in 1..m : Append(f, x)[n] = r[n]
    <3>1. \A n \in 1..m : n = m \/ n \in 1..(m - 1)
      BY <1>4
    <3>. QED
      BY <2>4, <3>1
  <2>6. r = Append(f, x)
    <3>1. \A s, t \in Seq(Int) : Len(s) = Len(t) /\ (\A n \in 1..Len(s) : s[n] = t[n]) => s = t
      BY SeqEqual
    <3>. QED
      BY <3>1, <2>4, <2>5, <1>3
  <2>. QED
    BY <2>2, <2>3, <2>6
<1>. HIDE DEF f, x
<1>7. m - 1 \in Nat /\ ~(m <= m - 1)
  BY <1>4, <1>5
<1>8. RecSummed(f)
  BY <1>2, <1>6, <1>7
<1>9. PICK g : RecSums(g, f)
  BY <1>8 DEF RecSummed
<1>10. RecSummed(Append(f, x))
  BY <1>6, <1>9, RecSumsAppend DEF RecSummed
<1>. QED
  BY <1>3, <1>6, <1>10

LEMMA RecTotalAppend ==
    ASSUME NEW q \in Seq(Int), NEW x \in Int
    PROVE  TotalOf(q) \in Int /\ TotalOf(Append(q, x)) = TotalOf(q) + x
<1>1. PICK g : RecSums(g, q)
  BY RecSumsExist DEF RecSummed
<1>2. Len(q) \in Nat /\ Append(q, x) \in Seq(Int) /\ Len(Append(q, x)) = Len(q) + 1
  OBVIOUS
<1>3. TotalOf(q) = g[Len(q)]
  BY <1>1, RecTotal
<1>4. g[Len(q)] \in Int
  BY <1>1, <1>2 DEF RecSums
<1>. DEFINE h == [n \in 0..(Len(q) + 1) |-> IF n = Len(q) + 1 THEN g[Len(q)] + x ELSE g[n]]
<1>5. RecSums(h, Append(q, x))
  BY <1>1, RecSumsAppend
<1>6. h[Len(q) + 1] = g[Len(q)] + x
  BY <1>2
<1>. HIDE DEF h
<1>7. TotalOf(Append(q, x)) = h[Len(q) + 1]
  BY <1>2, <1>5, RecTotal
<1>. QED
  BY <1>3, <1>4, <1>6, <1>7

LEMMA RecTotalEmpty == TotalOf(<<>>) = 0
<1>. DEFINE g == [n \in 0..0 |-> 0]
<1>1. g \in [0..0 -> Int] /\ g[0] = 0 /\ 1..0 = {} /\ Len(<<>>) = 0 /\ <<>> \in Seq(Int)
  OBVIOUS
<1>. HIDE DEF g
<1>2. RecSums(g, <<>>)
  BY <1>1 DEF RecSums
<1>. QED
  BY <1>1, <1>2, RecTotal

\* The lines of the access log q that are in C, and the lines that the record
\* counts in one quantity or times.
RecAt(q, C) == {n \in DOMAIN q : q[n] \in C}
RecOk == {l \in Lines : l.code \div 100 = 2}
RecLimited == {l \in Lines : l.code = 429}
RecNotFound == {l \in Lines : l.code \div 100 = 4 /\ l.code # 429}
RecError == {l \in Lines : l.code \div 100 \notin {2, 4}}
RecMeasured == {l \in Lines : l.duration # NaN}
RecTimed == {l \in Lines : l.duration # NaN /\ l.upstreamTime # NaN}
RecOne(l, C) == IF l \in C THEN 1 ELSE 0
RecDuration(l) == IF l.duration = NaN THEN 0 ELSE l.duration
RecLatency(l) == IF l.duration = NaN \/ l.upstreamTime = NaN THEN 0 ELSE l.duration - l.upstreamTime

\* One more line is one more to count, if it is one of C.
LEMMA RecCount ==
    ASSUME NEW q \in Seq(Lines), NEW x \in Lines, NEW C
    PROVE  /\ Cardinality(RecAt(q, C)) \in 0..Len(q)
           /\ Cardinality(RecAt(Append(q, x), C)) = Cardinality(RecAt(q, C)) + RecOne(x, C)
<1>. DEFINE k == Len(q)
            r == Append(q, x)
            A == RecAt(q, C)
<1>1. k \in Nat /\ DOMAIN q = 1..k /\ DOMAIN r = 1..(k + 1) /\ r[k + 1] = x /\ \A n \in 1..k : r[n] = q[n]
  OBVIOUS
<1>2. A \subseteq 1..k
  BY <1>1 DEF RecAt
<1>. HIDE DEF k
<1>3. IsFiniteSet(1..k) /\ Cardinality(1..k) = k
  <2>1. 1 \in Int /\ k \in Int /\ k >= 0
    BY <1>1
  <2>2. IsFiniteSet(1..k) /\ Cardinality(1..k) = IF 1 > k THEN 0 ELSE k - 1 + 1
    BY <2>1, FS_Interval
  <2>. QED
    BY <2>1, <2>2
<1>4. IsFiniteSet(A) /\ Cardinality(A) \in Nat /\ Cardinality(A) <= k
  <2>. HIDE DEF A
  <2>. QED
    BY <1>2, <1>3, FS_Subset, FS_CardinalityType
<1>5. k + 1 \notin A
  <2>. HIDE DEF A
  <2>. QED
    BY <1>1, <1>2
<1>6. RecAt(r, C) = IF x \in C THEN A \cup {k + 1} ELSE A
  <2>1. \A n : n \in 1..(k + 1) <=> n \in 1..k \/ n = k + 1
    BY <1>1
  <2>2. k + 1 \notin 1..k
    BY <1>1
  <2>. HIDE DEF r
  <2>. QED
    BY <1>1, <2>1, <2>2 DEF RecAt
<1>7. x \in C => Cardinality(A \cup {k + 1}) = Cardinality(A) + 1
  <2>. HIDE DEF A
  <2>. QED
    BY <1>4, <1>5, FS_AddElement
<1>. QED
  <2>. HIDE DEF A, r
  <2>1. Cardinality(RecAt(r, C)) = Cardinality(A) + RecOne(x, C)
    BY <1>4, <1>6, <1>7 DEF RecOne
  <2>. QED
    BY <1>1, <1>4, <2>1 DEF A, r, k

LEMMA RecLineTypes ==
    ASSUME NEW l \in Lines
    PROVE  /\ l.code \in Nat
           /\ l.duration # NaN => l.duration \in Nat
           /\ l.upstreamTime # NaN => l.upstreamTime \in Nat
<1>1. l.code \in Codes /\ l.duration \in Durations \cup {NaN} /\ l.upstreamTime \in UpstreamTimes \cup {NaN}
  BY DEF Lines
<1>2. Codes \subseteq Nat /\ Durations \subseteq Nat /\ UpstreamTimes \subseteq Nat
  BY RecordAssumption
<1>. QED
  BY <1>1, <1>2

\* The terms of a sum over one more line.
LEMMA RecDurationsAppend ==
    ASSUME NEW q \in Seq(Lines), NEW x \in Lines
    PROVE  LET d(s) == [n \in DOMAIN s |-> RecDuration(s[n])]
           IN  d(q) \in Seq(Int) /\ RecDuration(x) \in Int /\ d(Append(q, x)) = Append(d(q), RecDuration(x))
<1>1. \A l \in Lines : RecDuration(l) \in Int
  BY RecLineTypes DEF RecDuration
<1>. QED
  BY <1>1

LEMMA RecLatenciesAppend ==
    ASSUME NEW q \in Seq(Lines), NEW x \in Lines
    PROVE  LET d(s) == [n \in DOMAIN s |-> RecLatency(s[n])]
           IN  d(q) \in Seq(Int) /\ RecLatency(x) \in Int /\ d(Append(q, x)) = Append(d(q), RecLatency(x))
<1>1. \A l \in Lines : RecLatency(l) \in Int
  BY RecLineTypes DEF RecLatency
<1>. QED
  BY <1>1

RecType ==
    [totalQty : Int, okQty : Int, ratelimitQty : Int, notfoundQty : Int, errorQty : Int,
     durationTotal : Int, durationAvg : Int \X Int, latencyTotal : Int, latencyAvg : Int \X Int]

\* What the turn of the loop makes of every field.
LEMMA RecWithLine ==
    ASSUME NEW r \in RecType, NEW l \in Lines
    PROVE  LET w == WithLine(r, l)
           IN  /\ w \in RecType
               /\ w.totalQty = r.totalQty + 1
               /\ w.okQty = r.okQty + RecOne(l, RecOk)
               /\ w.ratelimitQty = r.ratelimitQty + RecOne(l, RecLimited)
               /\ w.notfoundQty = r.notfoundQty + RecOne(l, RecNotFound)
               /\ w.errorQty = r.errorQty + RecOne(l, RecError)
               /\ w.durationTotal = r.durationTotal + RecDuration(l)
               /\ l \in RecMeasured => w.durationAvg = <<w.durationTotal, w.totalQty>>
               /\ l \notin RecMeasured => w.durationAvg = r.durationAvg
               /\ w.latencyTotal = r.latencyTotal + RecLatency(l)
               /\ l \in RecTimed => w.latencyAvg = <<w.latencyTotal, w.totalQty>>
               /\ l \notin RecTimed => w.latencyAvg = r.latencyAvg
<1>. DEFINE q == QtyOf(l.code)
            r0 == [r EXCEPT !.totalQty = @ + 1]
            r1 == [r0 EXCEPT ![q] = @ + 1]
            r2 == [r1 EXCEPT !.durationTotal = @ + l.duration]
            r3 == [r2 EXCEPT !.durationAvg = DurationAvg(r2)]
            w == WithLine(r, l)
<1>1. /\ l.code \in Nat
      /\ l.duration # NaN => l.duration \in Int
      /\ l.upstreamTime # NaN => l.upstreamTime \in Int
  BY RecLineTypes
<1>2. w = IF l.duration = NaN THEN r1 ELSE WithLatency(r3, l)
  BY DEF WithLine, WithDuration
<1>3. /\ q \in {"okQty", "ratelimitQty", "notfoundQty", "errorQty"}
      /\ RecOne(l, RecOk) = IF q = "okQty" THEN 1 ELSE 0
      /\ RecOne(l, RecLimited) = IF q = "ratelimitQty" THEN 1 ELSE 0
      /\ RecOne(l, RecNotFound) = IF q = "notfoundQty" THEN 1 ELSE 0
      /\ RecOne(l, RecError) = IF q = "errorQty" THEN 1 ELSE 0
  <2>1. \A c \in Nat : (c \div 100 = 2 <=> c \in 200..299) /\ (c \div 100 = 4 <=> c \in 400..499)
    OBVIOUS
  <2>2. /\ l \in RecOk <=> l.code \in 200..299
        /\ l \in RecLimited <=> l.code = 429
        /\ l \in RecNotFound <=> l.code \in 400..499 /\ l.code # 429
        /\ l \in RecError <=> l.code \notin 200..299 /\ l.code \notin 400..499
    BY <1>1, <2>1 DEF RecOk, RecLimited, RecNotFound, RecError
  <2>. QED
    BY <1>1, <2>2 DEF RecOne, QtyOf
<1>. HIDE DEF q
<1>0. /\ r0 \in RecType
      /\ r0.totalQty = r.totalQty + 1
      /\ r0.okQty = r.okQty /\ r0.ratelimitQty = r.ratelimitQty
      /\ r0.notfoundQty = r.notfoundQty /\ r0.errorQty = r.errorQty
      /\ r0.durationTotal = r.durationTotal
      /\ r0.durationAvg = r.durationAvg
      /\ r0.latencyTotal = r.latencyTotal /\ r0.latencyAvg = r.latencyAvg
  BY DEF RecType
<1>. HIDE DEF r0
<1>4. /\ r1 \in RecType
      /\ r1.totalQty = r.totalQty + 1
      /\ r1.okQty = r.okQty + RecOne(l, RecOk)
      /\ r1.ratelimitQty = r.ratelimitQty + RecOne(l, RecLimited)
      /\ r1.notfoundQty = r.notfoundQty + RecOne(l, RecNotFound)
      /\ r1.errorQty = r.errorQty + RecOne(l, RecError)
      /\ r1.durationTotal = r.durationTotal
      /\ r1.durationAvg = r.durationAvg
      /\ r1.latencyTotal = r.latencyTotal /\ r1.latencyAvg = r.latencyAvg
  <2>0. r.okQty \in Int /\ r.ratelimitQty \in Int /\ r.notfoundQty \in Int /\ r.errorQty \in Int
    BY DEF RecType
  <2>1. CASE q = "okQty"
    <3>1. r1 = [r0 EXCEPT !.okQty = @ + 1]
      BY <2>1
    <3>. HIDE DEF r1
    <3>2. RecOne(l, RecOk) = 1 /\ RecOne(l, RecLimited) = 0 /\ RecOne(l, RecNotFound) = 0 /\ RecOne(l, RecError) = 0
      BY <1>3, <2>1
    <3>3. /\ r1 \in RecType
          /\ r1.totalQty = r0.totalQty
          /\ r1.okQty = r0.okQty + 1
          /\ r1.ratelimitQty = r0.ratelimitQty
          /\ r1.notfoundQty = r0.notfoundQty
          /\ r1.errorQty = r0.errorQty
          /\ r1.durationTotal = r0.durationTotal
          /\ r1.durationAvg = r0.durationAvg
          /\ r1.latencyTotal = r0.latencyTotal
          /\ r1.latencyAvg = r0.latencyAvg
      BY <1>0, <3>1 DEF RecType
    <3>. QED
      BY <1>0, <2>0, <3>2, <3>3
  <2>2. CASE q = "ratelimitQty"
    <3>1. r1 = [r0 EXCEPT !.ratelimitQty = @ + 1]
      BY <2>2
    <3>. HIDE DEF r1
    <3>2. RecOne(l, RecOk) = 0 /\ RecOne(l, RecLimited) = 1 /\ RecOne(l, RecNotFound) = 0 /\ RecOne(l, RecError) = 0
      BY <1>3, <2>2
    <3>3. /\ r1 \in RecType
          /\ r1.totalQty = r0.totalQty
          /\ r1.okQty = r0.okQty
          /\ r1.ratelimitQty = r0.ratelimitQty + 1
          /\ r1.notfoundQty = r0.notfoundQty
          /\ r1.errorQty = r0.errorQty
          /\ r1.durationTotal = r0.durationTotal
          /\ r1.durationAvg = r0.durationAvg
          /\ r1.latencyTotal = r0.latencyTotal
          /\ r1.latencyAvg = r0.latencyAvg
      BY <1>0, <3>1 DEF RecType
    <3>. QED
      BY <1>0, <2>0, <3>2, <3>3
  <2>3. CASE q = "notfoundQty"
    <3>1. r1 = [r0 EXCEPT !.notfoundQty = @ + 1]
      BY <2>3
    <3>. HIDE DEF r1
    <3>2. RecOne(l, RecOk) = 0 /\ RecOne(l, RecLimited) = 0 /\ RecOne(l, RecNotFound) = 1 /\ RecOne(l, RecError) = 0
      BY <1>3, <2>3
    <3>3. /\ r1 \in RecType
          /\ r1.totalQty = r0.totalQty
          /\ r1.okQty = r0.okQty
          /\ r1.ratelimitQty = r0.ratelimitQty
          /\ r1.notfoundQty = r0.notfoundQty + 1
          /\ r1.errorQty = r0.errorQty
          /\ r1.durationTotal = r0.durationTotal
          /\ r1.durationAvg = r0.durationAvg
          /\ r1.latencyTotal = r0.latencyTotal
          /\ r1.latencyAvg = r0.latencyAvg
      BY <1>0, <3>1 DEF RecType
    <3>. QED
      BY <1>0, <2>0, <3>2, <3>3
  <2>4. CASE q = "errorQty"
    <3>1. r1 = [r0 EXCEPT !.errorQty = @ + 1]
      BY <2>4
    <3>. HIDE DEF r1
    <3>2. RecOne(l, RecOk) = 0 /\ RecOne(l, RecLimited) = 0 /\ RecOne(l, RecNotFound) = 0 /\ RecOne(l, RecError) = 1
      BY <1>3, <2>4
    <3>3. /\ r1 \in RecType
          /\ r1.totalQty = r0.totalQty
          /\ r1.okQty = r0.okQty
          /\ r1.ratelimitQty = r0.ratelimitQty
          /\ r1.notfoundQty = r0.notfoundQty
          /\ r1.errorQty = r0.errorQty + 1
          /\ r1.durationTotal = r0.durationTotal
          /\ r1.durationAvg = r0.durationAvg
          /\ r1.latencyTotal = r0.latencyTotal
          /\ r1.latencyAvg = r0.latencyAvg
      BY <1>0, <3>1 DEF RecType
    <3>. QED
      BY <1>0, <2>0, <3>2, <3>3
  <2>. QED
    BY <1>3, <2>1, <2>2, <2>3, <2>4
<1>. HIDE DEF r1
<1>5. CASE l.duration = NaN
  <2>1. /\ w = r1 /\ RecDuration(l) = 0 /\ RecLatency(l) = 0
        /\ l \notin RecMeasured /\ l \notin RecTimed
    BY <1>2, <1>5 DEF RecDuration, RecLatency, RecMeasured, RecTimed
  <2>2. r.durationTotal \in Int /\ r.latencyTotal \in Int
    BY DEF RecType
  <2>. HIDE DEF w
  <2>. QED
    BY <2>1, <2>2, <1>4 DEF w
<1>6. CASE l.duration # NaN
  <2>0. l.duration \in Int /\ RecDuration(l) = l.duration /\ l \in RecMeasured
    BY <1>1, <1>6 DEF RecDuration, RecMeasured
  <2>1. w = WithLatency(r3, l)
    BY <1>2, <1>6
  <2>5. /\ r3 \in RecType
        /\ r3.totalQty = r1.totalQty
        /\ r3.okQty = r1.okQty
        /\ r3.ratelimitQty = r1.ratelimitQty
        /\ r3.notfoundQty = r1.notfoundQty
        /\ r3.errorQty = r1.errorQty
        /\ r3.durationTotal = r1.durationTotal + l.duration
        /\ r3.durationAvg = <<r3.durationTotal, r3.totalQty>>
        /\ r3.latencyTotal = r1.latencyTotal /\ r3.latencyAvg = r1.latencyAvg
    <3>. DEFINE dt == r1.durationTotal + l.duration
    <3>0. r1 \in RecType
      BY <1>4
    <3>1. r1.durationTotal \in Int /\ r1.totalQty \in Int
      BY <3>0 DEF RecType
    <3>2. dt \in Int
      BY <3>1, <2>0
    <3>3. r2 = [r1 EXCEPT !.durationTotal = dt]
      OBVIOUS
    <3>. HIDE DEF dt, r2
    <3>4. r2 \in RecType /\ r2.durationTotal = dt /\ r2.totalQty = r1.totalQty
      BY <3>0, <3>2, <3>3 DEF RecType
    <3>5. r3 = [r1 EXCEPT !.durationTotal = dt, !.durationAvg = <<dt, r1.totalQty>>]
      BY <3>3, <3>4 DEF DurationAvg
    <3>. HIDE DEF r3
    <3>6. /\ r3 \in RecType
          /\ r3.totalQty = r1.totalQty
          /\ r3.okQty = r1.okQty
          /\ r3.ratelimitQty = r1.ratelimitQty
          /\ r3.notfoundQty = r1.notfoundQty
          /\ r3.errorQty = r1.errorQty
          /\ r3.durationTotal = dt
          /\ r3.durationAvg = <<r3.durationTotal, r3.totalQty>>
          /\ r3.latencyTotal = r1.latencyTotal /\ r3.latencyAvg = r1.latencyAvg
      BY <3>0, <3>1, <3>2, <3>5 DEF RecType
    <3>. QED
      BY <3>6 DEF dt
  <2>. HIDE DEF r3
  <2>6. CASE l.upstreamTime = NaN
    <3>1. w = r3 /\ l \notin RecTimed /\ RecLatency(l) = 0
      BY <2>1, <2>6 DEF WithLatency, RecTimed, RecLatency
    <3>2. r.latencyTotal \in Int
      BY DEF RecType
    <3>. HIDE DEF w
    <3>3. w.latencyTotal = r.latencyTotal + RecLatency(l)
      BY <3>1, <3>2, <1>4, <2>5
    <3>. QED
      BY <3>1, <3>3, <1>4, <2>0, <2>5 DEF w
  <2>7. CASE l.upstreamTime # NaN
    <3>. DEFINE total == r3.latencyTotal + l.duration - l.upstreamTime
    <3>1. w = [r3 EXCEPT !.latencyTotal = total, !.latencyAvg = <<total, r3.totalQty>>]
      BY <2>1, <2>7 DEF WithLatency
    <3>2. total \in Int /\ total = r3.latencyTotal + RecLatency(l) /\ l \in RecTimed
      BY <1>1, <2>0, <2>5, <2>7, <1>6 DEF RecType, RecLatency, RecTimed
    <3>. HIDE DEF w, total
    <3>3. /\ w \in RecType
          /\ w.totalQty = r3.totalQty
          /\ w.okQty = r3.okQty
          /\ w.ratelimitQty = r3.ratelimitQty
          /\ w.notfoundQty = r3.notfoundQty
          /\ w.errorQty = r3.errorQty
          /\ w.durationTotal = r3.durationTotal
          /\ w.durationAvg = r3.durationAvg
          /\ w.latencyTotal = total
          /\ w.latencyAvg = <<w.latencyTotal, w.totalQty>>
      BY <3>1, <3>2, <2>5 DEF RecType
    <3>. QED
      BY <3>2, <3>3, <1>4, <2>0, <2>5 DEF w
  <2>. QED
    BY <2>6, <2>7
<1>. QED
  BY <1>5, <1>6

\* What makes RecordExact inductive: the totals that the averages are made of
\* are those of the lines, and the last measured line and the last timed line
\* are not beyond the last line.
RecDurations(q) == [n \in DOMAIN q |-> RecDuration(q[n])]
RecLatencies(q) == [n \in DOMAIN q |-> RecLatency(q[n])]
RecInv ==
    /\ lines \in Seq(Lines)
    /\ record \in RecType
    /\ record.totalQty = Len(lines)
    /\ record.okQty = Cardinality(RecAt(lines, RecOk))
    /\ record.ratelimitQty = Cardinality(RecAt(lines, RecLimited))
    /\ record.notfoundQty = Cardinality(RecAt(lines, RecNotFound))
    /\ record.errorQty = Cardinality(RecAt(lines, RecError))
    /\ record.durationTotal = TotalOf(RecDurations(lines))
    /\ record.durationAvg[1] = record.durationTotal
    /\ record.durationAvg[2] \in Cardinality(RecAt(lines, RecMeasured))..Len(lines)
    /\ record.latencyTotal = TotalOf(RecLatencies(lines))
    /\ record.latencyAvg[1] = record.latencyTotal
    /\ record.latencyAvg[2] \in Cardinality(RecAt(lines, RecTimed))..Len(lines)

LEMMA RecInvInit == RecordInit => RecInv
<1>1. SUFFICES ASSUME RecordInit PROVE RecInv
  OBVIOUS
<1>2. lines = <<>> /\ DOMAIN lines = {} /\ Len(lines) = 0 /\ lines \in Seq(Lines)
  BY <1>1 DEF RecordInit
<1>3. RecDurations(lines) = <<>> /\ RecLatencies(lines) = <<>>
  BY <1>2 DEF RecDurations, RecLatencies
<1>4. TotalOf(RecDurations(lines)) = 0 /\ TotalOf(RecLatencies(lines)) = 0
  BY <1>3, RecTotalEmpty
<1>5. \A C : Cardinality(RecAt(lines, C)) = 0
  BY <1>2, FS_EmptySet DEF RecAt
<1>6. record \in RecType
  BY <1>1 DEF RecordInit, RecType
<1>. QED
  BY <1>1, <1>2, <1>4, <1>5, <1>6 DEF RecordInit, RecInv

LEMMA RecInvCountLine == ASSUME RecInv, NEW l \in Lines, CountLine(l) PROVE RecInv'
<1>1. /\ lines \in Seq(Lines) /\ lines' = Append(lines, l)
      /\ record \in RecType /\ record' = WithLine(record, l)
  BY DEF RecInv, CountLine
<1>2. Len(lines) \in Nat /\ lines' \in Seq(Lines) /\ Len(lines') = Len(lines) + 1
  BY <1>1
<1>3. /\ record' \in RecType
      /\ record'.totalQty = record.totalQty + 1
      /\ record'.okQty = record.okQty + RecOne(l, RecOk)
      /\ record'.ratelimitQty = record.ratelimitQty + RecOne(l, RecLimited)
      /\ record'.notfoundQty = record.notfoundQty + RecOne(l, RecNotFound)
      /\ record'.errorQty = record.errorQty + RecOne(l, RecError)
      /\ record'.durationTotal = record.durationTotal + RecDuration(l)
      /\ l \in RecMeasured => record'.durationAvg = <<record'.durationTotal, record'.totalQty>>
      /\ l \notin RecMeasured => record'.durationAvg = record.durationAvg
      /\ record'.latencyTotal = record.latencyTotal + RecLatency(l)
      /\ l \in RecTimed => record'.latencyAvg = <<record'.latencyTotal, record'.totalQty>>
      /\ l \notin RecTimed => record'.latencyAvg = record.latencyAvg
  BY <1>1, RecWithLine
<1>4. \A C : /\ Cardinality(RecAt(lines, C)) \in 0..Len(lines)
             /\ Cardinality(RecAt(lines', C)) = Cardinality(RecAt(lines, C)) + RecOne(l, C)
  BY <1>1, RecCount
<1>5. TotalOf(RecDurations(lines')) = TotalOf(RecDurations(lines)) + RecDuration(l)
  <2>1. /\ RecDurations(lines) \in Seq(Int) /\ RecDuration(l) \in Int
        /\ RecDurations(lines') = Append(RecDurations(lines), RecDuration(l))
    BY <1>1, RecDurationsAppend DEF RecDurations
  <2>. QED
    BY <2>1, RecTotalAppend
<1>6. TotalOf(RecLatencies(lines')) = TotalOf(RecLatencies(lines)) + RecLatency(l) /\ RecLatency(l) \in Int
  <2>1. /\ RecLatencies(lines) \in Seq(Int) /\ RecLatency(l) \in Int
        /\ RecLatencies(lines') = Append(RecLatencies(lines), RecLatency(l))
    BY <1>1, RecLatenciesAppend DEF RecLatencies
  <2>. QED
    BY <2>1, RecTotalAppend
<1>7. /\ record'.totalQty = Len(lines')
      /\ record'.okQty = Cardinality(RecAt(lines', RecOk))
      /\ record'.ratelimitQty = Cardinality(RecAt(lines', RecLimited))
      /\ record'.notfoundQty = Cardinality(RecAt(lines', RecNotFound))
      /\ record'.errorQty = Cardinality(RecAt(lines', RecError))
  BY <1>2, <1>3, <1>4 DEF RecInv
<1>8. /\ record'.durationTotal = TotalOf(RecDurations(lines'))
      /\ record'.latencyTotal = TotalOf(RecLatencies(lines'))
  BY <1>3, <1>5, <1>6 DEF RecInv
<1>9. /\ record'.latencyAvg[1] = record'.latencyTotal
      /\ record'.latencyAvg[2] \in Cardinality(RecAt(lines', RecTimed))..Len(lines')
  <2>. DEFINE c == Cardinality(RecAt(lines, RecTimed))
              d == Cardinality(RecAt(lines', RecTimed))
  <2>1. c \in Nat /\ c <= Len(lines) /\ d = c + RecOne(l, RecTimed)
    BY <1>2, <1>4
  <2>. HIDE DEF c, d
  <2>2. CASE l \in RecTimed
    <3>1. record'.latencyAvg[1] = record'.latencyTotal /\ record'.latencyAvg[2] = Len(lines')
      BY <1>3, <1>7, <2>2
    <3>2. d \in Nat /\ d <= Len(lines') /\ Len(lines') \in Nat
      BY <1>2, <2>1, <2>2 DEF RecOne
    <3>. QED
      BY <3>1, <3>2 DEF d
  <2>3. CASE l \notin RecTimed
    <3>1. record.latencyAvg[1] = record.latencyTotal /\ record.latencyAvg[2] \in c..Len(lines)
      BY DEF RecInv, c
    <3>2. d = c
      BY <2>1, <2>3 DEF RecOne
    <3>3. record'.latencyAvg = record.latencyAvg
      BY <1>3, <2>3
    <3>4. record.latencyTotal \in Int /\ RecLatency(l) = 0
      BY <1>1, <2>3 DEF RecType, RecTimed, RecLatency
    <3>5. record'.latencyTotal = record.latencyTotal
      BY <1>3, <3>4
    <3>6. record.latencyAvg[2] \in c..Len(lines')
      BY <3>1, <1>2, <2>1
    <3>. QED
      BY <3>1, <3>2, <3>3, <3>5, <3>6 DEF d
  <2>. QED
    BY <2>2, <2>3
<1>10. /\ record'.durationAvg[1] = record'.durationTotal
       /\ record'.durationAvg[2] \in Cardinality(RecAt(lines', RecMeasured))..Len(lines')
  <2>. DEFINE c == Cardinality(RecAt(lines, RecMeasured))
              d == Cardinality(RecAt(lines', RecMeasured))
  <2>1. c \in Nat /\ c <= Len(lines) /\ d = c + RecOne(l, RecMeasured)
    BY <1>2, <1>4
  <2>. HIDE DEF c, d
  <2>2. CASE l \in RecMeasured
    <3>1. record'.durationAvg[1] = record'.durationTotal /\ record'.durationAvg[2] = Len(lines')
      BY <1>3, <1>7, <2>2
    <3>2. d \in Nat /\ d <= Len(lines') /\ Len(lines') \in Nat
      BY <1>2, <2>1, <2>2 DEF RecOne
    <3>. QED
      BY <3>1, <3>2 DEF d
  <2>3. CASE l \notin RecMeasured
    <3>1. record.durationAvg[1] = record.durationTotal /\ record.durationAvg[2] \in c..Len(lines)
      BY DEF RecInv, c
    <3>2. d = c
      BY <2>1, <2>3 DEF RecOne
    <3>3. record'.durationAvg = record.durationAvg
      BY <1>3, <2>3
    <3>4. record.durationTotal \in Int /\ RecDuration(l) = 0
      BY <1>1, <2>3 DEF RecType, RecMeasured, RecDuration
    <3>5. record'.durationTotal = record.durationTotal
      BY <1>3, <3>4
    <3>6. record.durationAvg[2] \in c..Len(lines')
      BY <3>1, <1>2, <2>1
    <3>. QED
      BY <3>1, <3>2, <3>3, <3>5, <3>6 DEF d
  <2>. QED
    BY <2>2, <2>3
<1>. QED
  BY <1>2, <1>3, <1>7, <1>8, <1>9, <1>10 DEF RecInv

LEMMA RecInvImplies == RecInv => RecordExact
<1>1. SUFFICES ASSUME RecInv PROVE RecordExact
  OBVIOUS
<1>2. \A n \in DOMAIN lines : lines[n] \in Lines
  BY <1>1 DEF RecInv
<1>3. CountsExact
  <2>1. /\ RecAt(lines, RecOk) = {n \in DOMAIN lines : lines[n].code \div 100 = 2}
        /\ RecAt(lines, RecLimited) = {n \in DOMAIN lines : lines[n].code = 429}
        /\ RecAt(lines, RecNotFound) = {n \in DOMAIN lines : lines[n].code \div 100 = 4 /\ lines[n].code # 429}
        /\ RecAt(lines, RecError) = {n \in DOMAIN lines : lines[n].code \div 100 \notin {2, 4}}
    BY <1>2 DEF RecAt, RecOk, RecLimited, RecNotFound, RecError
  <2>. QED
    BY <1>1, <2>1 DEF RecInv, CountsExact, Having
<1>4. DurationAverageExact
  <2>1. RecAt(lines, RecMeasured) = {n \in DOMAIN lines : lines[n].duration # NaN}
    BY <1>2 DEF RecAt, RecMeasured
  <2>2. /\ record.durationAvg[1] = TotalOf(RecDurations(lines))
        /\ record.durationAvg[2] \in Cardinality(RecAt(lines, RecMeasured))..Len(lines)
    BY <1>1 DEF RecInv
  <2>3. RecDurations(lines) = [n \in DOMAIN lines |->
            IF lines[n].duration = NaN THEN 0 ELSE lines[n].duration]
    BY DEF RecDurations, RecDuration
  <2>4. Cardinality(DOMAIN lines) = Len(lines) /\ Len(lines) \in Nat
    <3>1. DOMAIN lines = 1..Len(lines) /\ Len(lines) \in Nat
      BY <1>1 DEF RecInv
    <3>2. 1 \in Int /\ Len(lines) \in Int /\ Len(lines) >= 0
      BY <3>1
    <3>3. Cardinality(1..Len(lines)) = IF 1 > Len(lines) THEN 0 ELSE Len(lines) - 1 + 1
      BY <3>2, FS_Interval
    <3>. QED
      BY <3>1, <3>2, <3>3
  <2>5. RecAt(lines, RecMeasured) = DOMAIN lines => record.durationAvg[2] = Len(lines)
    BY <2>2, <2>4
  <2>. QED
    BY <2>1, <2>2, <2>3, <2>5 DEF DurationAverageExact, Having
<1>5. LatencyAverageBounded
  <2>1. RecAt(lines, RecTimed) = {n \in DOMAIN lines : lines[n].duration # NaN /\ lines[n].upstreamTime # NaN}
    BY <1>2 DEF RecAt, RecTimed
  <2>2. /\ record.latencyAvg[1] = TotalOf(RecLatencies(lines))
        /\ record.latencyAvg[2] \in Cardinality(RecAt(lines, RecTimed))..Len(lines)
    BY <1>1 DEF RecInv
  <2>3. RecLatencies(lines) = [n \in DOMAIN lines |->
            IF lines[n].duration = NaN \/ lines[n].upstreamTime = NaN THEN 0
            ELSE lines[n].duration - lines[n].upstreamTime]
    BY DEF RecLatencies, RecLatency
  <2>. QED
    BY <2>1, <2>2, <2>3 DEF LatencyAverageBounded, Having
<1>. QED
  BY <1>3, <1>4, <1>5 DEF RecordExact

\* logs/app/watch.js: whatever lines the access logs of the hour hold, however
\* many they are and in whatever order the files are read, the record has each
\* in the one quantity of its response, durationAvg is their average duration
\* when every line has one, and otherwise it, as latencyAvg always, is between
\* the two averages that its name could mean.
THEOREM RecordExactHolds == RecordSpec => []RecordExact
<1>1. RecInv /\ [RecordNext]_recordVars => RecInv'
  <2>1. SUFFICES ASSUME RecInv, [RecordNext]_recordVars PROVE RecInv'
    OBVIOUS
  <2>2. CASE RecordNext
    <3>1. PICK l \in Lines : CountLine(l)
      BY <2>2 DEF RecordNext
    <3>. QED
      BY <2>1, <3>1, RecInvCountLine
  <2>3. CASE UNCHANGED recordVars
    <3>1. lines' = lines /\ record' = record
      BY <2>3 DEF recordVars
    <3>. QED
      BY <2>1, <3>1 DEF RecInv
  <2>. QED
    BY <2>1, <2>2, <2>3
<1>. QED
  BY <1>1, RecInvInit, RecInvImplies, PTL DEF RecordSpec

=============================================================================
