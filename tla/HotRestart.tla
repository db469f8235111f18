----------------------------- MODULE HotRestart ----------------------------
(***************************************************************************)
(* Hot restart (server/hot_restart_impl.cc, server.cc, drain_manager_impl  *)
(* .cc): a new process takes over from its parent by messages between Unix *)
(* datagram sockets, of which there are three names for all processes.     *)
(* Some calls block for the answer and accept nothing else; a lock and a   *)
(* flag in shared memory keep calls of three processes apart.              *)
(***************************************************************************)
EXTENDS Integers, Sequences

CONSTANT HrMaxEpoch   \* bound: processes are 0..HrMaxEpoch

ASSUME HrAssumption == HrMaxEpoch \in Nat

VARIABLE hr

HrEpochs == 0..HrMaxEpoch
HrNobody == -1

\* createDomainSocketAddress(): MAX_CONCURRENT_PROCESSES names.
hrAddress(e) == (e + 3) % 3

\* none, new: it has its socket; askAdmin, askSocket, askStats: it blocks for the
\* reply; config: it loads its configuration; loop, serving: its event loop runs,
\* without and with workers; exiting; exited.
HrNew == [phase |-> "none", from |-> "none", parentGone |-> FALSE,
          statTimer |-> TRUE, listening |-> FALSE, asked |-> FALSE]

HrInit ==
    hr = [initializing |-> FALSE,     \* Flags::INITIALIZING
          lock |-> HrNobody,          \* init_lock_
          bound |-> [a \in 0..2 |-> HrNobody],
          inbox |-> [a \in 0..2 |-> <<>>],
          proc |-> [e \in HrEpochs |-> HrNew],
          crashed |-> FALSE]          \* a RELEASE_ASSERT failed

\* sendMessage(): sendmsg() fails if nothing is bound to the name.
hrSend(p, e, to, type) ==
    IF p.bound[hrAddress(to)] = HrNobody THEN [p EXCEPT !.crashed = TRUE]
    ELSE [p EXCEPT !.inbox[hrAddress(to)] = Append(@, [type |-> type, from |-> e])]

\* Mutant: nobody is told.
hrTerminateParentSilent(p, e) == [p EXCEPT !.proc[e].parentGone = TRUE]

\* terminateParent()
hrTerminateParent(p, e) ==
    IF e = 0 \/ p.proc[e].parentGone THEN p
    ELSE hrSend([p EXCEPT !.proc[e].parentGone = TRUE], e, e - 1, "TerminateRequest")

\* InstanceImpl::shutdownAdmin()
hrShutdownAdmin(p, e) == hrTerminateParent([p EXCEPT !.proc[e].statTimer = FALSE], e)

hrPhase(p, e, phase) == [p EXCEPT !.proc[e].phase = phase]

\* A blocking call: send, then receiveTypedRpc().
hrAsk(p, e, phase, type) ==
    hrSend([hrPhase(p, e, phase) EXCEPT !.proc[e].from = p.proc[e].phase], e, e - 1, type)

hrUnlock(p) == [p EXCEPT !.lock = HrNobody]

\* The process is gone, and with it its socket.
hrGone(p, e, phase) ==
    [hrPhase(p, e, phase) EXCEPT !.bound[hrAddress(e)] = HrNobody, !.inbox[hrAddress(e)] = <<>>,
                                 !.proc[e].listening = FALSE]

----------------------------------------------------------------------------
\* SharedMemory::initialize() and HotRestartImpl(): the next process starts, or
\* one is started again.  One that finds the flag set, or cannot bind its
\* socket, ends; the flag stays set then.
HrStart(e) ==
    /\ hr.proc[e].phase = "none" /\ (e > 0 => hr.proc[e - 1].phase \notin {"none", "exited"})
    /\ ~hr.initializing
    /\ LET p == [hr EXCEPT !.initializing = TRUE]
       IN  hr' = IF hr.bound[hrAddress(e)] # HrNobody THEN p
                 ELSE [hrPhase(p, e, "new") EXCEPT !.bound[hrAddress(e)] = e]

\* shutdownParentAdmin(), under the lock.
HrShutdownParentAdmin(e) ==
    /\ hr.proc[e].phase = "new" /\ hr.lock = HrNobody
    /\ hr' = IF e = 0 THEN hrPhase(hr, e, "config")
             ELSE hrAsk([hr EXCEPT !.lock = e], e, "askAdmin", "ShutdownAdminRequest")

\* duplicateParentListenSocket(), for a listener of the configuration or, while
\* the process serves, of LDS.  It takes no lock.
HrDuplicateSocket(e) ==
    /\ \/ hr.proc[e].phase = "config" /\ ~hr.proc[e].asked
       \/ hr.proc[e].phase = "serving"
    /\ e > 0 /\ ~hr.proc[e].parentGone
    /\ hr' = hrAsk([hr EXCEPT !.proc[e].asked = TRUE], e, "askSocket", "GetListenSocketRequest")

\* The configuration is loaded; or it is bad, and the process exits.
HrConfigured(e) ==
    /\ hr.proc[e].phase = "config"
    /\ hr' = hrPhase(hr, e, "loop")

HrConfigFails(e) ==
    /\ hr.proc[e].phase = "config"
    /\ hr' = [hrGone(hr, e, "none") EXCEPT !.proc[e] = HrNew]

\* InstanceImpl::startWorkers(), drainParentListeners()
HrStartWorkers(e) ==
    /\ hr.proc[e].phase = "loop"
    /\ LET p == [hrPhase(hr, e, "serving") EXCEPT !.proc[e].listening = TRUE, !.initializing = FALSE]
       IN  hr' = IF e = 0 THEN p ELSE hrSend(p, e, e - 1, "DrainListenersRequest")

\* startParentShutdownSequence(): its timer.
HrParentShutdown(e) ==
    /\ hr.proc[e].phase = "serving" /\ e > 0 /\ ~hr.proc[e].parentGone
    /\ hr' = hrTerminateParent(hr, e)

\* Mutant: the lock is not tried.
HrFlushStatsUnlocked(e) ==
    /\ hr.proc[e].phase \in {"loop", "serving"} /\ hr.proc[e].statTimer
    /\ e > 0 /\ ~hr.proc[e].parentGone
    /\ hr' = hrAsk([hr EXCEPT !.lock = e], e, "askStats", "GetStatsRequest")

\* flushStats(), getParentStats(): try_lock().
HrFlushStats(e) ==
    /\ hr.proc[e].phase \in {"loop", "serving"} /\ hr.proc[e].statTimer
    /\ e > 0 /\ ~hr.proc[e].parentGone /\ hr.lock = HrNobody
    /\ hr' = hrAsk([hr EXCEPT !.lock = e], e, "askStats", "GetStatsRequest")

\* onSocketEvent(): a request of the child.
hrHandle(p, e, m) ==
    CASE m.type = "ShutdownAdminRequest" -> hrSend(hrShutdownAdmin(p, e), e, e + 1, "ShutdownAdminReply")
      [] m.type = "GetListenSocketRequest" -> hrSend(p, e, e + 1, "GetListenSocketReply")
      [] m.type = "GetStatsRequest" -> hrSend(p, e, e + 1, "GetStatsReply")
      [] m.type = "DrainListenersRequest" -> [p EXCEPT !.proc[e].listening = FALSE]
      [] m.type = "TerminateRequest" -> hrPhase(p, e, "exiting")
      [] OTHER -> hrSend(p, e, e + 1, "UnknownRequestReply")

hrTake(e) == [hr EXCEPT !.inbox[hrAddress(e)] = Tail(@)]

HrSocketEvent(e) ==
    /\ hr.proc[e].phase \in {"loop", "serving"} /\ hr.inbox[hrAddress(e)] # <<>>
    /\ hr' = hrHandle(hrTake(e), e, Head(hr.inbox[hrAddress(e)]))

HrReplies == [askAdmin |-> "ShutdownAdminReply", askSocket |-> "GetListenSocketReply",
              askStats |-> "GetStatsReply"]

\* receiveTypedRpc(): what it waits for, or the process asserts on it.
HrReceive(e) ==
    LET phase == hr.proc[e].phase
        p == hrTake(e)
    IN  /\ phase \in DOMAIN HrReplies /\ hr.inbox[hrAddress(e)] # <<>>
        /\ hr' = IF Head(hr.inbox[hrAddress(e)]).type # HrReplies[phase] THEN [hr EXCEPT !.crashed = TRUE]
                 ELSE CASE phase = "askAdmin" -> hrUnlock(hrPhase(p, e, "config"))
                        [] phase = "askSocket" -> hrPhase(p, e, hr.proc[e].from)
                        [] phase = "askStats" -> hrUnlock(hrPhase(p, e, hr.proc[e].from))

\* SIGTERM: the parent is told, the loop ends, the process exits.
HrExit(e) ==
    /\ hr.proc[e].phase = "exiting"
    /\ hr' = hrGone(hrTerminateParent(hr, e), e, "exited")

HrStep(e) ==
    \/ HrStart(e) \/ HrShutdownParentAdmin(e) \/ HrDuplicateSocket(e) \/ HrConfigured(e)
    \/ HrConfigFails(e) \/ HrStartWorkers(e) \/ HrParentShutdown(e) \/ HrFlushStats(e)
    \/ HrSocketEvent(e) \/ HrReceive(e) \/ HrExit(e)

HrNext == ~hr.crashed /\ \E e \in HrEpochs : HrStep(e)

HrRuns(e) ==
    \/ HrShutdownParentAdmin(e) \/ HrConfigured(e) \/ HrStartWorkers(e) \/ HrReceive(e) \/ HrExit(e)

\* The event loop, whenever it is not blocked: a message or the timer.
HrEvents(e) == HrSocketEvent(e) \/ HrParentShutdown(e)

HrSpec ==
    /\ HrInit /\ [][HrNext]_hr
    /\ \A e \in HrEpochs : WF_hr(HrRuns(e)) /\ SF_hr(HrEvents(e))

----------------------------------------------------------------------------
(***************************************************************************)
(* Properties.                                                             *)
(***************************************************************************)

\* e blocks for a listen socket while it serves, and the message it accepts next
\* is the first request of a child that starts.
HrMeetsChild(e) ==
    LET box == hr.inbox[hrAddress(e)]
    IN  /\ hr.proc[e].phase = "askSocket" /\ hr.proc[e].from = "serving"
        /\ box # <<>> /\ Head(box).type = "ShutdownAdminRequest" /\ Head(box).from = e + 1

\* A process asserts in one case only, a listener of LDS that meets a child:
\* what any other blocking call receives is its reply, and every message has a
\* receiver.  A message reaches the process it is for, though names are used
\* again: a request comes from the child, a reply from the parent.  From the
\* first process that serves on, some process listens.
HrSound ==
    /\ hr.crashed => \E e \in HrEpochs : HrMeetsChild(e)
    /\ \A a \in 0..2 : \A i \in DOMAIN hr.inbox[a] :
          LET m == hr.inbox[a][i]
          IN  hr.bound[a] = IF \E x \in DOMAIN HrReplies : HrReplies[x] = m.type THEN m.from + 1 ELSE m.from - 1
    /\ (\E e \in HrEpochs : hr.proc[e].phase \in {"serving", "exiting", "exited"}) =>
          \E e \in HrEpochs : hr.proc[e].listening

\* The parents of processes that serve exit in the end, unless a process asserts.
HrHandsOver ==
    LET handedOver == \A e \in HrEpochs \ {0} : hr.proc[e].phase = "serving" => hr.proc[e - 1].phase = "exited"
    IN  ~handedOver ~> (handedOver \/ hr.crashed)

\* receiveTypedRpc() (hot_restart_impl.h:182-187) asserts that what it receives is
\* the reply.
HrNeverAsserts == ~hr.crashed

\* hot_restart_impl.cc:79-83, "This will cause the startup to fail with an error
\* code early, without affecting any currently running processes. The process
\* runner should try again later with some back off and with the same hot restart
\* epoch number": the flag says that a process initializes.
HrMayRetry ==
    hr.initializing => \E e \in HrEpochs : hr.proc[e].phase \in {"new", "askAdmin", "askSocket", "askStats", "config", "loop"}
=============================================================================
