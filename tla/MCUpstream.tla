------------------------------ MODULE MCUpstream ------------------------------
(***************************************************************************)
(* The upstream side of a worker: components that TLC checks one at a      *)
(* time, each on its own small instance, in one run. `component` says      *)
(* which one a behaviour is of; the others stay in their initial states.   *)
(***************************************************************************)
EXTENDS HttpConnPools, Router

VARIABLE component

all == <<component, h1, h2, rt>>

Init ==
    /\ component \in {"http1", "http2", "router"}
    /\ H1Init
    /\ H2Init
    /\ RtInit

Http1ConnPoolStep == component = "http1" /\ H1Next /\ UNCHANGED <<component, h2, rt>>

Http2ConnPoolStep == component = "http2" /\ H2Next /\ UNCHANGED <<component, h1, rt>>

RouterStep == component = "router" /\ RtNext /\ UNCHANGED <<component, h1, h2>>

Next == Http1ConnPoolStep \/ Http2ConnPoolStep \/ RouterStep

\* The fairness each component's own specification states.
Fairness ==
    /\ \A c \in H1Clients : WF_h1(component = "http1" /\ H1Progress(c))
    /\ WF_h1(component = "http1" /\ H1DeferredDelete)
    /\ \A c \in H2Clients : WF_h2(component = "http2" /\ H2Ends(c))
    /\ WF_rt(component = "router" /\ RtResponseTimeout)
    /\ WF_rt(component = "router" /\ RtRetries)

Spec == Init /\ [][Next]_all /\ Fairness

\* Both connection pools keep what include/envoy/http/conn_pool.h promises to the
\* router: they implement StreamPool.
ImplementStreamPool ==
    /\ H1ImplementsStreamPool
    /\ H2ImplementsStreamPool

\* What must happen in the end does, under the timers and closes each component
\* can count on: see the properties named.
Progress ==
    /\ H1Resolves
    /\ H2Drains
    /\ RtDecided
=============================================================================
