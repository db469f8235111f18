------------------------------ MODULE MCClusters ------------------------------
(***************************************************************************)
(* Clusters, their hosts and how workers come to know of them: components  *)
(* that TLC checks one at a time, each on its own small instance, in one   *)
(* run. `component` says which one a behaviour is of; the others stay in   *)
(* their initial states.                                                   *)
(***************************************************************************)
EXTENDS HostHealth, ClusterManager, ClusterHosts

VARIABLE component

all == <<component, hc, od, ci, tc, ch>>

Init ==
    /\ component \in {"health", "outlier", "cluster init", "worker clusters", "hosts"}
    /\ HcInit /\ (component # "health" => hc.kind = "http")
    /\ OdInit
    /\ CiInit
    /\ TcInit /\ (component # "worker clusters" => ~tc.original)
    /\ ChInit /\ (component # "hosts" => ch.kind = "eds")

HealthCheckerStep == component = "health" /\ HcNext /\ UNCHANGED <<component, od, ci, tc, ch>>

OutlierDetectionStep == component = "outlier" /\ OdNext /\ UNCHANGED <<component, hc, ci, tc, ch>>

ClusterInitStep == component = "cluster init" /\ CiNext /\ UNCHANGED <<component, hc, od, tc, ch>>

ThreadLocalClustersStep == component = "worker clusters" /\ TcNext /\ UNCHANGED <<component, hc, od,
    ci, ch>>

ClusterHostsStep == component = "hosts" /\ ChNext /\ UNCHANGED <<component, hc, od, ci, tc>>

Next == HealthCheckerStep \/ OutlierDetectionStep \/ ClusterInitStep \/ ThreadLocalClustersStep \/ ClusterHostsStep

\* The fairness each component's own specification states.
Fairness ==
    /\ \A h \in HcHosts : WF_hc(component = "health" /\ HcTimer(h))
    /\ WF_od(component = "outlier" /\ OdTimer)
    /\ WF_ci(component = "cluster init" /\ (\E cds \in BOOLEAN : CiStaticLoaded(cds)))
    /\ WF_ci(component = "cluster init" /\ CiCdsFailed)
    /\ \A c \in CiClusters : WF_ci(component = "cluster init" /\ CiInitialized(c))
    /\ WF_tc(component = "worker clusters" /\ TcHandle)
    /\ \A h \in TcHosts, priority \in TcPriorities : WF_tc(component = "worker clusters" /\ TcIdle(h, priority))
    /\ WF_ch(component = "hosts" /\ ChWorker)
    /\ \A a \in ChAddresses : WF_ch(component = "hosts" /\ (\E failed \in BOOLEAN : ChChecked(a, failed)))

Spec == Init /\ [][Next]_all /\ Fairness

\* What must happen in the end does, under the timers and closes each component
\* can count on: see the properties named.
Progress ==
    /\ HcKeepsChecking
    /\ OdReturns
    /\ (component = "cluster init" => CiStarts)
    /\ TcPoolsGo
    /\ ChInitializes
=============================================================================
