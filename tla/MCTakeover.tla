------------------------------ MODULE MCTakeover ------------------------------
(***************************************************************************)
(* Hot restart and other loops with an end: components that TLC checks one *)
(* at a time, each on its own small instance, in one run. `component` says *)
(* which one a behaviour is of; the others stay in their initial states.   *)
(***************************************************************************)
EXTENDS RingHash, HotRestart

VARIABLE component

all == <<component, rh, hr>>

Init ==
    /\ component \in {"ring hash", "hot restart"}
    /\ IF component = "ring hash" THEN RhInit
       ELSE rh = rhFirst(<<>>, 0)
    /\ HrInit

RingHashStep == component = "ring hash" /\ RhNext /\ UNCHANGED <<component, hr>>

HotRestartStep == component = "hot restart" /\ HrNext /\ UNCHANGED <<component, rh>>

Next == RingHashStep \/ HotRestartStep

\* The fairness each component's own specification states.
Fairness ==
    /\ WF_rh(component = "ring hash" /\ RhProbe)
    /\ \A e \in HrEpochs : WF_hr(component = "hot restart" /\ HrRuns(e))
    /\ \A e \in HrEpochs : SF_hr(component = "hot restart" /\ HrEvents(e))

Spec == Init /\ [][Next]_all /\ Fairness

\* What must happen in the end does, under the timers and closes each component
\* can count on: see the properties named.
Progress ==
    /\ RhEnds
    /\ HrHandsOver
=============================================================================
