------------------------------ MODULE MCMachinery -----------------------------
(***************************************************************************)
(* The machinery of the server: components that TLC checks one at a time,  *)
(* each on its own small instance, in one run. `component` says which one  *)
(* a behaviour is of; the others stay in their initial states.             *)
(***************************************************************************)
EXTENDS RateLimitConfig, LogRecord, LoadBalancers, StatsStore, ServerThreads

VARIABLE component

all == <<component, configVars, recordVars, lb, sb, ss, st, gd, ts>>

\* Names of the rate limit configuration, none of which holds an underscore.
TwoDomains == {<<"d">>, <<"e">>}
PlainKeys == {<<"ip">>}
OneValue == {<<"x">>}

Init ==
    /\ component \in {"rate limit configuration", "hour record", "balancers", "subsets",
                    "stats store", "statsd sink", "guard dog", "thread local"}
    /\ ConfigInit
    /\ RecordInit
    /\ LbInit
    /\ SbInit /\ (component # "subsets" => sb.policy = "NO_FALLBACK")
    /\ SsInit
    /\ StInit
    /\ GdInit
    /\ TsInit

RateLimitConfigStep == component = "rate limit configuration" /\ ConfigNext /\ UNCHANGED
    <<component, recordVars, lb, sb, ss, st, gd, ts>>

LogRecordStep == component = "hour record" /\ RecordNext /\ UNCHANGED <<component, configVars, lb,
    sb, ss, st, gd, ts>>

LoadBalancersStep == component = "balancers" /\ LbNext /\ UNCHANGED <<component, configVars,
    recordVars, sb, ss, st, gd, ts>>

SubsetLbStep == component = "subsets" /\ SbNext /\ UNCHANGED <<component, configVars, recordVars,
    lb, ss, st, gd, ts>>

StatsStoreStep == component = "stats store" /\ SsNext /\ UNCHANGED <<component, configVars,
    recordVars, lb, sb, st, gd, ts>>

StatsdSinkStep == component = "statsd sink" /\ StNext /\ UNCHANGED <<component, configVars,
    recordVars, lb, sb, ss, gd, ts>>

GuardDogStep == component = "guard dog" /\ GdNext /\ UNCHANGED <<component, configVars, recordVars,
    lb, sb, ss, st, ts>>

ThreadLocalSlotsStep == component = "thread local" /\ TsNext /\ UNCHANGED <<component, configVars,
    recordVars, lb, sb, ss, st, gd>>

Next == RateLimitConfigStep \/ LogRecordStep \/ LoadBalancersStep \/ SubsetLbStep \/ StatsStoreStep \/ StatsdSinkStep \/ GuardDogStep \/ ThreadLocalSlotsStep

Spec == Init /\ [][Next]_all



\* What the threads do for each other: the statsd sink, the guard dog, thread local slots.
\* See the properties named.
ThreadsSound ==
    /\ (component = "statsd sink" => StSound)
    /\ (component = "guard dog" => GdSound)
    /\ (component = "thread local" => TsSound)
=============================================================================
