------------------------- MODULE MCServices -------------------------
(***************************************************************************)
(* Three parts, each explored while the others stay in their initial       *)
(* states: Envoy's rate limit filter with its gRPC client, the Redis       *)
(* driver of the service it calls, and the REST API.  A part that has      *)
(* nothing left to do stays as it is; any other halt is a deadlock.        *)
(***************************************************************************)
EXTENDS RateLimitFilter, RedisPool, ApiServer

VARIABLE part  \* the part that runs

parts == <<part, vars, poolVars, apiVars>>

\* Requests for model checking: one per outcome of initiateCall().

Entry(stage, enabled, populates) ==
  [stage |-> stage, enabled |-> enabled, populates |-> populates]

Limited == [internal |-> FALSE, routeEntry |-> TRUE, cluster |-> TRUE,
            policy |-> {Entry(0, TRUE, TRUE)}, includeVirtualHost |-> FALSE, vhPolicy |-> {}]

MCRequests ==
  {Limited,
   [Limited EXCEPT !.internal = TRUE],
   [Limited EXCEPT !.routeEntry = FALSE],
   [Limited EXCEPT !.cluster = FALSE],
   [Limited EXCEPT !.policy = {Entry(1, TRUE, TRUE), Entry(0, FALSE, TRUE), Entry(0, TRUE, FALSE)}],
   [Limited EXCEPT !.policy = {}, !.includeVirtualHost = TRUE, !.vhPolicy = {Entry(0, TRUE, TRUE)}]}

\* SERVERS of the REST API.
TwoServers == <<"envoy1", "envoy2">>

PartsInit ==
  /\ part \in {"filter", "driver", "api"} /\ Init /\ PoolInit /\ ApiInit
  /\ part # "driver" => Idle = {}
  /\ part # "filter" => protocol = "http1"

FilterPart == part = "filter" /\ Next /\ UNCHANGED <<part, poolVars, apiVars>>
DriverPart == part = "driver" /\ PoolNext /\ UNCHANGED <<part, vars, apiVars>>
DriverDone == part = "driver" /\ (\A c \in Calls : pc[c] = "done") /\ UNCHANGED parts

ApiPart == part = "api" /\ ApiNext /\ UNCHANGED <<part, vars, poolVars>>
ApiDone == part = "api" /\ (apiCrashed \/ \A r \in ApiRequests : apiPc[r] # "new") /\ UNCHANGED parts

PartsNext == FilterPart \/ DriverPart \/ DriverDone \/ ApiPart \/ ApiDone

PartsSpec ==
  /\ PartsInit /\ [][PartsNext]_parts
  /\ WF_vars(part = "filter" /\ ResponseTimeout) /\ WF_vars(part = "filter" /\ DeferredDelete)
  /\ \A c \in Calls : WF_poolVars(part = "driver" /\ Call(c))
  /\ \A r \in ServersRequests : \A f \in Fetches : WF_apiVars(part = "api" /\ FetchEnds(r, f))
  /\ \A r \in StatsRequests : WF_apiVars(part = "api" /\ (MongoFailed(r) \/ StatsFound(r)))

\* What must happen in the end does: a held request is decided whatever becomes of
\* the call (EventuallyDecided), a client is given back or closed however its call
\* ends (Released), a request whose fetches end well is answered (Joined).
Progress == EventuallyDecided /\ Released /\ Joined
=============================================================================
